SPECIFICATION FairSpec
CONSTANTS
  Hosts <- MCHosts
  Components <- MCComponents
  Ids <- MCIds
  Owner <- MCOwner
  Part <- MCPart
  LegacyHosts <- OneHost
  EarlyHosts <- Nobodies
  AcceptAt <- Points
  CrashAt <- Settling
  FaultAt <- Writes
  ForeignAt <- NoPoints
  MaxCrashes = 1
  MaxFaults = 1
  MaxForeign = 0
  MaxSends = 2
  MaxMoves = 1
PROPERTIES Delivers
