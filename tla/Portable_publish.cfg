SPECIFICATION Spec
CONSTANTS
  Hosts <- MCHosts
  Components <- MCComponents
  Ids <- MCIds
  Owner <- MCOwner
  Part <- MCPart
  LegacyHosts <- OneHost
  EarlyHosts <- OneHost
  AcceptAt <- Uncompared
  CrashAt <- Points
  FaultAt <- Writes
  ForeignAt <- Fenced
  MaxCrashes = 1
  MaxFaults = 1
  MaxForeign = 1
  MaxSends = 2
  MaxMoves = 1
INVARIANTS TypeOK IntentKept CacheTruthful NothingTorn
PROPERTIES ForeignKept
