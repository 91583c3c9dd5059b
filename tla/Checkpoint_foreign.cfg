SPECIFICATION Spec
CONSTANTS
  Tracks <- MCTracks
  InitialTracks <- MCInitial
  ListVersions <- MCLists
  Works <- MCWorks
  RecoveryWants <- MCWants
  CrashAt <- AllPoints
  FaultAt <- LateFaults
  ForeignAt <- FencedPoints
  MaxCrashes = 1
  MaxFaults = 1
  MaxForeign = 1
  MaxSyncs = 2
PROPERTIES ForeignPreserved RollbackIsFinal
