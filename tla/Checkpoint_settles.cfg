SPECIFICATION FairSpec
CONSTANTS
  Tracks <- MCTracks
  InitialTracks <- MCInitial
  ListVersions <- MCLists
  Works <- MCWorks
  RecoveryWants <- OneWant
  CrashAt <- SettlingPoints
  FaultAt <- SettlingFaults
  ForeignAt <- NoPoints
  MaxCrashes = 2
  MaxFaults = 1
  MaxForeign = 0
  MaxSyncs = 2
INVARIANTS RetryKeepsInputs
PROPERTIES Settles
