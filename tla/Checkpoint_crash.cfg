SPECIFICATION Spec
CONSTANTS
  Tracks <- MCTracks
  InitialTracks <- MCInitial
  ListVersions <- MCLists
  Works <- MCWorks
  RecoveryWants <- MCWants
  CrashAt <- AllPoints
  FaultAt <- CrashFaults
  ForeignAt <- AllPoints
  MaxCrashes = 2
  MaxFaults = 1
  MaxForeign = 1
  MaxSyncs = 2
INVARIANTS TypeOK IInv NoDangling AuthoritiesAgree JournalLoads
