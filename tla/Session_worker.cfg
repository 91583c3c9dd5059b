SPECIFICATION Spec
CONSTANTS
  Albums <- MCAlbums
  Window = 2
  Threads = 2
  PipeCapacity = 2
  Trouble <- MCTrouble
INVARIANTS TypeOK OutcomeTruthful PublishedLanded StreamAccepted
PROPERTIES StopEnds
CHECK_DEADLOCK FALSE
