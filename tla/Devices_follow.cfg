SPECIFICATION FairSpec
CONSTANTS
  Ids <- MCIds
  Volumes <- MCVolumes
  Owner <- MCOwner
  Model <- MCModel
  Paths <- MCPaths
  Starts <- MCStarts
  None = None
  Legacy = "x"
  Platforms = {"windows", "macos"}
  Capacity = 1
  Attempts = 2
  MaxChanges = 2
  MaxEvents = 1
CHECK_DEADLOCK FALSE
INVARIANTS ObservationWhole
PROPERTIES FollowsDevices
