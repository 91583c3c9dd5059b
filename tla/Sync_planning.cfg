SPECIFICATION Spec
CONSTANTS
  Absent = Absent  Foreign = Foreign  Edited = Edited
  Path = {1, 2}
  Dir <- MCDir
  SizeOf <- MCSizeOf
  Prefix <- MCPrefix
  Within = {}
  StableHash <- MCStableHash
  MaxCollisions = 3
  NoTags <- MCNoTags
  TagSets <- MCTagSets
  Audios = {1, 2}
  Slugs = {1}
  Definitions <- MCDefinitions
  Selections <- MCSelections
  Subscribed <- MCSubscribed
  Targets = {"alac", "aac"}
  Scenarios <- MCScenarios
  SourceInit <- MCSourceInit
INVARIANTS AudioTruthful DeviceFollows ForeignKept ViewsTruthful
CHECK_DEADLOCK FALSE
