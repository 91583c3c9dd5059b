SPECIFICATION Spec
CONSTANTS
  d1 = d1  d2 = d2  p = p  r1 = r1  r2 = r2  r3 = r3  song = song
  NoList = NoList  Smart = Smart
  Devices = {d1, d2}
  Slugs = {p}
  Names = {song, "b"}
  Requests = {r1, r2, r3}
  MaxPerTarget = 1
  Scripts <- MCScripts
  MaxCrashes = 1
  MaxFaults <- MCFaults
INVARIANTS TypeOK AppliedOnce CrashRecovers
PROPERTIES JournalsEndWhole ImplementsStore
CHECK_DEADLOCK FALSE
