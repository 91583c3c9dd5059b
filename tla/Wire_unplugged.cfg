CONSTANTS
  Devices = {ipod}
  Clients = {u}
  Capacity = 2
  Asked = {}
  Reports = {"track_start"}
  MaxSaid = 1
  MaxStarts = 0
  MaxSteers = 0
  MaxConnects = 2
  MaxWaiting = 1
  MaxFaults = 1
  MaxDeeds = 4
SPECIFICATION Spec
INVARIANT ClientsKept
CHECK_DEADLOCK FALSE
