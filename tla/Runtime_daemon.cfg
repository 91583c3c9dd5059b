SPECIFICATION Spec
CONSTANTS
  d1 = d1
  d2 = d2
  r1 = r1
  r2 = r2
  Devices = {d1, d2}
  NoDevice = nodev
  Requests = {r1, r2}
  NoRequest = noreq
  InitialDevices = {d1}
  MaxSources = 2
  Budgets <- MCBudgets
INVARIANTS OneWorker HistoryKept SourceWorkProceeds ChangeNotLost
PROPERTIES QueueLeavesAnswered NamesNeverRegress ImplementsLedger
CHECK_DEADLOCK FALSE
