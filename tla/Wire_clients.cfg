CONSTANTS
  Devices = {ipod}
  Clients = {u, w}
  Capacity = 2
  Asked = {"trigger_sync", "backfill_rockbox", "scan_library", "retry_source_mount",
           "get_history", "prompt_decision", "cancel_sync"}
  Reports = {"track_start"}
  MaxSaid = 1
  MaxStarts = 1
  MaxSteers = 1
  MaxConnects = 2
  MaxWaiting = 1
  MaxFaults = 1
  MaxDeeds = 4
SPECIFICATION Spec
INVARIANT AnswersReachTheirPrompt
INVARIANT ClientsAgree
CHECK_DEADLOCK FALSE
CONSTRAINT NobodyLags
SYMMETRY Alike
