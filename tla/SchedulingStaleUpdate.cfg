CONSTANTS
  Tasks = {t1}
  Clients = {c1}
  Workers = {w1}
  Schedules <- MCSchedules
  Configs <- OneConfig
  Requests = {"create", "update"}
  LegacyTasks = {}
  NextOcc <- MCNextOcc
  Horizon = 3
  Lease = 1
  FailureLimit = 2
  Quota = 1
  Batch = 1
  MaxRev = 2
  MaxCrashes = 0
  None = None
SPECIFICATION Spec
INVARIANT NextRunIsFresh
CHECK_DEADLOCK FALSE
