CONSTANTS
  Tasks = {t1, t2}
  Clients = {c1}
  Workers = {w1}
  Schedules <- MCSchedules
  Configs <- RunOnce
  Requests = {"create", "archive", "drain", "stop"}
  LegacyTasks = {}
  NextOcc <- MCNextOcc
  Horizon = 2
  Lease = 1
  FailureLimit = 2
  Quota = 2
  Batch = 1
  MaxRev = 2
  MaxCrashes = 1
  None = None
SPECIFICATION FairSpec
PROPERTIES QueuedIsTaken DueIsMaterialized
CHECK_DEADLOCK FALSE
