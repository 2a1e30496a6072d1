CONSTANTS
  Tasks = {t1}
  Clients = {c1, c2}
  Workers = {w1}
  Schedules <- MCSchedules
  Configs <- CatchUpConfigs
  Requests = {"create", "update", "approve", "reject", "archive", "restore", "execution", "pause", "resume"}
  LegacyTasks = {t1}
  NextOcc <- MCNextOcc
  Horizon = 3
  Lease = 1
  FailureLimit = 2
  Quota = 1
  Batch = 1
  MaxRev = 4
  MaxCrashes = 0
  None = None
SPECIFICATION Spec
INVARIANTS RunCountCountsOccurrences UnapprovedNeverRuns
PROPERTIES MaxRunsRespected RestoredTasksCanRun
CHECK_DEADLOCK FALSE
