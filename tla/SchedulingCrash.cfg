CONSTANTS
  Tasks = {t1}
  Clients = {c1}
  Workers = {w1, w2}
  Schedules <- MCSchedules
  Configs <- CatchUpConfigs
  Requests = {"create", "stop", "manual"}
  LegacyTasks = {}
  NextOcc <- MCNextOcc
  Horizon = 2
  Lease = 1
  FailureLimit = 2
  Quota = 1
  Batch = 1
  MaxRev = 3
  MaxCrashes = 1
  None = None
SPECIFICATION Spec
INVARIANTS TypeOK WorkerOwnsItsRun NextRunIsFresh FailuresAreBacked
PROPERTIES OccurrenceSpec
CHECK_DEADLOCK FALSE
