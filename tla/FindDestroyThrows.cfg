SPECIFICATION FairSpec
CONSTANTS
  t1 = t1
  t2 = t2
  t3 = t3
  Tasks <- TwoTasks
  Workers = 2
  PoolType = "fixed"
  MinSize = 2
  MaxSize = 2
  EnableTasksQueue = FALSE
  Concurrency = 1
  RestartWorkerOnError = TRUE
  ErrorListened = TRUE
  Strategy = "ROUND_ROBIN"
  KillBehavior = "SOFT"
  KillHandler = "none"
  MaxStarts = 1
  MaxErrors = 0
  MaxKillRequests = 0
  MaxChanges = 0
CHECK_DEADLOCK FALSE
PROPERTY DestroyTerminatesWorkers
