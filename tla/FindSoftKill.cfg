SPECIFICATION Spec
CONSTANTS
  t1 = t1
  t2 = t2
  t3 = t3
  Tasks <- ThreeTasks
  Workers = 2
  PoolType = "dynamic"
  MinSize = 1
  MaxSize = 2
  EnableTasksQueue = FALSE
  Concurrency = 1
  RestartWorkerOnError = TRUE
  ErrorListened = TRUE
  Strategy = "ROUND_ROBIN"
  KillBehavior = "SOFT"
  KillHandler = "sync"
  MaxStarts = 1
  MaxErrors = 0
  MaxKillRequests = 1
  MaxChanges = 0
CHECK_DEADLOCK FALSE
INVARIANT SoftKillSparesTasks
