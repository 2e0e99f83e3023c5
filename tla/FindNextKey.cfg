SPECIFICATION Spec
CONSTANTS
  t1 = t1
  t2 = t2
  t3 = t3
  Tasks <- TwoTasks
  Workers = 3
  PoolType = "fixed"
  MinSize = 2
  MaxSize = 2
  EnableTasksQueue = FALSE
  Concurrency = 1
  RestartWorkerOnError = TRUE
  ErrorListened = TRUE
  Strategy = "ROUND_ROBIN"
  KillBehavior = "SOFT"
  KillHandler = "sync"
  MaxStarts = 1
  MaxErrors = 1
  MaxKillRequests = 0
  MaxChanges = 0
CHECK_DEADLOCK FALSE
INVARIANT NextKeyNamesWorker
