SPECIFICATION FairSpec
CONSTANTS
  t1 = t1
  t2 = t2
  t3 = t3
  Tasks <- ThreeTasks
  Workers = 2
  PoolType = "fixed"
  MinSize = 1
  MaxSize = 1
  EnableTasksQueue = TRUE
  Concurrency = 1
  RestartWorkerOnError = TRUE
  ErrorListened = TRUE
  Strategy = "ROUND_ROBIN"
  KillBehavior = "SOFT"
  KillHandler = "sync"
  MaxStarts = 1
  MaxErrors = 1
  MaxKillRequests = 0
  MaxChanges = 0
CHECK_DEADLOCK FALSE
PROPERTY RedistributionEnds
