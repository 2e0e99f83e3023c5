SPECIFICATION FairSpec
CONSTANTS
  t1 = t1
  t2 = t2
  t3 = t3
  Tasks <- TwoTasks
  Workers = 4
  PoolType = "dynamic"
  MinSize = 1
  MaxSize = 2
  EnableTasksQueue = TRUE
  Concurrency = 1
  RestartWorkerOnError = TRUE
  ErrorListened = TRUE
  Strategy = "ANY"
  KillBehavior = "HARD"
  KillHandler = "sync"
  MaxStarts = 1
  MaxErrors = 1
  MaxKillRequests = 1
  MaxChanges = 0
CHECK_DEADLOCK FALSE
INVARIANT InServiceWithinMax
INVARIANT StaticNodesKept
INVARIANT SendersListed
PROPERTY RefinesTaskPromises
PROPERTY DestroyEnds
