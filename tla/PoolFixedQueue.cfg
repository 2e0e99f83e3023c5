SPECIFICATION FairSpec
CONSTANTS
  t1 = t1
  t2 = t2
  t3 = t3
  Tasks <- TwoTasks
  Workers = 2
  PoolType = "fixed"
  MinSize = 2
  MaxSize = 2
  EnableTasksQueue = TRUE
  Concurrency = 1
  RestartWorkerOnError = FALSE
  ErrorListened = TRUE
  Strategy = "ANY"
  KillBehavior = "SOFT"
  KillHandler = "sync"
  MaxStarts = 1
  MaxErrors = 1
  MaxKillRequests = 0
  MaxChanges = 1
CHECK_DEADLOCK FALSE
INVARIANT TypeOK
INVARIANT KeyNamesHolder
INVARIANT ExecutingCountsInFlight
INVARIANT QueuedOnlyWhenBusy
INVARIANT NoQueueWhenDisabled
PROPERTY EventuallySettled
