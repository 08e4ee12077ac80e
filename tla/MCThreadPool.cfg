SPECIFICATION FairSpec
CONSTANTS
  PoolThreads = {t1, t2, t3}
  NumJobs = 5
  Settled = TRUE
  NULL = NULL
INVARIANTS
  RunOnce
PROPERTY EveryJobStarts
CHECK_DEADLOCK FALSE
