SPECIFICATION FairSpec
CONSTANTS
  PoolThreads = {t1, t2, t3}
  NumJobs = 1
  Settled = FALSE
  NULL = NULL
PROPERTY EveryJobStarts
CHECK_DEADLOCK FALSE
