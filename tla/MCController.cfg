SPECIFICATION ControllerSpec
CONSTANTS
  PoolThreads = {t1, t2, t3}
  QueueSize = 1
  InitMsgs = 1
  DigestMsgs = 1
  NetSize = 1
  MaxConns = 2
  MaxDigests = 3
  NULL = NULL
SYMMETRY Symmetry
INVARIANTS
  OrderKept
  QueuesAreServed
CHECK_DEADLOCK FALSE
