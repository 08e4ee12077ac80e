SPECIFICATION FairSpec
CONSTANTS
  Cells = {m1, m2}
  Lcores = {l1, l2}
  QueueSize = 2
  NetSize = 1
  MaxMsgs = 3
  MaxDigests = 2
  NULL = NULL
INVARIANTS
  TypeOK
  CellsAreExclusive
  NothingDropped
  StreamsKept
  LeakBound
PROPERTIES
  EveryMsgHandled
  EveryDigestWritten
CHECK_DEADLOCK FALSE
