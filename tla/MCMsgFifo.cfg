SPECIFICATION FairSpec
CONSTANTS
  QueueSize = 3
  Consumers = {c1, c2}
  MaxMsgs = 7
  NULL = NULL
INVARIANTS
  TypeOK
  NoLostWakeup
PROPERTIES
  ImplementsBoundedFifo
  EveryMsgTaken
