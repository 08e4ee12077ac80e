SPECIFICATION Spec
CONSTANTS
  Cells = {m1, m2, m3}
  Lcores = {l1, l2}
  QueueSize = 3
  NetSize = 2
  MaxMsgs = 3
  MaxDigests = 4
  NULL = NULL
SYMMETRY Symmetry
PROPERTY SurvivesExhaustion
CHECK_DEADLOCK FALSE
