SPECIFICATION FairSpec
CONSTANTS
  m1 = m1
  m2 = m2
  Macs <- MCMacs
  Ports <- MCPorts
  Traffic <- MCTraffic
  Lcores = {1, 2}
  Files <- MCFiles
  MAX_MACS = 1
  Bcast = 100
  QueueSize = 2
  MaxUnderWay = 1
  MaxTodo = 2
  WireSize = 1
  NONE = NONE
INVARIANTS
  TypeOK
  SourcesAreDestinations
  LearnedWhereSeen
  EgressIsForDestination
PROPERTIES
  AddressIsLearned
