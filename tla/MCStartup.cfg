SPECIFICATION FairSpec
CONSTANTS
  CommandLines <- MCCommandLines
  Topologies <- MCTopologies
  Lcores <- MCLcores
  DeviceCount = 4
  MaxEthPorts = 32
  NbSockets = 2
  NbReplica = 2
  MaxRxQueuePerLcore = 7
  MaxRxQueuePerPort = 128
  MaxTxQueuePerPort = 32
  MaxLcoreParams = 9
  MaxCheckTime = 3
  MaxUpdates = 3
INVARIANTS
  TypeOK
  QueuesReady
  TablesInUse
PROPERTIES
  StartsOrExits
CHECK_DEADLOCK FALSE
