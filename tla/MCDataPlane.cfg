SPECIFICATION FairSpec
CONSTANTS
  Ports = {0, 1}
  port_list <- MCPortList
  RxQueues <- MCRxQueues
  MAX_PKT_BURST = 2
  Frames <- MCFrames
  InitTables <- MCInitTables
  Changes <- MCChanges
  MaxPkts = 3
  MaxChanges = 1
INVARIANTS
  PacketsConserved
  SentInOrder
  TreatedByOwnEntries
  TablesFollowMessages
PROPERTY EveryPacketLeaves
