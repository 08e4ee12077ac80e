SPECIFICATION FairSpec
CONSTANTS
  NbSockets = 3
  NbReplica = 2
  NbLcores = 3
  SocketOf <- MCSocketOf
  NumaOn = TRUE
  DelaySuffices = TRUE
  MaxUpdates = 4
  NONE = NONE
INVARIANTS
  TypeOK
  NoChangeUnderLookup
  ReplicasAreCopies
PROPERTIES
  ImplementsTableView
  EveryUpdateSeen
