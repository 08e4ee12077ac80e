SPECIFICATION Spec
CONSTANTS
  PoolSize = 5
  NULL = NULL
INVARIANTS
  ListsPartitionCells
  UsedListLinked
PROPERTY ImplementsCellPool
CHECK_DEADLOCK FALSE
