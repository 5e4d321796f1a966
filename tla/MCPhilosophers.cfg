SPECIFICATION FairSpec
CONSTANTS
  N = 5
  Cycles = 2
  Free = Free
INVARIANTS
  NeighboursExclude
  DeadlockFree
  ClearedClean
PROPERTIES
  EverybodyEats
CHECK_DEADLOCK FALSE
