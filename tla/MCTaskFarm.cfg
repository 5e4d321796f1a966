SPECIFICATION FairSpec
CONSTANTS
  Workers = {w1, w2}
  NTasks = 3
  NSlots = 2
  Boss = Boss
  NoWorker = NoWorker
INVARIANTS
  FarmConsistent
  RingExclusion
  KilledIdle
PROPERTIES
  ImplementsPool
  BossFinishes
CHECK_DEADLOCK FALSE
