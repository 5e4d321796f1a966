SPECIFICATION FairSpec
CONSTANTS
  Keys <- SmallKeys
  NumBuckets = 2
  AddKeys <- Added
  RemoveKeys <- RemovedPresent
  UIntSize = 8
  Null = Null
  Free = Free
INVARIANTS
  MapWellFormed
PROPERTIES
  ImplementsSet
  EverythingJoined
CHECK_DEADLOCK FALSE
