SPECIFICATION Spec
CONSTANTS
  Keys <- SmallKeys
  NumBuckets = 2
  AddKeys <- AddedTwo
  RemoveKeys <- RemovedAbsent
  UIntSize = 8
  Null = Null
  Free = Free
PROPERTY
  ImplementsSet
CHECK_DEADLOCK FALSE
