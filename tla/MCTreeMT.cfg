SPECIFICATION FairSpec
CONSTANTS
  Vals <- SmallVals
  NNumbers = 4
  NThreads = 3
  Null = Null
  TheTree = TheTree
  Free = Free
INVARIANTS
  TreeWellFormed
PROPERTIES
  LinksStay
  ImplementsSet
  EverythingJoined
CHECK_DEADLOCK FALSE
