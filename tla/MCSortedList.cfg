SPECIFICATION FairSpec
CONSTANTS
  Threads = {t1, t2, t3}
  NbToInsert = 2
  Printer = printer
  Null = Null
  TheList = TheList
  Free = Free
INVARIANTS
  ListWellFormed
  PrevIsLocked
  PrintedSnapshot
PROPERTIES
  EverythingInserted
CHECK_DEADLOCK FALSE
