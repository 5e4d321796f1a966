SPECIFICATION Spec
CONSTANTS
  a = a
  b = b
  insert = insert
  select = select
  quit = quit
  Main = main
  Clients = {a, b}
  Services = {s}
  Sessions <- MCSessions
  Size <- MCSize
  Quit = quit
  MaxFaults = 1
INVARIANTS
  NothingLost
PROPERTIES
  DeadAreReaped
  ShutdownEnds
  SessionsEnd
CHECK_DEADLOCK FALSE
