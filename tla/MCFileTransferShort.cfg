SPECIFICATION Spec
CONSTANTS
  a = a
  b = b
  Clients = {a, b}
  Sessions <- MCSessions
  ServerFiles <- MCServerFiles
  ClientFiles <- MCClientFiles
  Listing <- MCListing
  StackWords = {0, 9}
  MaxFaults = 1
INVARIANTS
  ListReadWhole
CHECK_DEADLOCK FALSE
