SPECIFICATION FairSpec
CONSTANTS
  MaxValue = 1000
  Values <- AllValues
  Free = Free
INVARIANTS
  NoLostWakeup
  TurnsAlternate
  IntervalHoldsValue
PROPERTIES
  GuessHalves
  GameEnds
CHECK_DEADLOCK FALSE
