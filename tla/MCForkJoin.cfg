SPECIFICATION FairForkJoin
CONSTANTS
  Products <- MCProducts
  TrialCounts <- MCTrialCounts
  Squares <- MCSquares
  MaxWorkers = 3
  MaxForkFailures = 1
INVARIANTS
  ResultRight
PROPERTIES
  MainFinishes
CHECK_DEADLOCK FALSE
