SPECIFICATION Spec
CONSTANTS
  w1 = w1
  w2 = w2
  Workers <- Both
  Main = main
  InitCap = 1
  MaxCalls = 3
  MaxRuns = 2
INVARIANT CallOrder
CHECK_DEADLOCK FALSE
