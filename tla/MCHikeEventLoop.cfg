SPECIFICATION FairSpec
CONSTANTS
  w1 = w1
  w2 = w2
  Workers <- Both
  Main = main
  InitCap = 2
  MaxCalls = 4
  MaxRuns = 2
CONSTRAINT Explored
INVARIANTS TypeOK EvaluatedOnce StopDrains
PROPERTIES StopEndsRun ReplyArrives
CHECK_DEADLOCK FALSE
