SPECIFICATION FairSpec
CONSTANTS
  Tasks = {k1, k2}
  Main = main
  OrderedStores = TRUE
  MaxAwaits = 2
INVARIANTS TypeOK AwaitedResult EventLifetime
PROPERTIES AwaitReturns
CHECK_DEADLOCK FALSE
