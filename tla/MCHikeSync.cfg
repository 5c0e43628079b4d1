SPECIFICATION FairSpec
CONSTANTS
  Workers = {w1, w2, w3}
  Main = main
  Updates = {"block", "return"}
INVARIANTS TypeOK Exclusion FnOnce JoinComplete AllCounted
PROPERTIES WaitReturns
CHECK_DEADLOCK FALSE
