SPECIFICATION Spec
CONSTANTS
  w1 = w1
  w2 = w2
  Worker = {w1, w2}
  Size = 2
  FirstId = 4
  LastId = 6
  LimitedRetries = TRUE
  MaxShares = 4
  MaxSessions = 2
INVARIANTS
  RightShare
  CountersCovered
PROPERTIES
  MissingIsExplained
SYMMETRY WorkerSymmetry
CHECK_DEADLOCK FALSE
