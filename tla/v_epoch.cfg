SPECIFICATION Spec
CONSTANTS
  w1 = w1
  w2 = w2
  Worker = {w1, w2}
  NoOne = noone
  Depth = 1
  JobEpoch = {1, 2}
  TooLarge = {}
  BuildMayFail = FALSE
  DagChangeEpoch = 2
  DagEpochMul = 4
  DagFullOff = 1
  MaxJobs = 1
  MaxParks = 0
INVARIANTS
  EpochChangeGoesOn
SYMMETRY WorkerSymmetry
CHECK_DEADLOCK FALSE
