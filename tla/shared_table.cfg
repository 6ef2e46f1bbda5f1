SPECIFICATION Spec
CONSTANTS
  w1 = w1
  w2 = w2
  Worker = {w1, w2}
  NoOne = noone
  Depth = 2
  JobEpoch = {1, 2, 4}
  TooLarge = {4}
  BuildMayFail = TRUE
  DagChangeEpoch = 2
  DagEpochMul = 4
  DagFullOff = 1
  MaxJobs = 2
  MaxParks = 2
INVARIANTS
  OneTable
  ReadsOwnEpoch
  PauseKeepsTable
  TypeOK
SYMMETRY WorkerSymmetry
CHECK_DEADLOCK FALSE
