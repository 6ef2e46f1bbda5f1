SPECIFICATION FairSpec
CONSTANTS
  N = 1
  Depth = 1
  Chunks = 2
  Record = TRUE
  FreshIds = TRUE
  JobId = {1}
  BuildMayFail = FALSE
  MaxConns = 2
  MaxJobs = 2
  MaxEpoch = 3
  MaxRolls = 2
  MaxShares = 0
  MaxParks = 1
INVARIANTS
  TypeOK
  NothingTestedTwice
PROPERTIES
  NewestJobIsMined
