SPECIFICATION Spec
CONSTANTS
  N = 1
  Depth = 2
  Chunks = 2
  Record = FALSE
  FreshIds = TRUE
  JobId = {1}
  BuildMayFail = TRUE
  MaxConns = 2
  MaxJobs = 2
  MaxEpoch = 2
  MaxRolls = 2
  MaxShares = 1
  MaxParks = 0
INVARIANTS
  InFlightUnderWork
  SharesAreOfOneJob
  DroppedSharesAreDead
  PublishedWorkIsCurrent
