SPECIFICATION Spec
CONSTANTS
  Depth = 2
  Keys = {1, 2, 3}
  Periods = 2
  MaxJobs = 3
  MaxFaults = 2
INVARIANTS
  ProgramOfTheHeader
  ResultsOfTheDispatch
  PipelineOutlivesUnlessGivenUp
  NothingLeftBehind
PROPERTIES
  MiningGoesOn
