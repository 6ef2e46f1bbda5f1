SPECIFICATION Spec
CONSTANTS
  N = 2
  Modes = {"list", "self_test", "replay", "benchmark", "mine"}
  Nulls = {FALSE, TRUE}
  Algo = {a1, a2}
  NoAlgo = none
  InitAlgo = a1
  MaxParks = 1
  a1 = a1
  a2 = a2
  none = none
INVARIANTS
  DevicesGivenBack
  NothingMinedUntested
PROPERTIES
  ExitEnds
