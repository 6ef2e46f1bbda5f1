SPECIFICATION FairSpec
CONSTANTS
  Worker = {w1, w2}
  Pool = {p1, p2, p3}
  Algo = {a1, a2}
  NoAlgo = none
  InitPool = p1
  InitAlgo = a1
  Verb = {"paused"}
  Target = {p2}
  SwitchAlgo = {a2}
  Fragile = {a2}
  Redirect = {}
  LimitedRetries = TRUE
  MayShutDown = TRUE
  MaxPosts = 1
  w1 = w1
  w2 = w2
  w3 = w3
  p1 = p1
  p2 = p2
  p3 = p3
  a1 = a1
  a2 = a2
  none = none
INVARIANTS
  FlagsAgree
PROPERTIES
  SwitchEnds
