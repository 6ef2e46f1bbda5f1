SPECIFICATION LiveSpec
CONSTANTS
  Worker = {w1}
  Pool = {p1, p2, p3}
  Algo = {a1, a2}
  NoAlgo = none
  InitPool = p1
  InitAlgo = a1
  Verb = {"running", "paused", "stopped"}
  Target = {p2}
  SwitchAlgo = {}
  Fragile = {}
  Redirect = {p3}
  LimitedRetries = FALSE
  MayShutDown = FALSE
  MaxPosts = 2
  w1 = w1
  w2 = w2
  w3 = w3
  p1 = p1
  p2 = p2
  p3 = p3
  a1 = a1
  a2 = a2
  none = none
PROPERTIES
  WorkersReleased
  StopDropsConnection
  ImplementsContract
