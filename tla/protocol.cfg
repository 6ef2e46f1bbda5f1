SPECIFICATION Spec
CONSTANTS
  Dialects = {"bitcoin", "progpow"}
  EagerPool = FALSE
  MaxConns = 2
  MaxPushes = 2
  MaxSubmits = 1
INVARIANTS
  TargetInForce
  HeaderOfOneJobUnlessRefused
PROPERTIES
  HandshakeEnds
