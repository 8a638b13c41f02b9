SPECIFICATION Spec

CONSTANTS
  p1 = p1
  p2 = p2
  NoEntry = NoEntry
  Procs <- TwoProcs
  Lag <- NoLag2
  Limit = 2
  EI = 2
  Costs = {1, 3}
  MaxAge = 1
  MaxRetries = 3
  MaxClock = 5
  MaxResets = 1

SYMMETRY Symm2

INVARIANTS
  AdmissionBound
  RetryAfterHonest
  ExpiryForgetsNothing

PROPERTIES
  ImplementsContract

CHECK_DEADLOCK FALSE
