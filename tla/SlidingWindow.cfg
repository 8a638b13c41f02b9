SPECIFICATION Spec

CONSTANTS
  p1 = p1
  p2 = p2
  NoEntry = NoEntry
  NotBlocking = NotBlocking
  NoTimeout = NoTimeout
  NoReset = NoReset
  Procs <- TwoProcs
  Limit = 3
  W = 3
  Costs = {1, 2}
  Patience = {1}
  MaxAge = 1
  MaxRetries = 2
  MaxClock = 4
  MaxResets = 1

SYMMETRY Symm2

INVARIANTS
  WeightedBound
  BurstBound

PROPERTIES
  DenialsAreDeserved

CHECK_DEADLOCK FALSE
