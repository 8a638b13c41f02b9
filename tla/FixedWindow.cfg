SPECIFICATION Spec

CONSTANTS
  p1 = p1
  p2 = p2
  NoEntry = NoEntry
  NotBlocking = NotBlocking
  NoTimeout = NoTimeout
  Procs <- TwoProcs
  Limit = 2
  W = 2
  Costs = {1, 2}
  Patience = {NotBlocking, NoTimeout, 3}
  MaxAge = 1
  MaxRetries = 2
  MaxClock = 4
  MaxResets = 1

SYMMETRY Symm2

INVARIANTS
  PerWindowBound
  SpanBound

PROPERTIES
  WaitingAWindowHelps

CHECK_DEADLOCK FALSE
