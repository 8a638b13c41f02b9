SPECIFICATION Spec

CONSTANTS
  p1 = p1
  p2 = p2
  NoEntry = NoEntry
  Procs <- TwoProcs
  Lag <- OneHostBehind
  Limit = 2
  EI = 2
  Costs = {1, 3}
  MaxAge = 1
  MaxRetries = 3
  MaxClock = 5
  MaxResets = 1

PROPERTIES
  ImplementsTokenBucket

CHECK_DEADLOCK FALSE
