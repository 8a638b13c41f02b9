SPECIFICATION AdaptersSpec

CONSTANTS
  t1 = t1
  t2 = t2
  wide = wide
  narrow = narrow
  other = other
  Requests = {1, 2, 3}
  GlobalLimits <- OneGlobal
  RouteLimits <- TwoDecorators
  MaxLimit = 4
  Multipliers <- HalfOrHalfAgain
  Threads = {t1, t2}
  Rates <- ThreeRates
  RateLimit <- Limits
  MaxAlgorithms = 1
  MaxCalls = 3
  NoLoop = NoLoop

INVARIANTS
  AdmittedWithinLimits
  FailureModeIsHonoured
  OneAllowance
  RacesAreBounded

PROPERTIES
  CallsReturn

CHECK_DEADLOCK FALSE
