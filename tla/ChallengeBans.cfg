SPECIFICATION ChallengeSpec

CONSTANTS
  Keys = {k1}
  Procs = {p1, p2}
  Tokens = {t1}
  Forever = Forever
  None = None
  NoToken = NoToken
  NoAnswer = NoAnswer
  TooLong = TooLong
  Top = 2
  Escalation <- Durations
  Threshold = 1
  BanWindow = 2
  MaxViolations = 3
  TokenTTL = 2
  CookieTTL = 1
  FailureThreshold = 2
  FailureWindow = 2
  RequestLimit = 2
  RequestWindow = 2
  MaxCount = 3
  MaxClock = 3

INVARIANT BruteForcersAreBanned

CONSTRAINT OneAtATime

CHECK_DEADLOCK FALSE
