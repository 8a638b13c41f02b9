SPECIFICATION FairSpec

CONSTANTS
  r1 = r1
  r2 = r2
  r3 = r3
  Reqs <- ThreeReqs
  Threshold = 3
  MaxProbes = 2
  Timeouts = {2, 3}
  Outcomes = {"ok", "error", "broken", "cut", "silent"}

INVARIANTS
  ClosedCountIsHonest

PROPERTIES
  RestsBeforeProbing
  RecoveryIsTried
  ReportedProbesDecide
