SPECIFICATION Spec

CONSTANTS
  k1 = k1
  k2 = k2
  r1 = r1
  r2 = r2
  Forever = Forever
  None = None
  Keys <- TwoKeys
  Requests <- TwoRequests
  Top = 2
  Escalation <- ShortThenForever
  Threshold = 1
  BanWindow = 1
  MaxViolations = 3
  MaxFingerprints = 1
  TrustedTTL = 1
  SuccessThreshold = 2
  MaxTracked = 1
  MaxOffences = 3
  MaxClock = 1

SYMMETRY Symmetry

VIEW WhatIsRead

INVARIANTS
  EvictionWorks
  TrustIsEarned

PROPERTIES
  BanIsKept
  BansAreEarned
  OffendersAreBanned

CHECK_DEADLOCK FALSE
