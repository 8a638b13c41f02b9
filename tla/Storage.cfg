SPECIFICATION ServerSpec

CONSTANTS
  k1 = k1
  k2 = k2
  Absent = Absent
  Keys <- TwoKeys
  Values = {1, 2}
  TTLs = {2, 3}
  Interval = 2
  MaxCount = 2
  MaxClock = 5
  Second = 3
  Raised = Raised

SYMMETRY Symm2

VIEW WhatIsRead

INVARIANTS
  KeptForItsTime

PROPERTIES
  ServersImplementContract

CHECK_DEADLOCK FALSE
