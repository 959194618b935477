\* Two incidents, two concurrent sweeps, one of which may fail.
SPECIFICATION FairSpec
CONSTANTS
  i1 = i1
  i2 = i2
  i3 = i3
  Incidents = {i1, i2}
  Severity <- MCSeverity
  Purges = {p1, p2}
  MaxFaults = 1
INVARIANTS
  DriftNeedsARace
  KeptUnlessRaced
PROPERTIES
  Resynchronised
CHECK_DEADLOCK FALSE
