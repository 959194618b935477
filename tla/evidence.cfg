\* One linked scan, any two faults.  The process ends.
SPECIFICATION Spec
CONSTANTS
  MaxDepth = 1
  MaxFaults = 2
  Brands = {"a"}
  Likeness = {0, 10}
CHECK_DEADLOCK FALSE
INVARIANTS
  Lifetimes
  NamedFilesAreKept
  SameViewsAreTrusted
  NoViewIsSuspect
