\* Two browsers on one scan, any two faults of any kinds.
SPECIFICATION FairSpec
CONSTANTS
  NoClient = NoClient
  Clients = {c1, c2}
  FaultKinds = {"crash", "cache", "publish", "redis"}
  MaxFaults = 2
INVARIANTS
  NothingMissed
PROPERTIES
  DeliverySpec
  Served
CHECK_DEADLOCK FALSE
