\* Two dashboard sockets of a user who may have one, two processes, any one fault.
SPECIFICATION FairSpec
CONSTANTS
  c1 = c1
  c2 = c2
  NoSet = NoSet
  p1 = p1
  p2 = p2
  Clients = {c1, c2}
  Processes = {p1, p2}
  Limit = 1
  FaultKinds = {"crash", "redis"}
  MaxFaults = 1
INVARIANTS
  LimitHeld
PROPERTIES
  CalmBeatsAreExact
  
CHECK_DEADLOCK FALSE
