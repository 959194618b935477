\* Two sockets on one process; nothing fails.
SPECIFICATION FairSpec
CONSTANTS
  c1 = c1
  c2 = c2
  NoSet = NoSet
  p1 = p1
  Clients = {c1, c2}
  Processes = {p1}
  Limit = 2
  FaultKinds = {}
  MaxFaults = 0
PROPERTIES
  SumIsAuthoritative
CHECK_DEADLOCK FALSE
