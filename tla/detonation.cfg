\* One worker, one permit, one retry, any one fault.
SPECIFICATION FairDetonation
CONSTANTS
  Requests = {r1, r2, r3}
  NoRequest = NoRequest
  Fallback = Fallback
  Workers = {w1}
  Limit = 1
  RetryLimit = 1
  FaultKinds = {"crash", "rpc"}
  MaxFaults = 1
INVARIANTS
  EvidenceOfOneRun
  FreshResult
  FallbackIsJustified
  OnlyTimeOutsOverflow
PROPERTIES
  HandedOver
CHECK_DEADLOCK FALSE
