\* The broker may lose one message.
SPECIFICATION Spec
CONSTANTS
  s1 = s1
  w1 = w1
  Scans = {s1}
  Workers = {w1}
  Trusted = {}
  Verdicts = {"benign"}
  RetryLimit = 1
  MaxRetries <- MCMaxRetries
  FaultKinds = {"loss"}
  MaxFaults = 1
INVARIANTS
  NoScanHangs
CHECK_DEADLOCK FALSE
