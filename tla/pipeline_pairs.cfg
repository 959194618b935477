\* One scan, one worker, one retry, any two faults of any kinds.
SPECIFICATION FairSpec
CONSTANTS
  s1 = s1
  w1 = w1
  Scans = {s1}
  Workers = {w1}
  Trusted = {}
  Verdicts = {"severe"}
  RetryLimit = 1
  MaxRetries <- MCMaxRetries
  FaultKinds = {"crash", "loss", "dispatch", "db", "disk", "cache", "retention"}
  MaxFaults = 2
PROPERTIES
  Drains
  Settles
CHECK_DEADLOCK FALSE
