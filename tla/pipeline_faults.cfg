\* One scan, two workers, one retry, any one fault of any kind.
SPECIFICATION Spec
CONSTANTS
  s1 = s1
  w1 = w1
  w2 = w2
  Scans = {s1}
  Workers = {w1, w2}
  Trusted = {}
  Verdicts = {"benign", "severe", "placeholder"}
  RetryLimit = 1
  MaxRetries <- MCMaxRetries
  FaultKinds = {"crash", "loss", "dispatch", "db", "disk", "cache", "retention"}
  MaxFaults = 1
SYMMETRY WorkerSymmetry
INVARIANTS
  InputsReady
  AlertsAreReal
  SingleFlight
  VerdictsAgree
  OneIncident
PROPERTIES
  OnlyStaleWritersUndo
CHECK_DEADLOCK FALSE
