\* Two workers, one retry, any two faults; an attempt's runs start in one of two seconds.
SPECIFICATION FairSpec
CONSTANTS
  Workers = {w1, w2}
  MaxRetries = 1
  LastSecond = 1
  FaultKinds = {"dump", "slow", "openssl", "pgpass", "crash"}
  MaxFaults = 2
INVARIANTS
  ReportedStays
  NeverWithoutBackup
  NothingLeftBehind
PROPERTIES
  Drains
CHECK_DEADLOCK FALSE
