\* Two clients from one address, limits of two and three, two scans, one fault.
SPECIFICATION Spec
CONSTANTS
  Clients = {c1, c2}
  Ips = {a}
  Account = Account
  MaxAttempts = 2
  MaxGlobal = 3
  MaxFaults = 1
  Lifetime = 2
  Listed = FALSE
  Feeds = {"virustotal", "openphish"}
  MaxScans = 2
SYMMETRY ClientSymmetry
INVARIANTS
  BoundedOvershoot
  OnlyFaultsLockForGood
  LogoutSticks
  RepeatsNeedOverlap
  ShownMeansAlerted
