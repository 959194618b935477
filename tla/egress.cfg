\* Two requests for one name or two, one permit, a cache of one entry.
SPECIFICATION FairSpec
CONSTANTS
  Requests = {r1, r2}
  Callers = {r1, r2}
  Hosts = {h1, h2}
  Answers <- MCAnswers
  Limit = 1
  Ttl = 2
  FailureTtl = 1
  MaxEntries = 1
  MaxStalls = 2
INVARIANTS
  NoWaiterStranded
  ServersBounded
PROPERTIES
  PoolSpec
  PassedIsServed
  TunnelsClose
