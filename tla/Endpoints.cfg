SPECIFICATION FairSpec
CONSTANTS
  Client = {c1, c2}
  Scanner = {s1, s2}
  Key = {k1}
  Secret = {A, B}
  FirstSecret = A
  None = None
  MaxEndpoints = 2
  MaxRequests = 2
  MaxEnqueues = 2
  MaxFaults = 1
INVARIANT TypeOK
PROPERTIES NothingDiscarded FanOutComplete ReplacedKeyKept EverythingEnds
CHECK_DEADLOCK FALSE
