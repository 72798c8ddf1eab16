SPECIFICATION FairSpec
CONSTANTS
  Replica = {p1}
  Job = {1}
  Range = {r1}
  Scope = {TRX}
  Client = {c1}
  None = None
  Batches = 1
  MaxAttempts = 2
  RetryLimit = 2
  MaxFaults = 1
  MaxRequests = 0
PROPERTY JobsEnd
CHECK_DEADLOCK FALSE
