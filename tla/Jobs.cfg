SPECIFICATION FairSpec
CONSTANTS
  Replica = {p1, p2}
  Job = {1, 2}
  Range = {r1}
  Scope = {TRX, U1}
  Client = {c1}
  None = None
  Batches = 2
  MaxAttempts = 2
  RetryLimit = 2
  MaxFaults = 1
  MaxRequests = 1
INVARIANTS TypeOK OneWorkerPerJob CompletedWasReplayed AttemptsBounded
PROPERTIES EndedStays EndsUnlessAbandoned
CHECK_DEADLOCK FALSE
