SPECIFICATION FairSpec
CONSTANTS
  Event = {e1}
  Worker = {w1, w2}
  None = None
  MaxAttempts = 2
  BatchLimit = 2
  MaxFaults = 2
  MaxOverruns = 1
  MaxCommands = 1
INVARIANTS TypeOK Exclusive DeliveredWasAccepted StatusFitsAttempts AttemptsWithinBudget EveryAttemptLogged
PROPERTIES DeliveredIsFinal EventuallySettled
CHECK_DEADLOCK FALSE
