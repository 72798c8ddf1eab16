SPECIFICATION FairSpec
CONSTANTS
  Event = {e1}
  Worker = {w1, w2}
  None = None
  MaxAttempts = 2
  BatchLimit = 1
  MaxFaults = 0
  MaxOverruns = 1
  MaxCommands = 0
PROPERTY DeadUntilRetried
CHECK_DEADLOCK FALSE
