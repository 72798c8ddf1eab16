SPECIFICATION FairSpec
CONSTANTS
  Caller = {c1, c2, c3}
  NumKeys = 2
  Slots = 2
  MaxRetries = 2
  MaxRetryAfter = 2
  MaxLimits = 2
INVARIANTS TypeOK NoKeyLeftOut NoIdleSleep
PROPERTIES KeysRested CallsEnd
