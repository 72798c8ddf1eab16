SPECIFICATION FairSpec
CONSTANTS
  Address = {a1, a2}
  FalsePositive = {a2}
  MaxLegs = 2
  MaxAttempts = 3
  MaxChanges = 2
  MaxCancels = 1
INVARIANTS TypeOK NothingMissed OnlyWatched OneVerdict
PROPERTY BatchEnds
