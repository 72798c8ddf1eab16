SPECIFICATION FairSpec
CONSTANTS
  Replica = {r1, r2}
  Nobody = Nobody
  Gone = Gone
  ClockSkew = TRUE
  RequiredConfs = 1
  ReconcileBatch = 2
  MaxTip = 4
  MaxFaults = 1
  ExtraConfs = 0
  StartBlock = 0
  BatchSize = 2
  InitialCursors = {0, 1}
  Probed = {}
INVARIANTS TypeOK NoSilentGap
PROPERTIES CursorContractHolds CatchesUp
