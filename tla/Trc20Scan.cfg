SPECIFICATION FairSpec
CONSTANTS
  Replica = {r1}
  Nobody = Nobody
  Gone = Gone
  ClockSkew = FALSE
  RequiredConfs = 1
  ReconcileBatch = 2
  MaxTip = 5
  MaxFaults = 1
  ExtraConfs = 0
  StartBlock = 1
  BatchSize = 2
  InitialCursors = {0}
  Probed = {r1}
  Retain = 1
  EventRetries = 2
  MaxLag = 2
INVARIANTS TypeOK LagCovered
PROPERTIES CursorContractHolds CatchesUp
