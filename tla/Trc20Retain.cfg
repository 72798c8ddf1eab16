SPECIFICATION Spec
CONSTANTS
  Replica = {r1, r2}
  Nobody = Nobody
  Gone = Gone
  ClockSkew = FALSE
  RequiredConfs = 1
  ReconcileBatch = 3
  MaxTip = 5
  MaxFaults = 0
  ExtraConfs = 0
  StartBlock = 0
  BatchSize = 2
  InitialCursors = {1}
  Probed = {r1, r2}
  Retain = 2
  EventRetries = 2
  MaxLag = 3
SYMMETRY ReplicaSymmetry
INVARIANT LagCovered
