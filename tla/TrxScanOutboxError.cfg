SPECIFICATION Spec
CONSTANTS
  Replica = {r1}
  Nobody = Nobody
  Gone = Gone
  ClockSkew = FALSE
  RequiredConfs = 1
  ReconcileBatch = 10
  MaxTip = 4
  MaxFaults = 2
  ExtraConfs = 0
  StartBlock = 0
  BatchSize = 2
  InitialCursors = {1}
  Probed = {r1}
INVARIANT TransientErrorKeepsMatch
