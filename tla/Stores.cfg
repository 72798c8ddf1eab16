SPECIFICATION FairSpec
CONSTANTS
  Replica = {r1}
  Client = {c1, c2}
  Address = {a1}
  Contract = {u1}
  Endpoint = {e1, e2}
  None = None
  Stored = {e1}
  Resync = TRUE
  MaxChanges = 2
  MaxFaults = 1
INVARIANTS TypeOK NoLostNotification
PROPERTY StoresConverge
