SPECIFICATION Spec
CONSTANTS
  c1 = c1
  c2 = c2
  Clients <- TwoClients
  Leavers <- Second
  MayStream <- Second
  Readers <- TwoClients
  Writers <- TwoClients
  LastTgId = 0
  LastTagId = 0
  Types = {t1}
  Values = {v1, v2}
  MaxOps = 8
CHECK_DEADLOCK FALSE
INVARIANT PointersAlive
INVARIANT ClientsAgree
PROPERTY ImplementsReplication
PROPERTY DestroyReaches
