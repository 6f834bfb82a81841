SPECIFICATION Spec
CONSTANTS
  c1 = c1
  c2 = c2
  Clients <- TwoClients
  Leavers <- Second
  MayStream <- First
  Readers <- TwoClients
  Writers <- First
  LAST_LAYER_ID = 1
  Types = {t1, t2}
  Items = {x1}
  Values = {v1}
  MaxOps = 5
CHECK_DEADLOCK FALSE
INVARIANT PointersAlive
INVARIANT ClientsAgree
PROPERTY ImplementsReplication
PROPERTY DestroyConfirmed
