SPECIFICATION StorageSpec
CONSTANTS
  c1 = c1
  c2 = c2
  Clients <- TwoClients
  Leavers <- Second
  Workloads <- OnlyMove
  DefaultPerm <- NoPerm
  Perms <- SomePerms
  MaxNode = 10
CHECK_DEADLOCK FALSE
INVARIANT TreeIntact
