SPECIFICATION StorageSpec
CONSTANTS
  c1 = c1
  c2 = c2
  Clients <- TwoClients
  Leavers <- Second
  Workloads <- AllWork
  DefaultPerm <- NoPerm
  Perms <- SomePerms
  MaxNode = 10
CHECK_DEADLOCK FALSE
INVARIANT StateSound
INVARIANT ClientsAgree
PROPERTY TreeKept
PROPERTY SceneSurvives
PROPERTY ImplementsReplication
PROPERTY AvatarGoes
