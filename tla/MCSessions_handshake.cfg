SPECIFICATION Spec
CONSTANTS
  c1 = c1
  c2 = c2
  Clients <- TwoClients
  Slots <- TwoSlots
  UINT_MAX = 3
  Workloads <- AllWork
CHECK_DEADLOCK FALSE
INVARIANT PortsCounted
INVARIANT SessionsSound
INVARIANT StopClean
PROPERTY SlotFreed
PROPERTY ClientTold
