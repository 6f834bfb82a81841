SPECIFICATION Spec
CONSTANTS
  c1 = c1
  c2 = c2
  Clients <- TwoClients
  Slots <- TwoSlots
  UINT_MAX = 3
  Workloads <- Share
CHECK_DEADLOCK FALSE
INVARIANT PortFromList
