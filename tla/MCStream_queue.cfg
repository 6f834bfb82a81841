SPECIFICATION FairSpec
CONSTANTS
  Keys <- FewKeys
  Cmd <- Table
  Prios <- FewPrios
  RPrio <- Real
  Ids <- FewIds
  Workloads <- AllWork
  MaxWire = 2
INVARIANT QueueBooks
INVARIANT OrderKept
INVARIANT Delivered
INVARIANT FpsKnown
PROPERTY AllSent
PROPERTY BothClose
CHECK_DEADLOCK FALSE
