SPECIFICATION Spec
CONSTANTS
  Step <- Gather
  RobDepth = 3
  LfbDepth = 2
  Alu = 2
  Ld = 2
  St = 1
  Never = 1000
  First = 0
  Last = 4
  Stride = 1
  MaxTime = 18
INVARIANTS
  PrevCountsParents
  DataflowOrder
  RobDispatched
  DoneMeansDrained
CHECK_DEADLOCK FALSE
