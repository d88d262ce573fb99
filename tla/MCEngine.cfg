SPECIFICATION FairSpec
CONSTANTS
  Step <- Row
  RobDepth = 5
  LfbDepth = 2
  Alu = 1
  Ld = 2
  St = 1
  Never = 1000
  NumThreads = 4
  Total = 5
  Simulated = TRUE
  Hop = 1
  MemLatency = 2
  Kernels = 2
INVARIANTS
  EveryStepOnce
  LagBounded
PROPERTIES
  AllKernelsEnd
CHECK_DEADLOCK FALSE
