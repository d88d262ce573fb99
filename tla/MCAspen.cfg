SPECIFICATION Spec
CONSTANTS
  Samples <- SamplesDef
  Sums <- SumsDef
  Environments <- EnvironmentsDef
INVARIANTS
  CountsAgree
  WalkBalanced
  ValueKept
  ConflictsSummed
CHECK_DEADLOCK FALSE
