SPECIFICATION MachinesSpec
CONSTANTS
  L1s = {x, y}
  HasL2 = TRUE
  SimL2 = FALSE
  Lines = {1, 2, 3}
  PageOf <- TwoMemories
  SimPages = {"near"}
  SeveralMems = TRUE
  Loads = {r1, r2, r3}
  L1Assoc = 1
  L2Assoc = 2
  L1Latency = 0
  L2Latency = 1
  MemLatency = 1
  MaxStores = 1
  MaxWarmups = 1
  MaxTime = 1
  Absent = Absent
  Tags = {1, 2, 3}
  Assoc = 2
  MaxTimestamp = 6
  NoTag = NoTag
INVARIANTS
  ChainUnbroken
  WaitingIsHeld
  PrivateTracked
PROPERTIES
  ImplementsPolicy
  EveryLoadAnswered
CHECK_DEADLOCK FALSE
