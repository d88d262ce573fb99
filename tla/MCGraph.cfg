SPECIFICATION Spec
CONSTANTS
  near = near
  far = far
  Mems = {near, far}
  Capacity <- Capacities
  LineBytes = 4
  FirstPage = 64
  AddrSpace = 4096
  Programs <- AllPrograms
INVARIANTS
  LineHasOneMemory
  EdgesMatch
  DependenceHonoured
  EveryAccessOnce
  AddressesInside
CHECK_DEADLOCK FALSE
