SPECIFICATION Spec
CONSTANTS
  BLOCKS_PER_PLANE = 2
  PAGES_PER_BLOCK = 1
  READ_CYCLES = 1
  WRITE_CYCLES = 5
  ERASE_CYCLES = 6
  LOOKUP_CYCLES = 1
  CommandBeats = 1
  PageBeats = 2
  ReturnCycles = 1
  CommandBits = 1
  PageBits = 2
  FrontCommand = 1
  FrontPage = 2
  REQUEST_BUFFER_SIZE = 6
  RESPONSE_BUFFER_SIZE = 4
  FTL_READ_QUEUE_LENGTH = 2
  VirtualPages = 2
  BLOCK_SIZE = 4096
  DeadlockTime = 8
  Addresses = {1, 2}
  NoPage = NoPage
  Blank = Blank
  Setups <- MCSetups
INVARIANTS
  StopsForCause
  ReadsSeeWrites
  MapSound
PROPERTIES
  AllAnswered
  CollectionEnds
CHECK_DEADLOCK FALSE
