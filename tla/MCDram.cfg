SPECIFICATION Spec
CONSTANTS
  NUM_RANKS = 2
  NUM_BANKS = 2
  NUM_ROWS = 2
  NUM_COLS = 8
  JEDEC_DATA_BUS_BITS = 64
  CL = 2
  AL = 0
  HalfBL = 2
  tRAS = 4
  tRCD = 3
  tRRD = 1
  tRC = 5
  tRP = 1
  tCCD = 2
  tRTP = 1
  tWTR = 1
  tWR = 1
  tRTRS = 1
  tRFC = 2
  tFAW = 6
  tCKE = 1
  tXP = 1
  tCMD = 1
  RefreshPeriod = 26
  TRANS_QUEUE_DEPTH = 1
  CMD_QUEUE_DEPTH = 4
  TOTAL_ROW_ACCESSES = 1
  Address = {0, 32, 64, 256}
  NoAddress = NoAddress
  Setups <- MCSetups
  MaxTransactions = 3
  FreeTransactions = 2
  FirstAddress = {0}
INVARIANTS
  NoComplaint
  ReadsSeeWrites
  
PROPERTIES
  ReadsAnswered
CHECK_DEADLOCK FALSE
