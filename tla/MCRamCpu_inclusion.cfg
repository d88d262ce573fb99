CONSTANTS
    CoreCount = 2
    LineCount = 4
    LatencyEach <- MCLatencies
    ReadRoom = 2
    WriteRoom = 2
    HighMark = 1
    LowMark = 1
    Machines <- MCSharing
    Depth = 2
    Ipc = 2
    WaitBound = 2

SPECIFICATION Spec
INVARIANTS InclusionAsserted
CHECK_DEADLOCK FALSE
