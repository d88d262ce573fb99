CONSTANTS
    CoreCount = 2
    LineCount = 4
    LatencyEach <- MCLatencies
    ReadRoom = 2
    WriteRoom = 2
    HighMark = 1
    LowMark = 1
    Machines <- MCMachines
    Depth = 2
    Ipc = 2
    WaitBound = 2

SPECIFICATION Spec
INVARIANTS MissesUnderWay LoadsUnderWay
PROPERTIES DirtyWrittenBack RunEnds
CHECK_DEADLOCK FALSE
