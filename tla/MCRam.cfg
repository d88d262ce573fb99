CONSTANTS
    Standards <- MCStandards
    BankCount = 4
    SubArrayCount = 2
    Workloads <- MCWorkloads
    Batches = 3
    MemTicks = 5
    QueueMax = 2
    HighMark = 1
    LowMark = 1
    Cap = 1
    RefreshIn = 60
    Backlogs <- MCBacklogs
    MaxClk = 700

SPECIFICATION Spec
INVARIANTS RowsRespected RestKept BurstsApart BooksAgree
PROPERTIES ReadsAnswered
