SPECIFICATION LogSpec
CONSTANTS
    Producers = {ws, control}
    MaxBatch = 2
    MaxLogs = 3
INVARIANTS
    NothingLostOrReordered
    AllWrittenAtExit
PROPERTIES
    RecordsReachFile
    StopReturns
CHECK_DEADLOCK FALSE
