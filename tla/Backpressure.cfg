CONSTANTS
    High = 4
    Low = 1
    ChunkSize = 2
    TotalBytes = 11
    MaxSendQueue = 8
    WaitLimit = 2
    RetryLimit = 2
SPECIFICATION FairSpec
INVARIANTS
    TypeOK
    BufferBounded
    RefusedOnlyWhenStalled
    CancelPrompt
PROPERTIES
    LoopEnds
CHECK_DEADLOCK FALSE
