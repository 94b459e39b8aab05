SPECIFICATION FairSpecAll
CONSTANTS
    Capacity = 4
    Low = 1
    High = 3
    TransferAll = FALSE
    Minimum = 3
    SourceLen = 6
INVARIANTS
    LevelSafe
    CompletesOnce
    BothDeliver
PROPERTIES
    BothPipes
    TransfersEnd
CHECK_DEADLOCK FALSE
