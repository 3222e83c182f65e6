SPECIFICATION MCSpec
CONSTANTS
    EPOCH_DURATION_BLOCKS = 2
    Validator = TRUE
    BadRoots = TRUE
    MaxCrashes = 2
    MaxHeight = 3
    MaxLedger = 5
    MaxSlot = 4
CHECK_DEADLOCK FALSE
INVARIANT SignsOnce
INVARIANT ServedBlocksLinked
INVARIANT CalmExecutesOncePerBlock
PROPERTY CalmImportsNext
PROPERTY ImplementsChain
