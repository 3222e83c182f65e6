SPECIFICATION FairSpec
CONSTANTS
    EPOCH_DURATION_BLOCKS = 2
    Validator = FALSE
    BadRoots = FALSE
    MaxCrashes = 1
    MaxHeight = 2
    MaxLedger = 4
    MaxSlot = 2
CHECK_DEADLOCK FALSE
PROPERTY NextBlockImported
