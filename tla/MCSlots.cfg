SPECIFICATION SlotSpec
CONSTANTS
    Elector = {e1}
    BOOTSTRAP_MIN_VC_REQUIREMENT = 1
    STAKE_CAP = 2
    EPOCH_DURATION_BLOCKS = 6
    RetainedHashes = 10
    StakeValues = {1}
    VcValues = {1}
    MaxRecorded = 17
    MaxSlotNumber = 5
ACTION_CONSTRAINT EverySlotHasItsBlock
CHECK_DEADLOCK FALSE
INVARIANT RandomnessOfEpoch
