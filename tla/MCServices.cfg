SPECIFICATION ServicesSpec
CONSTANTS
    Components = {"votes", "early", "slashing", "clock", "drift", "peers", "warp", "seed",
                  "locks", "join", "security", "slots", "wallet"}
    a1 = a1
    b1 = b1
    Account = {v1, v2, v3, outsider}
    Validators = {v1, v2, v3}
    Target <- MCTarget
    number <- MCnumber
    Epochs = {0}
    Rounds = {0, 1}
    NoTarget = NoTarget
    Party = {p1, p2, p3, p4}
    GenesisValidators = {p1, p2}
    MIN_VALIDATOR_STAKE = 2
    MAX_EARLY_VALIDATORS = 4
    BOOTSTRAP_ERA_BLOCKS = 4
    CANDIDACY_EXPIRATION = 1
    HISTORICAL_BLOCKS = 2
    ImportsFail = TRUE
    MaxTransactions = 1
    MaxBlock = 4
    Holder = {v}
    EPOCHS_PER_DAY = 1
    EPOCHS_PER_MONTH = 2
    EPOCHS_PER_YEAR = 3
    epochs_per_quarter = 2
    VotesPerDay = 1
    VotesPerMonth = 3
    ArbitrationsPerYear = 1
    ArbitrationCredit = 1
    SeniorityCredit = 1
    DecayPercent = 10
    min_vc_threshold = 1
    Multiplier = {1}
    MaxEpochs = 3
    MaxCredits = 3
    CooldownEpochs <- MCCooldown
    CRITICAL_COUNT_DECAY_EPOCHS = 2
    SLASHING_RECORD_RETENTION_EPOCHS = 1
    MAX_SLASHING_RECORDS = 1
    StakeOf = {5}
    MaxSlashes = 3
    DriftLevel = {0, 900, 1100, 1400, 1700, 2100}
    EXCLUDED_TO_RECOVERING_SECS = 1
    DEGRADED_TO_HEALTHY_SECS = 2
    RECOVERING_TO_HEALTHY_SECS = 2
    EMERGENCY_RECOVERY_SUSTAIN_SECS = 1
    MaxSeconds = 3
    MaxMissed = 1
    SLOT_DURATION_SECS = 2
    MIN_BLOCK_INTERVAL_SECS = 1
    MAX_SINGLE_BLOCK_DRIFT = 1
    MAX_CUMULATIVE_DRIFT_PER_EPOCH = 1
    RESTART_GRACE_DRIFT = 2
    MaxSlot = 3
    MaxEpoch = 1
    MaxHeight = 4
    MaxRestarts = 1
    RemotePeer = {r1}
    INITIAL_SCORE = 2
    MIN_SCORE = 1
    GOOD_SCORE = 1
    BAD_SCORE = 2
    TIMEOUT_SCORE = 1
    PEER_TIMEOUT = 1
    SCORE_DECAY_INTERVAL = 1
    STALE_THRESHOLD = 2
    WINDOW = 1
    MAX_MESSAGES = 1
    MAX_MESSAGE_SIZE = 1
    MAX_BANDWIDTH = 1
    BAN_DURATION = 2
    STATS_LIFETIME = 2
    MAX_VIOLATIONS = 2
    MaxTime = 4
    Content = {x, y}
    MaxChunks = 2
    MaxSnapshots = 2
    WARP_THRESHOLD = 0
    MAX_SNAPSHOT_AGE = 0
    MaxWarpHeight = 1
    SeedNode = {"n1", "n2"}
    ValidatorNode = {"n1"}
    HEARTBEAT_CYCLES = 2
    CONNECTION_TIMEOUT = 1
    PEER_TIMEOUT_UNITS = 3
    MAX_AGE = 4
    CACHE_VALID = 1
    RATE_LIMIT = 1
    RATE_WINDOW = 1
    MAX_SEED_VIOLATIONS = 2
    SEED_BAN = 2
    INITIAL_PEER_SCORE = 1
    MAX_PEER_SCORE = 2
    MAX_IN_FILE = 1
    EMERGENCY = 1
    RESTRICTED = 2
    DEGRADED = 3
    BOOTSTRAP_DURATION = 3
    MaxClock = 5
    MaxReported = 1
    MaxSeedStarts = 1
    Task = {t1, t2, t3}
    GenesisId = {"g", "h"}
    NoGenesis = "none"
    OwnGenesis = "g"
    GenesisAccount <- MCGenesisAccount
    MaxStarts = 3
    EMERGENCY_VALIDATORS = 1
    POST_BOOTSTRAP_MIN_VALIDATORS = 2
    SAFE_VALIDATORS = 3
    min_validators = 2
    absolute_min_validators = 1
    bootstrap_end_epoch = 1
    floor_grace_epochs = 2
    normal_recovery_epochs = 3
    collapse_detection_epochs = 2
    shm_recovery_epochs = 1
    critical_governance_frozen = TRUE
    shm_no_slashing = TRUE
    terminal_read_only = TRUE
    MAX_TRANSITIONS = 3
    MaxValidators = 3
    MaxCount = 5
    Elector = {e1, e2}
    BOOTSTRAP_MIN_VC_REQUIREMENT = 1
    STAKE_CAP = 2
    EPOCH_DURATION_BLOCKS = 3
    RetainedHashes = 5
    StakeValues = {0, 1, 3}
    VcValues = {0, 1}
    MaxRecorded = 1
    MaxSlotNumber = 1
    PENDING_SECONDS = 1
    SECONDS_PER_BLOCK = 1
    MAX_SCAN_BLOCKS = 1
    HistoryLimit = 1
    BaseFee <- MCBaseFee
    MaxMade = 2
    MaxBlocks = 2
    MaxWait = 1
    MaxWalletCrashes = 1
CONSTRAINTS
    BoundEarly
    BoundCredits
    BoundSlashing
    BoundClock
    BoundDrift
    BoundPeers
    BoundSeed
    BoundWallet
CHECK_DEADLOCK FALSE
INVARIANT ServicesTypeOK
INVARIANT FinalityFollowsValidators
 
 
INVARIANT ProducesAfterRecovery
INVARIANT EpochSkewBounded
INVARIANT BansStartAfresh
 
 
INVARIANT SomeTaskGoesOn
INVARIANT RunsOnOneGenesis
INVARIANT RefreshFindsPayments
PROPERTY QuorumsDecide
PROPERTY ApprovedInTime
PROPERTY StateFollowsValidators
 
