SPECIFICATION Spec
CONSTANTS
    Contracts = {"messaging", "arbitration", "emergency", "recovery", "fork", "ossification", "meta", "identity", "personhood", "reputation", "security", "roles"}
    Account = {a1, a2}
    MaxBlock = 2
    Root = {r1, r2}
    MAX_MESSAGES_PER_BLOCK = 1
    MESSAGE_EXPIRY = 0
    BASE_MESSAGE_FEE = 1
    Fees = {0, 1}
    MaxMessages = 2
    NoAccount = NoAccount
    EVIDENCE_WINDOW = 0
    DELIBERATION_PERIOD = 0
    MAX_DISPUTE_DURATION = 0
    MIN_JURY_SIZE = 1
    MAX_EVIDENCE_COUNT = 2
    MAX_ARBITRATIONS_PER_YEAR = 1
    MaxDisputes = 2
    EMERGENCY_APPROVAL_THRESHOLD = 75
    EMERGENCY_MAX_DURATION = 1
    EMERGENCY_COOLDOWN = 1
    MIN_SIGNALS_FOR_EMERGENCY = 2
    MIN_SEVERITY_FOR_EMERGENCY = 15
    SIGNAL_WINDOW = 1
    SIGNAL_RETENTION = 2
    DEFAULT_BREAKER_DURATION = 1
    MAX_ACTIVE_BREAKERS = 6
    CHECKPOINT_INTERVAL = 1
    MAX_CHECKPOINTS = 2
    MAX_PHASES = 2
    EmergencyPowers = {1, 3}
    Signals <- MCSignals
    Actions <- MCActions
    Required = {1, 2}
    Chain = {c1, c2}
    HostChain = {c1, c2}
    Sidechain = {s1, s2, s3}
    ForkName = {f1}
    ForkTypes = {"Technical", "Social"}
    LONG_PREPARATION = 1
    MEDIUM_PREPARATION = 1
    SHORT_PREPARATION = 0
    DAY = 1
    FORK_PROPOSAL_DEPOSIT = 1
    SIDECHAIN_ALIGNMENT_DEADLINE = 1
    MAX_CONCURRENT_FORKS = 1
    FORK_COOLDOWN = 1
    FORK_VALIDATOR_THRESHOLD_PERCENT = 33
    FORK_STAKE_THRESHOLD_PERCENT = 40
    FORK_SIDECHAIN_THRESHOLD = 3
    OSSIFICATION_APPROVAL_THRESHOLD = 90
    OSSIFICATION_BLOCKS = 2
    ForkPowers = {0, 1}
    Stakes = {0, 1}
    ParameterMin <- MCMin
    ParameterMax <- MCMax
    ParameterDefault <- MCDefault
    FEE_VALIDATOR_RATE = 50
    PROTOCOL_UPGRADE_THRESHOLD = 75
    BREAKING_THRESHOLD = 80
    CHAIN_ADOPTION_THRESHOLD = 66
    PROTOCOL_UPGRADE_TIMELOCK = 1
    SIGNALING_PERIOD = 1
    MAX_BATCH_SIZE = 2
    Changes <- MCChanges
    Versions = {0, 1}
    MetaPowers = {1}
    ValidatorCounts = {1}
    Deposits = {1}
    MaxUpgrades = 1
    DEFAULT_IDENTITY_EXPIRY = 1
    ATTESTATION_EXPIRY = 1
    MAX_ATTESTATIONS = 1
    REPUTATION_DECAY_INTERVAL = 1
    REPUTATION_DECAY_PERCENT = 5
    MAX_REPUTATION = 10
    REPUTATION_POINTS_GOVERNANCE = 5
    REPUTATION_POINTS_ARBITRATION = 10
    REPUTATION_POINTS_ATTESTATION = 3
    MinAttestations = {0, 1}
    Penalties = {50}
    Identified = {p1, p2, p3}
    CHALLENGE_PERIOD = 1
    MIN_CHALLENGE_INTERVAL = 1
    CHALLENGE_DEPOSIT = 1
    MAX_CHALLENGES_PER_IDENTITY = 2
    MIN_WITNESSES = 2
    MIN_CLUSTER = 3
    YEAR = 10
    Cooldowns = {0, 1}
    ChallengeDeposits = {1}
    ActionCounts = {5, 30}
    Ages = {5, 20}
    Member = {a1, a2}
    Origin = {o1}
    Domains = {"Governance"}
    MAX_DOMAIN_SCORE = 10000
    REPUTATION_STAKE_LOCK = 1
    MIN_REPUTATION_STAKE = 100
    MAX_STAKE_MULTIPLIER = 200
    DOMAIN_DECAY_RATE = 2
    DECAY_INTERVAL = 1
    CROSS_CHAIN_DISCOUNT = 50
    MAX_ENDORSEMENTS_PER_DOMAIN = 1
    MIN_REP_TO_ENDORSE = 100
    MAX_STAKES_PER_IDENTITY = 2
    Points = {400}
    StakeAmounts = {50, 100}
    PenaltyPercents = {50}
    OriginalScores = {400}
    Threats = {"ForkSpam", "VoterApathy"}
    HealthStates <- MCHealth
    MAX_THREAT_HISTORY = 1
    MAX_STAKE_HISTORY = 2
    CAPTURE_ALERT_PERCENT = 25
    REVIEW_PERIOD_BLOCKS = 1
    Shares = {0, 50}
    DisputeId = {d1, d2}
    DEFAULT_ROLE_DURATION = 1
    ROLE_APPLICATION_STAKE = 1
    MaxPayment <- MCMaxPayment
    ContributorRoles = {"BugHunter"}
    RoleStakes = {0, 1}
    Payments = {1, 3}
SYMMETRY Symmetry
CONSTRAINTS BoundBlocks OneDispute OneRoot SomeRecords BoundEmergency BoundFork BoundMeta BoundIdentity BoundPersonhood BoundReputation BoundSecurity BoundRoles
CHECK_DEADLOCK FALSE
INVARIANT RecordsAgree
INVARIANT JuryIsImpartial
 
 
INVARIANT AlarmsAreMeasured
