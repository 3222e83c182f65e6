SPECIFICATION Spec
CONSTANTS
    a1 = a1
    a2 = a2
    Account = {a1, a2}
    Chain = {c1}
    SUPERMAJORITY_THRESHOLD = 66
    STANDARD_THRESHOLD = 51
    MIN_QUORUM_PERCENT = 30
    EXIT_TIMELOCK = 1
    STANDARD_TIMELOCK = 0
    VOTING_PERIOD = 0
    GRACE_PERIOD = 1
    Powers <- MCPowers
    MaxProposals = 2
    INACTIVITY_THRESHOLD = 1
    PURGE_CHECK_INTERVAL = 1
    PURGE_WARNING_PERIOD = 1
    WITHDRAWAL_WINDOW_DURATION = 1
    GOVERNANCE_FAILURE_THRESHOLD = 1
    VALIDATOR_FRAUD_THRESHOLD_PERCENT = 33
    FRAUD_PROOF_VALIDITY_PERIOD = 1
    BASE_DEPOSIT = 1
    SOVEREIGN_DEPOSIT = 2
    MAX_MEMBERS_PER_HOST = 1
    MAX_VALIDATORS_PER_CHAIN = 2
    MAX_VALIDATORS_PER_HOST = 2
    Deposits = {2}
    MaxChains = 3
    MaxCount = 1
    MIN_VALIDATOR_STAKE = 2
    MAX_EARLY_VALIDATORS = 21
    BOOTSTRAP_ERA_BLOCKS = 9
    CANDIDACY_EXPIRATION = 9
    UNBONDING_PERIOD = 1
    Stakes = {1, 2, 3}
    Amounts = {1, 2}
    MaxOwed = 3
    MaxBlock = 2
CONSTRAINT OneVote
CONSTRAINT OneTouched
CHECK_DEADLOCK FALSE
INVARIANT OneExitPerChain
 
INVARIANT StakeAccounted
 
PROPERTY PeriodsPass
