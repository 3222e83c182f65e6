SPECIFICATION MCSpec
CONSTANTS
    a1 = a1
    a2 = a2
    Account = {a1, a2}
    Treasury = Treasury
    base_fee <- MCFees
    BlockReward = 7
    UNBONDING_PERIOD = 1
    InitialBalance = 80
    max_size = 2
    max_per_account = 2
    rbf_min_increase_pct = 10
    min_fee = 1
    Transactions <- MCTransactions
    max_transactions_per_block = 2
    MaxPushes = 3
    MaxGossip = 1
    Author = {a2}
    MaxBlocks = 2
    rate_limit_per_account = 2
    rate_limit_window = 1
    tx_expiration = 1
    max_nonce_gap = 1
    max_total_pending = 1
    ApiTransactions <- MCApiTransactions
    MaxInstant = 2
    MaxAdded = 3
    MaxExecuted = 1
CONSTRAINT GossipFirst
CONSTRAINT IrregularIsShort
CHECK_DEADLOCK FALSE
INVARIANT SupplyConserved
INVARIANT IncludedOnce
INVARIANT PoolsAreIndexed
INVARIANT SelectionIsReady
PROPERTY UnbondingWaits
