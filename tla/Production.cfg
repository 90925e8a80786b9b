SPECIFICATION ProducerSpec
CONSTANTS
    alice = alice
    bob = bob
    carol = carol
    Addr <- People
    Treasury = carol
    Alloc <- MarketAlloc
    InitStake <- MarketStake
    Grants <- NoGrants
    UnbondingBlocks = 1
    Epoch = 1
    ReporterBps = 5000
    Transfers <- PoolTransfers
    StakeTxs <- PoolStakes
    UnstakeTxs <- PoolUnstakes
    SlashTxs <- PoolSlashes
    VoteTxs <- PoolVotes
    MaxHeight = 2
    MaxTxs = 6
    MAX_POOL_SIZE = 2
    MAX_TXS_PER_BLOCK = 2
    Me = alice
    Handlers = 2
    Retries = FALSE
    PoolTxs <- MarketTxs
INVARIANTS
    SelectionFeeOrdered
    
    SelectionAffordable
PROPERTIES
    PoolKeepsHighestFees
    OwnTurnProduces
CHECK_DEADLOCK FALSE
