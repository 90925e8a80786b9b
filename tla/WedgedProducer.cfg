SPECIFICATION ProducerSpec
CONSTANTS
    alice = alice
    bob = bob
    carol = carol
    Addr <- People
    Treasury = carol
    Alloc <- MarketAlloc
    InitStake <- SoleStake
    Grants <- NoGrants
    UnbondingBlocks = 1
    Epoch = 1
    ReporterBps = 5000
    Transfers <- PoolTransfers
    StakeTxs <- PoolStakes
    UnstakeTxs <- PoolUnstakes
    SlashTxs <- PoolSlashes
    VoteTxs <- PoolVotes
    MaxHeight = 2
    MaxTxs = 6
    MAX_POOL_SIZE = 2
    MAX_TXS_PER_BLOCK = 3
    Me = alice
    Handlers = 2
    Retries = TRUE
    PoolTxs <- PoisonTxs
PROPERTY
    ProductionContinues
CHECK_DEADLOCK FALSE
