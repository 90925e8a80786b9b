SPECIFICATION Spec
CONSTANTS
    alice = alice
    bob = bob
    carol = carol
    Addr <- People
    Treasury = carol
    Alloc <- EconomicsAlloc
    InitStake <- EconomicsStake
    Grants <- EconomicsGrants
    UnbondingBlocks = 2
    Epoch = 1
    ReporterBps = 5000
    Transfers <- EconomicsTransfers
    StakeTxs <- EconomicsStakeTxs
    UnstakeTxs <- EconomicsUnstakeTxs
    SlashTxs <- EconomicsSlashTxs
    VoteTxs <- EconomicsVoteTxs
    MaxHeight = 4
    MaxTxs = 3
INVARIANTS
    TypeOK
    SupplyConserved
    ProposerExists
    AppliedOnce
    VestingRetained
    BondedCoversSnapshot
PROPERTY
    OnlyOwnerSpends
CHECK_DEADLOCK FALSE
