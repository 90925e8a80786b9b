SPECIFICATION Spec
CONSTANTS
    alice = alice
    bob = bob
    carol = carol
    Addr <- People
    Treasury = carol
    Alloc <- FinalityAlloc
    InitStake <- FinalityStake
    Grants <- NoGrants
    UnbondingBlocks = 2
    Epoch = 1
    ReporterBps = 5000
    Transfers = {}
    StakeTxs <- FinalityStakeTxs
    UnstakeTxs <- FinalityUnstakeTxs
    SlashTxs <- FinalitySlashTxs
    VoteTxs <- FinalityVoteTxs
    MaxHeight = 4
    MaxTxs = 5
INVARIANTS
    JustifiedByQuorum
    FinalizedByDirectLink
PROPERTY
    FinalityGrows
CHECK_DEADLOCK FALSE
