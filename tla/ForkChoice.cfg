SPECIFICATION Spec
CONSTANTS
    Addr = {1, 2, 3}
    GenesisStakes <- TreeStakes
    Epoch = 1
    Ops <- TreeOps
    Stamps = {0}
    Seed <- TreeSeed
    Rank <- TreeRank
    Checkpoints <- TreeCheckpoints
    MaxHeight = 4
    MaxBlocks = 7
INVARIANTS
    TypeOK
    HeadIsHeaviest
    CanonicalIsReplay
    FrontierCoversBranches
    NeverRaised
    CheckpointHolds
PROPERTY
    ImplementsLedger
CHECK_DEADLOCK FALSE
