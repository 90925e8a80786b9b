SPECIFICATION NodeSpec
CONSTANTS
    Addr = {1, 2, 3}
    GenesisStakes <- TreeStakes
    Epoch = 1
    Ops <- NodeOps
    Stamps = {0}
    Seed <- TreeSeed
    Rank <- TreeRank
    Checkpoints <- NoCheckpoints
    MaxHeight = 3
    MaxBlocks = 4
    Me = 1
    Threads = {t1}
    t1 = t1
    t2 = t2
    TornWrites = TRUE
    WritesFail = FALSE
    MaxCrashes = 2
    NoWrite = NoWrite
    Garbage = Garbage
INVARIANT
    NeverRefused
CHECK_DEADLOCK FALSE
