SPECIFICATION NodeSpec
CONSTANTS
    Addr = {1, 2, 3}
    GenesisStakes <- TreeStakes
    Epoch = 1
    Ops <- NodeOps
    Stamps = {0}
    Seed <- TreeSeed
    Rank <- TreeRank
    Checkpoints <- NoCheckpoints
    MaxHeight = 3
    MaxBlocks = 4
    Me = 1
    Threads = {t1, t2}
    t1 = t1
    t2 = t2
    TornWrites = TRUE
    WritesFail = TRUE
    MaxCrashes = 1
    NoWrite = NoWrite
    Garbage = Garbage
SYMMETRY AlikeThreads
INVARIANTS
    AckedSurvive
    FinalitySurvivesRestart
    StoreReplays
    TwinsNeedRaceOrLoss
CHECK_DEADLOCK FALSE
