SPECIFICATION AutoSpec
CONSTANTS
    Addr = {1, 2, 3}
    GenesisStakes <- EqualStakes
    Epoch = 1
    Ops <- VoterOps
    Stamps = {0}
    Seed <- TreeSeed
    Rank <- TreeRank
    Checkpoints <- NoCheckpoints
    MaxHeight = 4
    MaxBlocks = 5
    Voter = 1
    MaxRestarts = 1
INVARIANTS
    SurroundNeedsReorg
    VotesJoinBranch
CHECK_DEADLOCK FALSE
