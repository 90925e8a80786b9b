SPECIFICATION AccountSpec
CONSTANTS
    v1 = v1
    v2 = v2
    v3 = v3
    left = left
    right = right
    Validators = {v1, v2, v3}
    GenesisStake <- Stakes
    Branches = {left, right}
    Rogues = {v3}
    Movers = {v3}
    MaxHeight <- Lengths
    MaxVotes <- VoteBlocks
    MaxFaults = 1
SYMMETRY Alike
INVARIANTS
    AccountableSafety
    InnocentNeverSlashed
CHECK_DEADLOCK FALSE
