SPECIFICATION DeploySpec
CONSTANTS
    pass = pass
    other = other
    Nodes = 3
    Arguments <- LaunchArguments
    MaxRuns = 3
    Absent = Absent
    Partial = Partial
    key = key
    rotated = rotated
    EPOCH = 4
    Blocks = {1, 3, 6}
    Secrets = {key, rotated}
    MaxJobs = 6
    MaxHeight = 14
    NoVote = NoVote
    NoChain = NoChain
INVARIANTS
    OneGenesis
    GenesisBoots
    KeystoresOpenGenesis
    OneProcessPerStore
    FinalityKeepsUp
PROPERTY
    PublishedOnlyGrows
CHECK_DEADLOCK FALSE
