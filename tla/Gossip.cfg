SPECIFICATION GossipSpec
CONSTANTS
    n1 = n1
    n2 = n2
    n3 = n3
    Nodes = {n1, n2, n3}
    Elected <- ElectedInTurn
    Seeds <- Line
    Dialable = {n1, n2}
    MAX_PEERS = 2
    MAX_ORPHANS = 2
    SEEN_CAP = 5
    MAX_SYNC_BATCH = 2
    MaxHeight = 3
    Twins <- FirstTwin
    MadeUp <- Junk
    MaxFaults = 1
INVARIANTS
    IgnoredIsKept
    OrphansMissParent
PROPERTY
    Converges
CHECK_DEADLOCK FALSE
