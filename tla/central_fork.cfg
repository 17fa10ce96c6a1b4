SPECIFICATION Spec
CONSTANTS
    MiningPools = {p1, p2}
    Crashers = {}
    MaxBlocks = 5
    MaxAccepted = 2
INVARIANT
    AcceptedBlocksAreAdded
CHECK_DEADLOCK FALSE
