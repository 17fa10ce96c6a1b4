SPECIFICATION Spec
CONSTANTS
    MiningPools = {p1, p2}
    Crashers = {p1, "mempool"}
    MaxBlocks = 4
    MaxAccepted = 4
INVARIANTS
    TypeOK
    LinkedUnlessSiblings
    HeaderFollowsTip
    ValidatedIsKept
    NoBlockTwice
    VerdictsArePaidFor
PROPERTY
    ImplementsBlockchain
CHECK_DEADLOCK FALSE
