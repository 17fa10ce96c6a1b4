SPECIFICATION FairSpec
CONSTANTS
    Miners = {m1, m2}
    Leavers = {}
    MaxThreads = 10
    MaxRounds = 2
    MaxShares = 0
    MaxNonce = 7
    Interruptible = FALSE
PROPERTY
    NonceIsReported
CONSTRAINT Running
CHECK_DEADLOCK FALSE
