SPECIFICATION Spec
CONSTANTS
    Miners = {m1, m2}
    Leavers = {}
    MaxThreads = 10
    MaxRounds = 2
    MaxShares = 1
    MaxNonce = 7
    Interruptible = FALSE
INVARIANT
    MutualExclusion
CHECK_DEADLOCK FALSE

