SPECIFICATION Spec
CONSTANTS
    Miners = {m1, m2, m3}
    Leavers = {m1, m2, m3}
    MaxThreads = 10
    MaxRounds = 2
    MaxShares = 0
    MaxNonce = 7
    Interruptible = FALSE
INVARIANT
    SubmittedIsMined
SYMMETRY Symmetry
CONSTRAINT Running
CHECK_DEADLOCK FALSE
