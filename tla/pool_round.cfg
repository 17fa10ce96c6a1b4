SPECIFICATION FairSpec
CONSTANTS
    Miners = {m1, m2}
    Leavers = {m1}
    MaxThreads = 1
    MaxRounds = 2
    MaxShares = 0
    MaxNonce = 7
    Interruptible = TRUE
INVARIANT
    NoWakeupIsLost
PROPERTIES
    NonceOfAllIsSubmitted
    InterruptIsNoticed
CONSTRAINT Running
CHECK_DEADLOCK FALSE
