SPECIFICATION Spec
CONSTANTS
    Miners = {m1, m2, m3}
    Leavers = {}
    MaxThreads = 10
    MaxRounds = 2
    MaxShares = 1
    MaxNonce = 7
    Interruptible = FALSE
INVARIANTS
    TypeOK
    RoundBarrier
    NonceIsCurrent
    EveryMinerPaidOnce
    SharesAddUp
    PaymentsAreBacked
    RangesAreDisjoint
SYMMETRY Symmetry
CONSTRAINT Running
CHECK_DEADLOCK FALSE
