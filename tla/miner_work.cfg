SPECIFICATION FairSpec
CONSTANTS
    Size = 2
    Nonces = 3
    hashes = 2
    MP_diff = 3
    diff = 10
    Outcomes <- MCOutcomes
INVARIANTS
    TypeOK
    NoBlockIsMissed
    SharesAreReported
PROPERTIES
    EachShareOnce
    PoolIsAsked
CHECK_DEADLOCK FALSE
