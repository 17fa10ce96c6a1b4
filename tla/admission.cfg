SPECIFICATION FairSpec
CONSTANTS
    Pools = {p1, p2}
    Wallets = {w1}
    Miners = {m1, m2}
    Home = p1
    Fickle = {w1, m1}
    MaxThreads = 2
    None = none
INVARIANTS
    TypeOK
    ThreadsServeNoneEarlier
    NoPlaceIsLost
PROPERTY
    ClientsAreServed
CHECK_DEADLOCK FALSE
