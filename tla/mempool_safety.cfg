SPECIFICATION Spec
CONSTANTS
    Pools = {p1, p2}
    Crashers = {p2, "central"}
    Transactions = {t1, t2}
    Coinbase = coinbase
    MaxTransactions = 2
    MaxPayments = 2
    Interruptible = TRUE
INVARIANT
    TypeOK
PROPERTIES
    DeletesWhatTheBlockHolds
SYMMETRY Symmetry
VIEW Seen
CHECK_DEADLOCK FALSE
