SPECIFICATION WalletsSpec
CONSTANTS
    MiningPools = {p1, p2}
    Crashers = {}
    MaxBlocks = 5
    MaxAccepted = 3
    Transactions <- Payments
    Coinbase <- Reward
    MaxTransactions = 2
    MaxPayments = 1
    Wallet = {w1}
    Accounts = {"pool"}
    Dying = {w1}
INVARIANT
    PaymentsAreConserved
PROPERTY
    NoCoinsTwice
SYMMETRY Symmetry
VIEW Seen
CHECK_DEADLOCK FALSE
