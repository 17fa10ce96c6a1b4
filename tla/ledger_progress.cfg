SPECIFICATION FairLedgerSpec
CONSTANTS
    MiningPools = {p1, p2}
    Crashers = {}
    MaxBlocks = 4
    MaxAccepted = 2
    Transactions = {t1}
    Coinbase = coinbase
    MaxTransactions = 1
    MaxPayments = 2
PROPERTIES
    VerdictArrives
    
CHECK_DEADLOCK FALSE
