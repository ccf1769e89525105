CONSTANTS
    w1 = w1
    o1 = o1
    d1 = d1
    Wallets = {w1}
    Orders = {o1}
    Deposits = {d1}
    Adjustments = {}
    WalletOf <- MCWalletOf
    Amount <- MCAmount
    MaxAttempt = 2
    Workers = {k1, k2}
    Admins = {adm}
    MaxRetries = 0
    MaxRefs = 1
    MaxAdmin = 1
    MaxCrashes = 1
    Broadcasting = TRUE
CHECK_DEADLOCK FALSE
SPECIFICATION OrderSpec
SYMMETRY MCSymmetry
INVARIANTS
    OrderTypeOK
    RefundedMeansReturned
    NothingBoughtUnpaid
CONSTRAINT MCDepositsMatter
PROPERTIES
    WalletSpec
    OnlyStaleReadsLeaveTheTable
