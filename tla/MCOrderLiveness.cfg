CONSTANTS
    w1 = w1
    o1 = o1
    d1 = d1
    Wallets = {w1}
    Orders = {o1}
    Deposits = {d1}
    Adjustments = {}
    WalletOf <- MCWalletOf
    Amount <- MCAmount
    MaxAttempt = 2
    Workers = {k1}
    Admins = {adm}
    MaxRetries = 1
    MaxRefs = 1
    MaxAdmin = 1
    MaxCrashes = 1
    Broadcasting = FALSE
CHECK_DEADLOCK FALSE
SPECIFICATION FairOrderSpec
PROPERTY
    ProcessingIsTransient
CONSTRAINT MCDepositsMatter
