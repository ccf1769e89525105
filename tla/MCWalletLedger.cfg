CONSTANTS
    w1 = w1
    w2 = w2
    o1 = o1
    o2 = o2
    d1 = d1
    d2 = d2
    a1 = a1
    a2 = a2
    Wallets = {w1, w2}
    Orders = {o1, o2}
    Deposits = {d1, d2}
    Adjustments = {a1, a2}
    WalletOf <- MCWalletOf
    Amount <- MCAmount
    MaxAttempt = 2
SPECIFICATION WalletSpec
CHECK_DEADLOCK FALSE
INVARIANTS
    WalletTypeOK
    LedgerBacksBalance
    OneOutstandingCharge
    ConfirmedIffCredited
    TotalSpentIsOutstanding
    MoneyIsConserved
