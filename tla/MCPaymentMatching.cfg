SPECIFICATION MatchingSpec
CONSTANTS
    LastRow = 2
    Deposits = {2}
    LastTransfer = 2
    Wallets <- MCWallets
    Amounts <- MCAmounts
    Base = "29"
    UniqueOrders = TRUE
    MinConfirmations = 2
    Solid = 2
    Repeated = 0
    First = 0
    Chunk = 2
    MaxHeight = 3
    MaxRare = 1
INVARIANTS
    MatchingTypeOK
    AccountedFor
    LedToItsRow
    NothingMissed
PROPERTIES
    SettledOnce
CHECK_DEADLOCK FALSE
