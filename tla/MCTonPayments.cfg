SPECIFICATION TonSpec
CONSTANTS
    o1 = o1
    o2 = o2
    Orders <- MCOrders
    HotWallets <- MCHotWallets
    Schemas <- MCSchemas
    Amounts <- MCAmounts
    GlobalLimit = 2
    WalletLimit = 2
    MaxCalls = 2
    MaxRare = 1
SYMMETRY MCSymmetry
INVARIANTS
    TonTypeOK
    PaidOnce
    NodeWithinLimit
    BooksAreTrue
    LimitsHold
