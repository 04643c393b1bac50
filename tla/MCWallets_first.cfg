\* Credits of wallets that do not exist yet, with conversion and amounts of
\* either sign.
SPECIFICATION Spec
CONSTANTS
    Requests = {r1, r2, r3}
    Users <- Pair
    Registered <- Pair
    Currencies <- AllSymbols
    Unsupported = {"USDC"}
    RateTables <- TwoTablesUsdc
    Amounts <- SignedAmounts
    Keys = {"k1", "k2", "k3"}
    NoKey = "none"
    StatusChanges = {"Active", "Blocked"}
    Calls <- FirstCreditCalls
    Opening <- FirstCredit
    Unwritten = Unwritten
    Nobody = Nobody
    NoCall = NoCall
SYMMETRY Symmetric
INVARIANTS
    NeverOverdrawn
PROPERTIES
    RowsTellTheBalance
    ImplementsAtomicWallets
