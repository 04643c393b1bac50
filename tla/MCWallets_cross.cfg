\* Three requests among opposite transfers, retries and competing debits,
\* under the fairness of the database.
SPECIFICATION FairSpec
CONSTANTS
    Requests = {r1, r2, r3}
    Users <- Trio
    Registered <- Pair
    Currencies <- OnlyNaira
    Unsupported = {"USDC"}
    RateTables <- NairaTable
    Amounts <- SignedAmounts
    Keys = {"k1", "k2", "k3"}
    NoKey = "none"
    StatusChanges = {"Active", "Blocked"}
    Calls <- CrossCalls
    Opening <- Funded
    Unwritten = Unwritten
    Nobody = Nobody
    NoCall = NoCall
INVARIANTS
    TypeOK
    HistoryExplainsBalances
    OncePerKey
    TransactionsIsolated
PROPERTIES
    NoDebitWhileBlocked
    EveryRequestAnswered
