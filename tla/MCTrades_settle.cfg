\* Under fairness every trade settles and every request is answered.
SPECIFICATION FairSpec
CONSTANTS
    Requests = {r1, r2}
    Seeds = {"s1", "s2"}
    Rows = {r1, r2, "s1", "s2"}
    Users = {"pro", "ann", "bob", "cid"}
    Assets = {"btc"}
    Prices = {100, 200, 300}
    Ticks = {300}
    WeeklyLimit = 5
    MaxChecks = 1
    Faults = {}
    Calls <- LiveCalls
    Opening <- PendingAndCopied
    NoRow = NoRow
    Nobody = Nobody
    NoCall = NoCall
    NoTerms = NoTerms
    NoEntry = NoEntry
CHECK_DEADLOCK FALSE
PROPERTIES
    TradesSettle
    EveryRequestAnswered
