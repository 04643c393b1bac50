\* A copy reopens the closed rows of its trade.
SPECIFICATION Spec
CONSTANTS
    Requests = {r1, r2}
    Seeds = {"s1", "s2"}
    Rows = {r1, r2, "s1", "s2"}
    Users = {"pro", "ann", "bob", "cid"}
    Assets = {"btc"}
    Prices = {100, 200, 300}
    Ticks = {}
    WeeklyLimit = 5
    MaxChecks = 1
    Faults = {}
    Calls <- ReopenCalls
    Opening <- OpenAndCopied
    NoRow = NoRow
    Nobody = Nobody
    NoCall = NoCall
    NoTerms = NoTerms
    NoEntry = NoEntry
CHECK_DEADLOCK FALSE
PROPERTIES
    ClosedIsFinal
