\* Posted, copied and cancelled under the feed: every trade keeps its end.
SPECIFICATION Spec
CONSTANTS
    Requests = {r1, r2}
    Seeds = {"s1", "s2"}
    Rows = {r1, r2, "s1", "s2"}
    Users = {"pro", "ann", "bob", "cid"}
    Assets = {"btc"}
    Prices = {100, 200, 300}
    Ticks = {200, 300}
    WeeklyLimit = 5
    MaxChecks = 1
    Faults = {"request"}
    Calls <- PostCalls
    Opening <- PendingAndCopied
    NoRow = NoRow
    Nobody = Nobody
    NoCall = NoCall
    NoTerms = NoTerms
    NoEntry = NoEntry
SYMMETRY Symmetric
CHECK_DEADLOCK FALSE
INVARIANTS
    TypeOK
    EndingAhead
