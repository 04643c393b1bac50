\* After a start the first tick of one asset judges the trades of another.
SPECIFICATION Spec
CONSTANTS
    Requests = {r1}
    Seeds = {"s1", "s2"}
    Rows = {r1, "s1", "s2"}
    Users = {"pro", "ann", "bob", "cid"}
    Assets = {"btc", "eth"}
    Prices = {100, 200, 300}
    Ticks = {200}
    WeeklyLimit = 5
    MaxChecks = 1
    Faults = {}
    Calls <- PostSell
    Opening <- OneEther
    NoRow = NoRow
    Nobody = Nobody
    NoCall = NoCall
    NoTerms = NoTerms
    NoEntry = NoEntry
CHECK_DEADLOCK FALSE
PROPERTIES
    ClosesOnlyOnHit
