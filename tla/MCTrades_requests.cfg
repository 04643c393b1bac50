\* Three requests on a trade: copied, edited, published, cancelled, removed.
SPECIFICATION Spec
CONSTANTS
    Requests = {r1, r2, r3}
    Seeds = {"s1", "s2"}
    Rows = {r1, r2, r3, "s1", "s2"}
    Users = {"pro", "ann", "bob", "cid"}
    Assets = {"btc"}
    Prices = {100, 200, 300}
    Ticks = {}
    WeeklyLimit = 5
    MaxChecks = 1
    Faults = {"request", "update", "restart"}
    Calls <- RequestCalls
    Opening <- TradeTables
    NoRow = NoRow
    Nobody = Nobody
    NoCall = NoCall
    NoTerms = NoTerms
    NoEntry = NoEntry
SYMMETRY Symmetric
CHECK_DEADLOCK FALSE
INVARIANTS
    OneRowPerUser
PROPERTIES
    CopiesLiveTrade
    SettledStaysSettled
    EditFoundItUncopied
