\* Three requests of two players, some of which fail, and restarts.
SPECIFICATION Spec
CONSTANTS
    Requests = {r1, r2, r3}
    Users <- Pair
    Currencies <- OnlyStp
    RateTables <- OneTable
    Amounts <- Earnings
    Keys <- LevelKeys
    NoKey = NoKey
    NoCall = NoCall
    Scores = {60, 80}
    BadgePhases = {"Phase 1", "Phase 2"}
    Calls <- PlayCalls
    OpeningAccounts <- AnnHasWallet
    Faults = {"request", "restart"}
SYMMETRY Symmetric
CHECK_DEADLOCK FALSE
INVARIANTS
    TypeOK
    RewardsExplainBalances
    RewardAhead
    BadgeAfterCompletion
