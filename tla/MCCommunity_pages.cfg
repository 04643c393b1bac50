\* Followers told of a trade, the list of trades read page by page while they
\* change, and the figures of the trader's pages.
SPECIFICATION Spec
CONSTANTS
    r1 = r1
    r2 = r2
    r3 = r3
    p1 = p1
    p2 = p2
    p3 = p3
    Requests = {r1, r2, r3}
    Posted = {p1, p2, p3}
    People = {"ann", "bob"}
    BatchSize = 1
    PageSize = 1
    MaxClock = 7
    MaxRestarts = 1
    Casts <- Communities
    Nothing = Nothing
CHECK_DEADLOCK FALSE
INVARIANTS
    SecondFollowByOverlap
    NoticeIsExact
    ListMissesOnlyForLeavers
    CurvesAgree
    FallIsLargest
    PagesAgree
PROPERTIES
    NoticesEnd
