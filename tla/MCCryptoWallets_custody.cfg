\* Two users sign up and ask for addresses, one payment, repeated and
\* overtaking notifications, failures and a restart.
SPECIFICATION Spec
CONSTANTS
    Users = {"ann", "bob"}
    r1 = r1
    r2 = r2
    v1 = v1
    v2 = v2
    Requests = {r1, r2}
    SignUps = {v1, v2}
    Worker = worker
    Outside = {o1}
    Deliveries = {d1, d2}
    Limit = 2
    MaxWallets = 4
    MaxRestarts = 1
    Casts <- SignUpsOrPayments
    Nothing = Nothing
CHECK_DEADLOCK FALSE
INVARIANTS
    SecondByOverlap
    WalletsAccounted
    RowsTellPayments
PROPERTIES
    AnsweredIsRecorded
    SignUpGetsAccount
