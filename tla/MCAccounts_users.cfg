\* Three requests on one row, on one address or username, on the referrals of
\* one referrer or on the privileges of one role.
SPECIFICATION Spec
CONSTANTS
    Users = {"ann", "bob", "cid", "dan"}
    Names = {"n1", "n2"}
    r1 = r1
    r2 = r2
    r3 = r3
    Requests = {r1, r2, r3}
    Permissions = {"p1", "p2"}
    Casts <- AllCasts
    MaxRestarts = 1
    Undefined = Undefined
    Nothing = Nothing
CHECK_DEADLOCK FALSE
INVARIANTS
    ColumnsStand
    ReferralsMatchRegistrations
    PermissionsStand
