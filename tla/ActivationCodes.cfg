\* Two overlapping requests, one administrator, a day that ends in between.
CONSTANTS
    u1 = u1
    u2 = u2
    c1 = c1
    c2 = c2
    c3 = c3
    b1 = b1
    b2 = b2
    r1 = r1
    r2 = r2
    a1 = a1
    None = None
    Gone = Gone
    Users = {u1, u2}
    Codes = {c1, c2}
    Bills = {b1, b2}
    Requests = {r1, r2}
    Admins = {a1}
    DailyLimit = 1
    MaxFailures = 2
    MaxDay = 1
    MaxCalls = 2
    BillDay <- FirstDay
    Ops <- AllOps
SYMMETRY Symmetry
SPECIFICATION Spec
INVARIANTS TypeOK LedgerMatchesCodes QuotaCoversCodes ReissuedOnlyAfterRemoval OwnerRedeems LockedAfterLimit
CHECK_DEADLOCK FALSE
