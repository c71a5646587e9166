\* One account, one bill code, a chat administrator who deletes unused codes.
CONSTANTS
    u1 = u1
    u2 = u2
    c1 = c1
    c2 = c2
    c3 = c3
    b1 = b1
    b2 = b2
    r1 = r1
    r2 = r2
    a1 = a1
    None = None
    Gone = Gone
    Users = {u1}
    Codes = {c1, c2}
    Bills = {b1}
    Requests = {r1}
    Admins = {a1}
    DailyLimit = 3
    MaxFailures = 2
    MaxDay = 0
    MaxCalls = 2
    BillDay <- FirstDay
    Ops <- ChatOps
SPECIFICATION Spec
INVARIANT BillIssuedOnce
CHECK_DEADLOCK FALSE
