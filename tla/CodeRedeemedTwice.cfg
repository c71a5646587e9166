\* Two requests redeem the same code.
CONSTANTS
    u1 = u1
    u2 = u2
    c1 = c1
    c2 = c2
    r1 = r1
    r2 = r2
    None = None
    Users = {u1, u2}
    Codes = {c1}
    Requests = {r1, r2}
    Grace = 1
    Retain = 1
    Duration = 1
    MaxFailures = 2
    MaxTime = 2
    MaxCalls = 1
    MaxInFlight = 2
    Ops <- RedeemOps
SPECIFICATION Spec
INVARIANTS OneCodeOneUse
CHECK_DEADLOCK FALSE
