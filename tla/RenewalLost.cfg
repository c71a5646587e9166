\* One account redeems two codes at a time.
CONSTANTS
    u1 = u1
    u2 = u2
    c1 = c1
    c2 = c2
    r1 = r1
    r2 = r2
    None = None
    Users = {u1}
    Codes = {c1, c2}
    Requests = {r1, r2}
    Grace = 1
    Retain = 1
    Duration = 1
    MaxFailures = 2
    MaxTime = 2
    MaxCalls = 1
    MaxInFlight = 2
    Ops <- RedeemOps
SPECIFICATION Spec
PROPERTIES RenewalKeepsTime
CHECK_DEADLOCK FALSE
