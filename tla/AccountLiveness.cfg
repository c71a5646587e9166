\* Two handlers suspended at a time, under fairness.
CONSTANTS
    u1 = u1
    u2 = u2
    c1 = c1
    c2 = c2
    r1 = r1
    r2 = r2
    None = None
    Users = {u1}
    Codes = {c1}
    Requests = {r1}
    Grace = 1
    Retain = 1
    Duration = 1
    MaxFailures = 1
    MaxTime = 1
    MaxCalls = 2
    MaxInFlight = 2
    Ops <- LiveOps
SPECIFICATION FairSpec
PROPERTIES ExpiredEventuallyBlocked LockEventuallyEnforced InactiveEventuallyPurged
CHECK_DEADLOCK FALSE
