\* The expiry job revokes an account that renews while Emby answers.
CONSTANTS
    u1 = u1
    u2 = u2
    c1 = c1
    c2 = c2
    r1 = r1
    r2 = r2
    None = None
    Users = {u1}
    Codes = {c1}
    Requests = {r1}
    Grace = 1
    Retain = 1
    Duration = 1
    MaxFailures = 2
    MaxTime = 2
    MaxCalls = 1
    MaxInFlight = 2
    Ops <- RenewOps
SPECIFICATION Spec
PROPERTIES PlaybackTakenOnlyWhenExpired
CHECK_DEADLOCK FALSE
