\* One handler at a time: an administrator dates a claimed account and makes it permanent again.
CONSTANTS
    u1 = u1
    u2 = u2
    c1 = c1
    c2 = c2
    r1 = r1
    r2 = r2
    None = None
    Users = {u1}
    Codes = {c1}
    Requests = {r1}
    Grace = 1
    Retain = 1
    Duration = 1
    MaxFailures = 2
    MaxTime = 1
    MaxCalls = 4
    MaxInFlight = 1
    Ops <- DatedOps
SPECIFICATION Spec
PROPERTIES UndatedNeverPurged
CHECK_DEADLOCK FALSE
