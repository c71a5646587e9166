\* Two handlers suspended at a time.
CONSTANTS
    u1 = u1
    u2 = u2
    c1 = c1
    c2 = c2
    r1 = r1
    r2 = r2
    None = None
    Users = {u1}
    Codes = {c1}
    Requests = {r1}
    Grace = 1
    Retain = 0
    Duration = 1
    MaxFailures = 1
    MaxTime = 1
    MaxCalls = 2
    MaxInFlight = 2
    Ops <- AllOps
SPECIFICATION Spec
INVARIANTS TypeOK NoUnmanagedAccount PermanentAccountKept MutationExclusive
PROPERTIES LockReleasedByEnableOnly SpentForGood DateMovedByOrder StampedOnlyWhenExpired PurgedOnlyIfDue
CHECK_DEADLOCK FALSE
