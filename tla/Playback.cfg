\* Two accounts on two servers, one session each, and everything that races with a poll.
CONSTANTS
    u1 = u1
    u2 = u2
    s1 = s1
    s2 = s2
    i1 = i1
    i2 = i2
    v1 = v1
    v2 = v2
    None = None
    Servers = {v1, v2}
    Users = {u1, u2}
    Sessions = {s1, s2}
    Items = {i1, i2}
    Home <- OwnHomes
    Viewer <- OwnSession
    Ops <- AllOps
    MaxSeconds = 2
    MaxCalls = 3
SPECIFICATION FairSpec
INVARIANTS TypeOK NoTraceOfDeleted SecondsCountedOnce
PROPERTY DashboardFollows
CHECK_DEADLOCK FALSE
