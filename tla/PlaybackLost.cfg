\* One device that plays one item after another; nothing fails.
CONSTANTS
    u1 = u1
    u2 = u2
    s1 = s1
    s2 = s2
    i1 = i1
    i2 = i2
    v1 = v1
    v2 = v2
    None = None
    Servers = {v1}
    Users = {u1}
    Sessions = {s1}
    Items = {i1, i2}
    Home <- OneHome
    Viewer <- OwnSession
    Ops <- PlayOps
    MaxSeconds = 2
    MaxCalls = 4
SPECIFICATION Spec
INVARIANT EndedSessionRecorded
CHECK_DEADLOCK FALSE
