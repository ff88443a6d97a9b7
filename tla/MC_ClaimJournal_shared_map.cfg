SPECIFICATION Spec
CONSTANTS
    p1 = p1
    p2 = p2
    c1 = c1
    c2 = c2
    c3 = c3
    Procs = {p1}
    Callers = {c1, c2}
    Home <- Siblings
    Lease = 1
    Ttl = 1
    MaxDepth = 3
    LegacyStamps = {1}
    MaxTime = 2
    MaxCrashes = 0
INVARIANT CompleteIsRetained
