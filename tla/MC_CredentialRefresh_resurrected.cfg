SPECIFICATION Spec
CONSTANTS
    c1 = c1
    c2 = c2
    r1 = r1
    v1 = v1
    Callers <- MC_Callers
    Rotations = {r1}
    Revokers = {v1}
    Granted = granted
    None = none
    MaxBegun = 4
    MaxFaults = 0
INVARIANT NothingResurrected
CHECK_DEADLOCK FALSE
