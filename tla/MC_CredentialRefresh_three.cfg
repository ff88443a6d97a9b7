SPECIFICATION Spec
CONSTANTS
    c1 = c1
    c2 = c2
    r1 = r1
    v1 = v1
    Callers <- MC_Callers
    Rotations = {r1}
    Revokers = {v1}
    Granted = granted
    None = none
    MaxBegun = 3
    MaxFaults = 1
INVARIANTS TypeOK NothingResurrected FlightsAreCleared
PROPERTIES RedeemedOnce EveryCallerEnds
CHECK_DEADLOCK FALSE
