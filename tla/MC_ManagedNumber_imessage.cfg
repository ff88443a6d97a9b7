SPECIFICATION Spec
CONSTANTS
    w1 = w1
    w2 = w2
    Workers = {w1, w2}
    Transport = "imessage"
    MaxFaults = 1
    MaxDenials = 1
PROPERTIES
    EveryOrderSettles
CHECK_DEADLOCK FALSE
