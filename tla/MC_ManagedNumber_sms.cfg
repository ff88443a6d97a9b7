SPECIFICATION Spec
CONSTANTS
    w1 = w1
    w2 = w2
    Workers = {w1, w2}
    Transport = "sms"
    MaxFaults = 2
    MaxDenials = 1
INVARIANTS
    TypeOK
    NothingBoughtTwice
    CallsAreJournaled
PROPERTIES
    ReceiptsAreKept
    CancellationSticks
SYMMETRY SwapWorkers
CHECK_DEADLOCK FALSE
