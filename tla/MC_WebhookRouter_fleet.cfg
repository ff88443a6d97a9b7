SPECIFICATION Spec
CONSTANTS
    r1 = r1
    r2 = r2
    k1 = k1
    k2 = k2
    NoOne = NoOne
    Procs = {p1, p2}
    Requests = {r1, r2}
    Keys = {k1, k2}
    Batch <- Overlapping
    MaxFaults = 2
    MaxStalls = 1
INVARIANTS
    TypeOK
    AckMeansDelivered
    NoClaimStranded
    DeliversOnlyWhatItHolds
PROPERTY EveryDeliveryAcknowledged
