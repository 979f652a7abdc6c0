SPECIFICATION Spec
CONSTANTS
    Streams = {s1}
    k0 = k0
    k1 = k1
    k2 = k2
    k3 = k3
    Keys = {k0, k1, k2, k3}
    NoKey = NoKey
    NoRecord = NoRecord
    Records <- OneKeyPerSeq
    MaxSeq = 3
    GcLag = 1
    MaxReorderHorizon = 4
    CompactEvery = 3
    MaxCrashes = 2
    MaxErrors = 1
    TornTails = FALSE
CHECK_DEADLOCK FALSE
INVARIANTS
    DurableGateInv
    
