SPECIFICATION Spec
CONSTANTS
    Streams = {s1}
    Keys = {k1, k2, k3, k4, k5}
    NoKey = NoKey
    MaxSeq = 7
    GcLag = 1
    MaxReorderHorizon = 3
SYMMETRY KeySymmetry
INVARIANTS
    GateInv
    AtMostOnce
    PrefixCommitted
    IndexBounded
