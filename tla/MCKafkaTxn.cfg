SPECIFICATION MCSpec
CONSTANTS
    t1 = t1
    t2 = t2
    a1 = a1
    a2 = a2
    b1 = b1
    NoTid = NoTid
    Tids = {t1, t2}
    Partitions = {p1, p2}
    Offsets <- MCOffsets
    MaxEpoch = 1
    MaxPid = 2
    MaxStaged = 2
    Producers <- TwoInstances
    Owner <- OwnerOf
    MaxTxns = 1
    MaxConns = 2
    MaxErrors = 2
    MaxCrashes = 1
SYMMETRY PartitionSymmetry
CHECK_DEADLOCK FALSE
INVARIANTS
    ClaimsExact
    
    AloneConfirmedAtomic

    
