SPECIFICATION LinkSpec
CONSTANTS
    MaxCofres = 3
    FlushFrames = 2
    SegmentFrames = 2
    MaxSegments = 4
    MaxWalCrashes = 2
    MaxWalFaults = 1
    ObjStreams = {1, 2}
    ObjMaxSeq = 1
    MaxReopens = 1
    RingCells = 5
    BodyLens = {1, 2, 3}
    MaxFrames = 4
    MaxFrame = 3
    StreamLens = {1, 2, 3}
    MaxSends = 4
    MaxMessages = 3
    max_inflight = 3
    recv_window = 2
    init_window = 1
    min_window = 1
    max_window = 3
    MaxSendErrors = 1
    ResCofres = 3
    drop_every = 3
    MaxPartitions = 2
    MaxRedrives = 2
    Codes = {1, 2}
    MAX_ATTEMPTS = 3
    MaxApiCalls = 5
    HopCounts = {1, 2}
CHECK_DEADLOCK FALSE
INVARIANTS
    
    
    RingInv
    StreamInv
    FaspInv
    ResNonePassedOver
    PairingInv
    HopInv
PROPERTIES
    
    ObjIsHolding
    
