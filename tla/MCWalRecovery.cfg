SPECIFICATION WalSpec
CONSTANTS
    MaxCofres = 3
    FlushFrames = 2
    SegmentFrames = 2
    MaxSegments = 4
    MaxWalCrashes = 2
    MaxWalFaults = 0
INVARIANT WalSurvives
CHECK_DEADLOCK FALSE
