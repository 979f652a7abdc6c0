INIT StoresInit
NEXT StoresNext
CONSTANTS
    SegmentFrames = 2
    MaxBatch = 2
    MaxRecords = 4
    MaxErrors = 1
    MaxCrashes = 2
    NClients = {1, 2}
    NGroups = {1}
    MaxProduced = 2
    MaxNCrashes = 1
    MaxNFaults = 1
    MaxHangUps = 1
    OffGroups = {1, 2}
    COMPACT_MIN_RECORDS = 3
    COMPACT_GROWTH_FACTOR = 1
    MaxOffset = 2
    MaxOffCalls = 3
    MaxOffCrashes = 2
    MaxOffFaults = 1
    segment_frames = 2
    MaxTiered = 5
    MaxTierCrashes = 2
    MaxTierFaults = 1
    DataShards = 2
    ParityShards = 1
    MaxRecs = 2
    MaxOverwrites = 1
    MaxBlobFaults = 1
    MaxLosses = 2
    MaxRCrashes = 1
    RKeys = {1, 2}
    Weight <- TheWeights
    Members = {1, 2, 3}
    MaxRecordsR = 2
    MaxChanges = 4
    MaxDispatches = 3
    Sessions = {1, 2}
    DedupStreams = {1}
    RunStream = 1
    Kinds = {"file", "http"}
    MaxSourced = 2
    MaxRuns = 3
    MaxRunFaults = 2
CHECK_DEADLOCK FALSE
INVARIANTS
    
    
    OffsetsInv
    
    
    KeysStay
    RunInv
