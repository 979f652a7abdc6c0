INIT FlowInit
NEXT FlowNext
CONSTANTS
    Source <- TheSource
    Dest <- TheDest
    Boardable <- TheBatches
    Keys <- TheKeys
    NoKey <- NoKeyValue
    MAX_DEAD_LETTERS_RETAINED = 2
    MaxOffloads = 4
    MaxSeq = 1
    GcLag = 1
    MaxReorderHorizon = 2
    Sessions = {1}
    Daemon = 1
    DedupStreams = {1, 2}
    Producers = {p1, p2}
    MaxBatches = 2
    MaxInFlight = 2
    MaxIngestFaults = 2
    MaxRestarts = 1
    EClients = {1, 2}
    EPartitions = {1, 2}
    MAX_CONNECTIONS = 1
    ERequests <- TheRequests
    Refused = {9}
    MaxERequests = 2
    MaxESessions = 2
    MaxEErrors = 1
    MaxRot = 1
CHECK_DEADLOCK FALSE
INVARIANTS
    OffloadInv
    IngestInv
    
    EdgeAdmits
