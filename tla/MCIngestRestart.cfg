SPECIFICATION IngestSpec
CONSTANTS
    Sessions = {1}
    Daemon = 1
    DedupStreams = {1, 2}
    Producers = {p1, p2}
    MaxBatches = 2
    MaxInFlight = 1
    MaxIngestFaults = 0
    MaxRestarts = 1
INVARIANT AckedAlwaysLands
CHECK_DEADLOCK FALSE
