INIT CodingInit
NEXT CodingNext
CONSTANTS
    Cargas = {1, 2}
    Positions <- ThePositions
    MaxLeaves = 3
    MaxHeads = 2
    MaxAcks = 2
    Payload <- ThePayload
    OtherPayload <- AnotherPayload
    Codecs <- TheCodecs
    RecordBytes = {0, 1, 142}
    MaxRecordLen = 3
    Widths = {0, 1, 3}
    TextLens = {0, 2}
    GroupBits = 2
    IntBits = 5
    IntBytes = 3
    LongBits = 7
    LongBytes = 4
    NameBytes = {37, 46, 47, 50, 58, 66}
    MaxName = 3
    RowBytes = {9, 10, 13, 46, 78, 92, 116}
    MaxRow = 2
    BinaryBytes = {0, 62, 255}
    MaxBinary = 4
    MaxEdits = 2
CHECK_DEADLOCK FALSE
INVARIANTS
    ManifestInv
    ErasureRecovers
    WireUnderstood
    CodingsComeBack
    
