SPECIFICATION BothSpec
CONSTANTS
    Rows = 6
    NumPK = 1
    KeyKind = "bytes"
    Key <- ByteKeys
    FloatExact = 8
    ConfigBatch = 4
    MaxChunkRows = 2
    NetworkBytes = 6
    MinBatch = 1
    DefaultRowBytes = 2
    Sizings <- OneOrTwo
    MaxRuns = 1
INVARIANTS
    CheckpointCoversPrefix
    CompletedCoversTable
    LossExplained
\* The importer is a command: it stops when its runs are over.
CHECK_DEADLOCK FALSE
