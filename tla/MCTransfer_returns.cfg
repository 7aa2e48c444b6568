SPECIFICATION FairSpec
CONSTANTS
    Rows = 3
    NumPK = 1
    KeyKind = "integer"
    Key <- ExactKeys
    FloatExact = 16
    ConfigBatch = 4
    MaxChunkRows = 3
    NetworkBytes = 6
    MinBatch = 1
    DefaultRowBytes = 2
    Sizings <- FloorOnly
    MaxRuns = 1
PROPERTIES
    TransferReturns
\* The importer is a command: it stops when its runs are over.
CHECK_DEADLOCK FALSE
