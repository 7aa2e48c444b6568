SPECIFICATION FairSpec
CONSTANTS
    Rows = 6
    NumPK = 0
    KeyKind = "integer"
    Key <- ExactKeys
    FloatExact = 8
    ConfigBatch = 4
    MaxChunkRows = 2
    NetworkBytes = 6
    MinBatch = 1
    DefaultRowBytes = 2
    Sizings <- NetworkSizings
    MaxRuns = 3
INVARIANTS
    OneToOneCopy
PROPERTIES
    WriterFailureUnblocks
    ReturnsUnlessReadFails
\* The importer is a command: it stops when its runs are over.
CHECK_DEADLOCK FALSE
