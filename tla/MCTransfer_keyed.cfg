SPECIFICATION Spec
CONSTANTS
    Rows = 14
    NumPK = 1
    KeyKind = "integer"
    Key <- ExactKeys
    FloatExact = 16
    ConfigBatch = 4
    MaxChunkRows = 3
    NetworkBytes = 6
    MinBatch = 1
    DefaultRowBytes = 2
    Sizings <- MemorySizings
    MaxRuns = 3
INVARIANTS
    TypeOK
    CheckpointCoversPrefix
    CompletedCoversTable
    RowsExact
    PipelineInOrder
    ChunksFit
PROPERTIES
    OnlyForcedUncompletes
    CopiesTable
\* The importer is a command: it stops when its runs are over.
CHECK_DEADLOCK FALSE
