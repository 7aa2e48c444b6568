SPECIFICATION FairSpec
CONSTANTS
    NumTables = 2
    AutoInc = {1}
    NumChunks = 2
    Modes <- AllModes
    MaxRuns = 3
INVARIANTS
    TypeOK
    RecordsMatchData
    DoneMeansCompleted
    RecreateStartsClean
    StateImpliesSchema
PROPERTIES
    CompletedIsKept
    TablesCopiedAsPromised
    RunEnds
\* The importer is a command: it stops when its runs are over.
CHECK_DEADLOCK FALSE
