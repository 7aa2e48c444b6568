SPECIFICATION Spec
CONSTANTS
    NumTables = 1
    AutoInc = {1}
    NumChunks = 2
    Modes <- RecreateModes
    MaxRuns = 2
INVARIANTS
    CompletedIsMigrated
\* The importer is a command: it stops when its runs are over.
CHECK_DEADLOCK FALSE
