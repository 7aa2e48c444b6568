SPECIFICATION Spec
CONSTANTS
    NumTables = 3
    NumChunks = 2
    InitialTotals = {0, 1}
INVARIANTS
    OneLateFrame
    FinalScreen
\* The importer is a command: it exits.
CHECK_DEADLOCK FALSE
