SPECIFICATION FairSpec
CONSTANTS
    Inputs <- AllInputs
    MaxBytes = 4
    MaxRows = 5
    MaxSize = 5
INVARIANTS
    TypeOK
    Lossless
    ReturnsOnlyModest
PROPERTIES
    SplitsModestChunks
\* The function returns.
CHECK_DEADLOCK FALSE
