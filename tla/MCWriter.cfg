SPECIFICATION Spec
CONSTANTS
    NumRows = 3
    NumChunks = 3
    MaxRuns = 3
INVARIANTS
    TypeOK
    AckedIsStored
    TxAllOrNothing
    OneRefusal
\* The writer has nothing to do after the last chunk.
CHECK_DEADLOCK FALSE
