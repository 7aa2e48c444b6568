SPECIFICATION Spec
CONSTANTS
    Tables <- SomeTables
    PKCols <- AB
    Indexes <- SomeIndexes
    ColumnNames = {"a", "b"}
    NoColumn = NoColumn
    MaxOpenConns = 2
INVARIANTS
    OneIndexCutShort
    IndexesComplete
PROPERTIES
    LoadsEnd
\* All loads return, or all wait for each other.
CHECK_DEADLOCK FALSE
