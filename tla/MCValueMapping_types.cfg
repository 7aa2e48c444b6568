SPECIFICATION Spec
CONSTANTS
    Half <- SmallHalf
    Columns <- AllColumns
    HandMade <- YDBColumns
    MaxRows = 2
INVARIANTS
    TypeOK
    IntegersKeepOrder
    IntegersStayDistinct
    DatesKeptOrReplaced
    OnlyKnownRefusals
\* A column of two rows is written.
CHECK_DEADLOCK FALSE
