-------------------------- MODULE MCValueMapping --------------------------
(* Scaled integer widths and columns for TLC.                              *)
EXTENDS ValueMapping

\* The order of the widths is kept; so are sign bits and wrap-around.
SmallHalf == [w \in {8, 16, 24, 32, 64} |->
                 CASE w \in {8, 16, 24} -> 2 [] w = 32 -> 4 [] w = 64 -> 8]

\* UNSIGNED and the display width matter for integers only.
AllColumns ==
    {c \in ColumnTypes :
        /\ c.base \notin IntBases => ~c.unsigned /\ c.width = ""
        /\ c.autoIncrement => c.base \in IntBases \cup FloatBases /\ ~c.nullable}
=============================================================================
