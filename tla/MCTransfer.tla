---------------------------- MODULE MCTransfer ----------------------------
(* Small instances of Transfer: key values and table sizes for TLC.        *)
EXTENDS Transfer

\* Ascending integer keys that float64 represents exactly, when it is exact up
\* to 16, of either sign: all below 16, then multiples of 2 up to 32 and of 4
\* up to 64, and so on.
ExactKeys ==
    LET keys == <<-72, -36, -18, -16, -1, 0, 15, 16, 20, 36, 64, 72, 160, 256>>
    IN  [r \in 1..Rows |-> keys[r]]

\* No free memory to speak of: the floor of MinBatch = 1 row.
Floor == [freeRAM |-> 5, dataLen |-> 0, rowCount |-> 0]
\* Free memory for chunks of exactly two, and of exactly three rows.
TwoRows == [freeRAM |-> 24, dataLen |-> 4, rowCount |-> 4]
ThreeRows == [freeRAM |-> 36, dataLen |-> 4, rowCount |-> 4]
\* Rows so large that the network budget of 6 bytes holds one of them.
LargeRows == [freeRAM |-> 0, dataLen |-> 18, rowCount |-> 3]
\* Neither query answered: only the flags limit the chunk.
Unknown == [freeRAM |-> 0, dataLen |-> 0, rowCount |-> 0]

MemorySizings == {Floor, TwoRows, ThreeRows}
NetworkSizings == {LargeRows, Unknown}
FloorOnly == {Floor}
=============================================================================
