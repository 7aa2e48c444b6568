--------------------------- MODULE MCTwoImporters ---------------------------
(* A small instance of TwoImporters, with a BINARY(1) primary key.          *)
EXTENDS TwoImporters

\* Bytes above 127 are not UTF-8 by themselves: all of them come back as
\* U+FFFD, that is, as a key between 239 and 240.
ByteKeys == LET keys == <<65, 70, 75, 200, 210, 240>> IN [r \in 1..Rows |-> keys[r]]

\* Free memory for one, or for two rows a chunk.
OneOrTwo == {[freeRAM |-> 5, dataLen |-> 0, rowCount |-> 0],
             [freeRAM |-> 24, dataLen |-> 4, rowCount |-> 4]}
=============================================================================
