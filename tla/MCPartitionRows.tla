-------------------------- MODULE MCPartitionRows --------------------------
(* Chunks for TLC: all sequences of row sizes within two bounds.           *)
EXTENDS PartitionRows

CONSTANTS MaxRows, MaxSize

\* The chunk whose rows have the given sizes.
ChunkOf(n, sizes) ==
    LET upto[i \in 0..n] == IF i = 0 THEN 0 ELSE upto[i - 1] + sizes[i]
    IN  [n |-> n, upto |-> [i \in 0..n |-> upto[i]]]

AllInputs ==
    UNION {{ChunkOf(n, sizes) : sizes \in [1..n -> 1..MaxSize]} : n \in 0..MaxRows}
=============================================================================
