----------------------------- MODULE TableCopy -----------------------------
(***************************************************************************)
(* What the copy of one table promises to the rest of the importer, and to *)
(* the next run of it: the pieces of the table are copied in any order and *)
(* as often as need be, and a record in the state table says how far the   *)
(* copy has come.  The record never says more than what was copied.        *)
(*                                                                         *)
(* A piece is a row in module Transfer and a chunk in module Migration.    *)
(***************************************************************************)
EXTENDS Integers

CONSTANTS
    Pieces,  \* the table has the pieces 1..Pieces
    Excuses  \* the sets of pieces that may be left out

VARIABLES
    copied,  \* pieces that are in the YDB table
    status,  \* the record: "absent", "progress" or "completed"
    upto,    \* ... in progress: pieces up to this one are done (0: all)
    excused  \* pieces left out, for which the record does not speak

record == <<status, upto, excused>>

Init ==
    /\ copied = {}
    /\ status = "absent" /\ upto = 0 /\ excused = {}

\* Pieces are copied, for the first time or again.
Copy ==
    /\ copied' \in SUBSET (1..Pieces)
    /\ copied \subseteq copied'
    /\ UNCHANGED record

Covers(last) == (1..last) \ excused' \subseteq copied

\* A checkpoint in the middle of the table: further on than the last one, and
\* only when all before it is copied.
Advance ==
    /\ status' = "progress"
    /\ upto' \in 1..Pieces
    /\ status = "progress" => upto' > upto
    /\ excused' \in Excuses
    /\ Covers(upto')
    /\ UNCHANGED copied

\* The checkpoint after the last piece does not say where it is, and the
\* record of a completed copy need not.
Finish ==
    /\ status' \in {"progress", "completed"}
    /\ upto' = 0
    /\ excused' \in Excuses
    /\ Covers(Pieces)
    /\ UNCHANGED copied

Next == Copy \/ Advance \/ Finish

Spec == Init /\ [][Next]_<<copied, record>>
=============================================================================
