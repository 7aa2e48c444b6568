---------------------------- MODULE TwoImporters ----------------------------
(***************************************************************************)
(* Two importers on the same databases, as when a migration is started     *)
(* again while the first one is still running.  They share the YDB table   *)
(* and its row of _mysql2ydb_state; there is no lock, no owner and no      *)
(* condition on the upsert of that row, so the last writer wins.           *)
(*                                                                         *)
(* The first importer has the variables of module Transfer, the second one *)
(* its own copy of all but target, state and claim.                        *)
(***************************************************************************)
EXTENDS Transfer

VARIABLES
    runs2, main2, forced2, sizing2, batch2, readerPC2, cursor2, pending2,
    ch2, closed2, writerPC2, current2, total2, pass2

Other == INSTANCE Transfer WITH
    runs <- runs2, main <- main2, forced <- forced2, sizing <- sizing2,
    batch <- batch2, readerPC <- readerPC2, cursor <- cursor2,
    pending <- pending2, ch <- ch2, closed <- closed2, writerPC <- writerPC2,
    current <- current2, total <- total2, pass <- pass2

firstVars == <<process, readerVars, channel, writerVars, pass>>
secondVars == <<runs2, main2, forced2, sizing2, batch2, readerPC2, cursor2, pending2,
                ch2, closed2, writerPC2, current2, total2, pass2>>

BothInit == Init /\ Other!Init

\* Each call on MySQL or YDB is a step of its own: GetProgress is one snapshot
\* read, SaveProgress and MarkTableCompleted are one upsert of one row.
BothNext ==
    \/ Next /\ UNCHANGED secondVars
    \/ Other!Next /\ UNCHANGED firstVars

BothSpec == BothInit /\ [][BothNext]_<<vars, secondVars>>

-----------------------------------------------------------------------------
\* However the two importers overwrite each other's checkpoints and resume
\* from them, a completed table lacks nothing but rows that the encoding of a
\* cursor can jump over, and the row the reader leaves out after a full
\* chunk: never the first row, never two neighbours.  The data needs no lock.
LossExplained ==
    state.status = "completed" => ((1..Rows) \ target) \ Jumpable \in SparseSets
=============================================================================
