------------------------------ MODULE Display ------------------------------
(***************************************************************************)
(* The progress bars on a terminal.  The writers of the tables report what *)
(* they wrote, a goroutine redraws all bars on every tick, and main stops  *)
(* the display when the transfers are over, on success and before it exits *)
(* with an error.  d.mu guards the fields of the display; a frame is drawn *)
(* from a copy of them after d.mu is released.                             *)
(*                                                                         *)
(* Lines, bars and the spinner are left out: a frame is what it says about *)
(* each table, and is printed in one step.                                 *)
(***************************************************************************)
EXTENDS Naturals

CONSTANTS
    NumTables,     \* the pending tables, in the order in which main takes them
    NumChunks,     \* bound: chunks a table has still to be written
    InitialTotals  \* rows that checkpoints of earlier runs count, in chunks

Tables == 1..NumTables

ASSUME DisplayAssumption ==
    NumTables \in Nat \ {0} /\ NumChunks \in Nat \ {0} /\ InitialTotals \subseteq Nat

VARIABLES
    parallel,   \* -parallel-tables is above 1
    initial,    \* initial[t]: initialTotal, 0 for a table that starts afresh
    worker,     \* worker[t]: where transferTable(t) is
    written,    \* written[t]: chunks that WriteChunk reported as written
    completed,  \* completed[t]: MarkTableCompleted succeeded
    main,       \* main: waiting for the transfers, in Stop, or exited
    (* fields of the display *)
    shown,      \* shown[t]: rows and done of its tableState
    stopped,
    (* the goroutine of Run, and what is drawn *)
    loop,
    frame,      \* the copies that Run and Stop print
    screen,     \* the frame that was printed last
    late        \* history: frames printed by Run after stopped was set

setup == <<parallel, initial>>
transfers == <<setup, worker, written, completed>>
fields == <<shown, stopped>>
vars == <<transfers, main, fields, loop, frame, screen, late>>

Empty == [t \in Tables |-> [rows |-> 0, done |-> FALSE]]

\* NewDisplay, ReserveLines and "go prog.Run".
Init ==
    /\ parallel \in BOOLEAN /\ initial \in [Tables -> InitialTotals]
    /\ worker = [t \in Tables |-> "idle"]
    /\ written = [t \in Tables |-> 0]
    /\ completed = [t \in Tables |-> FALSE]
    /\ main = "wait" /\ loop = "wait"
    /\ shown = Empty /\ stopped = FALSE
    /\ frame = [run |-> Empty, stop |-> Empty]
    /\ screen = Empty /\ late = 0

-----------------------------------------------------------------------------
(* The transfers.                                                          *)

At(t, from, to) == worker[t] = from /\ worker' = [worker EXCEPT ![t] = to]

\* One after the other, until one fails, or all at once.
Begin(t) ==
    /\ main = "wait"
    /\ parallel \/ \A u \in Tables : u < t => worker[u] = "returned"
    /\ At(t, "idle", "chunk")
    /\ UNCHANGED <<setup, written, completed, main, fields, loop, frame, screen, late>>

\* total of the writer.
Total(t) == initial[t] + written[t]

WriteChunk(t) ==
    /\ written[t] < NumChunks
    /\ At(t, "chunk", "update")
    /\ written' = [written EXCEPT ![t] = @ + 1]
    /\ UNCHANGED <<setup, completed, main, fields, loop, frame, screen, late>>

\* Update: the row count of the bar, before the checkpoint is saved.
Update(t) ==
    /\ At(t, "update", "save")
    /\ shown' = [shown EXCEPT ![t].rows = Total(t)]
    /\ UNCHANGED <<setup, written, completed, main, stopped, loop, frame, screen, late>>

SaveProgress(t) ==
    /\ At(t, "save", "chunk")
    /\ UNCHANGED <<setup, written, completed, main, fields, loop, frame, screen, late>>

\* After any number of chunks, and after none when the table is empty or a
\* resumed pass finds no more rows.
MarkTableCompleted(t) ==
    /\ At(t, "chunk", "setDone")
    /\ completed' = [completed EXCEPT ![t] = TRUE]
    /\ UNCHANGED <<setup, written, main, fields, loop, frame, screen, late>>

\* SetDone: the bar of a completed table.
SetDone(t) ==
    /\ At(t, "setDone", "returned")
    /\ shown' = [shown EXCEPT ![t] = [rows |-> Total(t), done |-> TRUE]]
    /\ UNCHANGED <<setup, written, completed, main, stopped, loop, frame, screen, late>>

\* A call fails and transferTable returns its error; a bar keeps its rows.
Fail(t) ==
    /\ At(t, "chunk", "failed") \/ At(t, "save", "failed")
    /\ UNCHANGED <<setup, written, completed, main, fields, loop, frame, screen, late>>

-----------------------------------------------------------------------------
(* main, once the transfers are over.                                      *)

Over(t) == worker[t] \in {"returned", "failed"}

\* Mutant of TransfersOver: the first error ends the wait in any case.
FirstErrorEnds ==
    \/ \A t \in Tables : Over(t)
    \/ \E t \in Tables : worker[t] = "failed"

\* g.Wait waits for all transfers; the sequential loop ends at an error.
TransfersOver ==
    \/ \A t \in Tables : Over(t)
    \/ ~parallel /\ \E t \in Tables : worker[t] = "failed"

\* Stop, its first critical section.
SetStopped ==
    /\ main = "wait"
    /\ TransfersOver
    /\ main' = "redraw"
    /\ stopped' = TRUE
    /\ UNCHANGED <<transfers, shown, loop, frame, screen, late>>

\* redraw, called by Stop: the copy is taken, and then printed.
StopCopies ==
    /\ main = "redraw"
    /\ main' = "print"
    /\ frame' = [frame EXCEPT !.stop = shown]
    /\ UNCHANGED <<transfers, fields, loop, screen, late>>

StopPrints ==
    /\ main = "print"
    /\ main' = "exit"
    /\ screen' = frame.stop
    /\ UNCHANGED <<transfers, fields, loop, frame, late>>

\* main returns or calls log.Fatalf; all goroutines end.
Exit ==
    /\ main = "exit"
    /\ main' = "exited"
    /\ loop' = "returned"
    /\ UNCHANGED <<transfers, fields, frame, screen, late>>

-----------------------------------------------------------------------------
(* Run.                                                                    *)

\* Mutant of Tick: stopped is not tested.
TickAlways ==
    /\ loop = "wait"
    /\ loop' = "redraw"
    /\ UNCHANGED <<transfers, main, fields, frame, screen, late>>

\* A tick: Run returns if the display was stopped.
Tick ==
    /\ loop = "wait"
    /\ loop' = IF stopped THEN "returned" ELSE "redraw"
    /\ UNCHANGED <<transfers, main, fields, frame, screen, late>>

\* redraw, called by Run: d.mu was released since the test.
RunCopies ==
    /\ loop = "redraw"
    /\ loop' = "print"
    /\ frame' = [frame EXCEPT !.run = shown]
    /\ UNCHANGED <<transfers, main, fields, screen, late>>

RunPrints ==
    /\ loop = "print"
    /\ loop' = "wait"
    /\ screen' = frame.run
    /\ late' = IF stopped THEN late + 1 ELSE late
    /\ UNCHANGED <<transfers, main, fields, frame>>

Transfer(t) ==
    \/ Begin(t) \/ WriteChunk(t) \/ Update(t) \/ SaveProgress(t)
    \/ MarkTableCompleted(t) \/ SetDone(t) \/ Fail(t)
Stop == SetStopped \/ StopCopies \/ StopPrints \/ Exit
Run == Tick \/ RunCopies \/ RunPrints

Next == (\E t \in Tables : Transfer(t)) \/ Stop \/ Run

Spec == Init /\ [][Next]_vars

-----------------------------------------------------------------------------
(* Properties.                                                             *)

\* Run tests stopped under d.mu and draws after releasing it, so a frame may
\* follow the final one; but only one, the next tick ends Run.
OneLateFrame == late <= 1

\* The rows of a table as far as this run got with it.  Only a chunk or the
\* completion reports them: the rows of earlier runs do not show before.
Reported(t) == IF written[t] > 0 \/ completed[t] THEN Total(t) ELSE 0

\* What the user is left with: unless such a late frame came after it, the
\* last frame tells of all tables, resumed or not and whichever of them
\* failed, the rows written, with those of earlier runs once a chunk was
\* added to them, and the tables completed.
FinalScreen ==
    main = "exited" /\ late = 0 =>
        screen = [t \in Tables |-> [rows |-> Reported(t), done |-> completed[t]]]
=============================================================================
