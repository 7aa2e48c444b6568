----------------------------- MODULE Transfer -----------------------------
(***************************************************************************)
(* transferTable: the copy of one table from MySQL to YDB.  A reader       *)
(* goroutine pages through the MySQL table and sends chunks over a         *)
(* buffered channel; a writer goroutine upserts every chunk into YDB and   *)
(* then saves a checkpoint in the row of _mysql2ydb_state for the table.   *)
(* An errgroup joins them; when both succeed the table is marked           *)
(* completed.  Any call may fail, and the process may die at any point     *)
(* and be started again.                                                   *)
(***************************************************************************)
EXTENDS CursorCodec, BatchSize, Sequences

CONSTANTS
    Sizings,  \* what the runs may find for free memory and table size
    MaxRuns   \* bound: how many times the importer is started

ASSUME SizingsAssumption == Sizings \subseteq Sizing
ASSUME MaxRunsAssumption == MaxRuns \in Nat

\* Mutant of ChanCap: a deeper channel buffer.
DeeperChannel == 3

\* ch := make(chan chunkMsg, 2)
ChanCap == 2

VARIABLES
    (* durable, in YDB *)
    target,    \* ranks of the MySQL rows that are in the YDB table
    state,     \* the table's row of _mysql2ydb_state
    (* the process *)
    runs,      \* importer runs started so far
    main,      \* where transferTable is; "down" when it is not running
    forced,    \* the run was started with -force
    sizing,    \* what this run found for free memory and table size
    batch,     \* the chunk size that follows from it
    (* reader goroutine *)
    readerPC, cursor, pending,
    (* channel *)
    ch, closed,
    (* writer goroutine *)
    writerPC, current, total,
    (* history, never read by an action's guard *)
    pass,      \* what the writer has dealt with since the pass began
    claim      \* the same, as of the last change of state

process == <<runs, main, forced, sizing, batch>>
readerVars == <<readerPC, cursor, pending>>
channel == <<ch, closed>>
writerVars == <<writerPC, current, total>>
vars == <<target, state, process, readerVars, channel, writerVars, pass, claim>>

-----------------------------------------------------------------------------
\* chunkMsg: the rows first..last, and the cursor to save once they are
\* written (0: nextSend is nil because the reader found no further row).
NoChunk == [first |-> 0, last |-> 0, next |-> 0]
RowsOf(m) == m.first..m.last

\* The position from which the chunk after m is read.
EndOf(m) == IF m.next = 0 THEN Rows ELSE m.next

Chunks == {m \in [first : 1..Rows, last : 1..Rows, next : 0..Rows] :
              m.first <= m.last /\ m.last <= EndOf(m)}

\* A row of the state table: resume_cursor, rows_so_far and completed_at.
\* cursor 0 stands for "[]" in a row in progress, for "" in a completed one.
StateRows == [status : {"absent", "progress", "completed"},
              cursor : 0..Rows, rows : Nat]
NoStateRow == [status |-> "absent", cursor |-> 0, rows |-> 0]

\* The chunk sizes batchSizeForTable may choose.
Batches == {batchSizeForTable(z) : z \in Sizings}

NoSizing == [freeRAM |-> 0, dataLen |-> 0, rowCount |-> 0]
NoPass == [done |-> 0, gaps |-> {}, exact |-> TRUE]
NoClaim == [gaps |-> {}, exact |-> TRUE]

Init ==
    /\ target = {}
    /\ state = NoStateRow
    /\ runs = 0 /\ main = "down" /\ forced = FALSE
    /\ sizing = NoSizing /\ batch = 0
    /\ readerPC = "idle" /\ cursor = 0 /\ pending = NoChunk
    /\ ch = <<>> /\ closed = FALSE
    /\ writerPC = "idle" /\ current = NoChunk /\ total = 0
    /\ pass = NoPass /\ claim = NoClaim

-----------------------------------------------------------------------------
(* ReadChunk: SELECT ... WHERE pk > cursor ORDER BY pk LIMIT batchSize + 1 *)

\* Mutant of HasMore: the comparison is off by one.
HasMoreOffByOne(c) == Rows - c >= batch

\* The extra row of the LIMIT came back.
HasMore(c) == Rows - c > batch

\* cursorFromRow takes the key of lastRow, the last row scanned: with a
\* primary key that is the extra row, which the chunk does not contain.
NextCursor(c) == IF NumPK > 0 THEN c + batch + 1 ELSE c + batch

ChunkAt(c) == [first |-> c + 1,
               last  |-> IF HasMore(c) THEN c + batch ELSE Rows,
               next  |-> IF HasMore(c) THEN NextCursor(c) ELSE 0]

\* buildCursorCondition writes one "?" for (a > ?), two more for
\* (a = ? AND b > ?), and so on; the query binds the cursor's NumPK values.
Placeholders(n) == (n * (n + 1)) \div 2
ArgsMatch(c) == c = 0 \/ NumPK = 0 \/ Placeholders(NumPK) = NumPK

-----------------------------------------------------------------------------
(* transferTable before and after the two goroutines.                      *)

\* What is left in memory when the process ends, for whatever reason.
Exit ==
    /\ main' = "down" /\ forced' = FALSE
    /\ sizing' = NoSizing /\ batch' = 0
    /\ readerPC' = "idle" /\ cursor' = 0 /\ pending' = NoChunk
    /\ ch' = <<>> /\ closed' = FALSE
    /\ writerPC' = "idle" /\ current' = NoChunk /\ total' = 0
    /\ pass' = NoPass
    /\ UNCHANGED runs

\* Mutant of Start: the list of completed tables is not consulted.
StartAnyTable(f) ==
    /\ main = "down"
    /\ runs < MaxRuns
    /\ runs' = runs + 1
    /\ main' = "load"
    /\ forced' = f
    /\ UNCHANGED <<target, state, sizing, batch, readerVars, channel, writerVars,
                   pass, claim>>

\* The importer starts and the table is pending: not recorded as completed,
\* or the run was given -force.
Start(f) ==
    /\ main = "down"
    /\ runs < MaxRuns
    /\ f \/ state.status # "completed"
    /\ runs' = runs + 1
    /\ main' = "load"
    /\ forced' = f
    /\ UNCHANGED <<target, state, sizing, batch, readerVars, channel, writerVars,
                   pass, claim>>

\* Mutant of ResumePoints: the saved cursor is ignored.
ResumeFromStart == {0}
\* Mutant of ResumeTotal: the row count restarts at 0 on resume.
ResumeTotalForgotten == 0

\* GetProgress: a checkpoint in progress resumes at its cursor with its row
\* count; no row, or a completed one, starts from the beginning with 0.
ResumePoints ==
    IF state.status = "progress" THEN Restored(state.cursor) ELSE {0}
ResumeTotal ==
    IF state.status = "progress" THEN state.rows ELSE 0

\* Rows between the saved cursor and the position p it was restored to, which
\* are beyond it when the key came back larger than it was saved.
Overshot(p) == IF state.status = "progress" THEN (state.cursor + 1)..p ELSE {}

\* LoadTableMeta, GetProgress and batchSizeForTable succeed; the channel is
\* made and both goroutines are started.
Load(z, p) ==
    /\ main = "load"
    /\ main' = "pipeline"
    /\ sizing' = z
    /\ batch' = batchSizeForTable(z)
    /\ readerPC' = "read" /\ cursor' = p
    /\ writerPC' = "recv" /\ total' = ResumeTotal
    /\ pass' = [done  |-> p,
                gaps  |-> (claim.gaps \cap 1..p) \cup Overshot(p),
                exact |-> \/ state.status # "progress"
                          \/ claim.exact /\ p = state.cursor /\ p # 0]
    /\ UNCHANGED <<target, state, runs, forced, pending, channel, current, claim>>

LoadFail ==
    /\ main = "load"
    /\ Exit
    /\ UNCHANGED <<target, state, claim>>

\* Mutant of WaitOk: the writer is not joined.
WaitForReaderOnly ==
    /\ main = "pipeline"
    /\ readerPC = "closed"
    /\ main' = "mark"
    /\ UNCHANGED <<target, state, runs, forced, sizing, batch, readerVars,
                   channel, writerVars, pass, claim>>

\* g.Wait() returns when both goroutines have; the first error, if any, is
\* returned by transferTable.
WaitOk ==
    /\ main = "pipeline"
    /\ readerPC = "closed" /\ writerPC = "finished"
    /\ main' = "mark"
    /\ UNCHANGED <<target, state, runs, forced, sizing, batch, readerVars,
                   channel, writerVars, pass, claim>>

WaitError ==
    /\ main = "pipeline"
    /\ readerPC \in {"closed", "failed"} /\ writerPC \in {"finished", "failed"}
    /\ "failed" \in {readerPC, writerPC}
    /\ Exit
    /\ UNCHANGED <<target, state, claim>>

Completed == [status |-> "completed", cursor |-> 0, rows |-> total]

\* MarkTableCompleted, after which transferTable returns.
Mark ==
    /\ main = "mark"
    /\ state' = Completed
    /\ claim' = [gaps |-> pass.gaps, exact |-> pass.exact]
    /\ Exit
    /\ UNCHANGED target

\* MarkTableCompleted fails and the request did not reach the table; when it
\* did, the effect is that of Mark.
MarkFail ==
    /\ main = "mark"
    /\ Exit
    /\ UNCHANGED <<target, state, claim>>

\* The process is killed.
Crash ==
    /\ main # "down"
    /\ Exit
    /\ UNCHANGED <<target, state, claim>>

-----------------------------------------------------------------------------
(* The reader goroutine.                                                   *)

\* gCtx is cancelled by the first goroutine that returns an error.
Cancelled == "failed" \in {readerPC, writerPC}

\* ReadChunk succeeds.  An empty chunk is not sent.  pass.gaps collects the
\* rows that lie between this chunk and the next one.
Read ==
    /\ readerPC = "read"
    /\ ArgsMatch(cursor)
    /\ LET m == ChunkAt(cursor) IN
       IF m.first <= m.last
       THEN /\ readerPC' = "send"
            /\ pending' = m
            /\ pass' = [pass EXCEPT !.gaps = @ \cup ((m.last + 1)..m.next)]
       ELSE /\ readerPC' = "close"
            /\ UNCHANGED <<pending, pass>>
    /\ UNCHANGED <<target, state, process, cursor, channel, writerVars, claim>>

\* ReadChunk returns an error; the goroutine returns it and leaves the
\* channel open.
ReadFail ==
    /\ readerPC = "read"
    /\ readerPC' = "failed"
    /\ UNCHANGED <<target, state, process, cursor, pending, channel,
                   writerVars, pass, claim>>

\* Mutant of Send: "cursor = next" is missing.
SendCursorForgotten ==
    /\ readerPC = "send"
    /\ Len(ch) < ChanCap
    /\ ch' = Append(ch, pending)
    /\ pending' = NoChunk
    /\ readerPC' = IF pending.next = 0 THEN "close" ELSE "read"
    /\ UNCHANGED <<target, state, process, cursor, closed, writerVars, pass, claim>>

\* case ch <- chunkMsg{...}
Send ==
    /\ readerPC = "send"
    /\ Len(ch) < ChanCap
    /\ ch' = Append(ch, pending)
    /\ pending' = NoChunk
    /\ readerPC' = IF pending.next = 0 THEN "close" ELSE "read"
    /\ cursor' = IF pending.next = 0 THEN cursor ELSE pending.next
    /\ UNCHANGED <<target, state, process, closed, writerVars, pass, claim>>

\* Mutant of SendCancelled: the send does not select on gCtx.Done().
SendNeverCancelled == FALSE

\* case <-gCtx.Done()
SendCancelled ==
    /\ readerPC = "send"
    /\ Cancelled
    /\ readerPC' = "failed"
    /\ pending' = NoChunk
    /\ UNCHANGED <<target, state, process, cursor, channel, writerVars, pass, claim>>

\* Mutant of Close: the reader returns without closing the channel.
CloseForgotten ==
    /\ readerPC = "close"
    /\ readerPC' = "closed"
    /\ UNCHANGED <<target, state, process, cursor, pending, channel, writerVars,
                   pass, claim>>

\* close(ch); return nil
Close ==
    /\ readerPC = "close"
    /\ readerPC' = "closed"
    /\ closed' = TRUE
    /\ UNCHANGED <<target, state, process, cursor, pending, ch, writerVars,
                   pass, claim>>

-----------------------------------------------------------------------------
(* The writer goroutine.                                                   *)

\* for msg := range ch
Receive ==
    /\ writerPC = "recv"
    /\ ch # <<>>
    /\ current' = Head(ch)
    /\ ch' = Tail(ch)
    /\ writerPC' = "write"
    /\ UNCHANGED <<target, state, process, readerVars, closed, total, pass, claim>>

\* WriteChunk succeeds, total += written.
Write ==
    /\ writerPC = "write"
    /\ target' = target \cup RowsOf(current)
    /\ total' = total + (current.last - current.first + 1)
    /\ writerPC' = "save"
    /\ UNCHANGED <<state, process, readerVars, channel, current, pass, claim>>

\* Mutant of WriteFail: the error of WriteChunk is dropped.
WriteErrorDropped ==
    /\ writerPC = "write"
    /\ \E part \in SUBSET RowsOf(current) : target' = target \cup part
    /\ writerPC' = "save"
    /\ UNCHANGED <<state, process, readerVars, channel, current, total, pass, claim>>

\* WriteChunk fails.  BulkUpsert is not atomic: any part of the chunk may
\* have been stored.
WriteFail ==
    /\ writerPC = "write"
    /\ \E part \in SUBSET RowsOf(current) : target' = target \cup part
    /\ writerPC' = "failed" /\ current' = NoChunk
    /\ UNCHANGED <<state, process, readerVars, channel, total, pass, claim>>

\* Mutant of Checkpoint: the reader's cursor is saved, not the chunk's.
CheckpointOfReader == [status |-> "progress", cursor |-> cursor, rows |-> total]

\* resume_cursor is the cursor that came with the chunk, completed_at the epoch.
Checkpoint == [status |-> "progress", cursor |-> current.next, rows |-> total]

\* The checkpoint row is stored.
Stored ==
    /\ state' = Checkpoint
    /\ claim' = [gaps  |-> pass.gaps \cap 1..EndOf(current), exact |-> pass.exact]

\* SaveProgress succeeds.
Save ==
    /\ writerPC = "save"
    /\ Stored
    /\ pass' = [pass EXCEPT !.done = EndOf(current)]
    /\ writerPC' = "recv" /\ current' = NoChunk
    /\ UNCHANGED <<target, process, readerVars, channel, total>>

\* SaveProgress fails; the row may or may not have been stored.
SaveFail ==
    /\ writerPC = "save"
    /\ Stored \/ UNCHANGED <<state, claim>>
    /\ writerPC' = "failed" /\ current' = NoChunk
    /\ UNCHANGED <<target, process, readerVars, channel, total, pass>>

\* The channel is closed and drained: totalCh <- total; return nil.
Finish ==
    /\ writerPC = "recv"
    /\ ch = <<>> /\ closed
    /\ writerPC' = "finished"
    /\ UNCHANGED <<target, state, process, readerVars, channel, current, total,
                   pass, claim>>

-----------------------------------------------------------------------------
ReaderStep == Read \/ ReadFail \/ Send \/ SendCancelled \/ Close
WriterStep == Receive \/ Write \/ WriteFail \/ Save \/ SaveFail \/ Finish
MainStep ==
    \/ \E z \in Sizings, p \in ResumePoints : Load(z, p)
    \/ LoadFail \/ WaitOk \/ WaitError \/ Mark \/ MarkFail

Next ==
    \/ \E f \in BOOLEAN : Start(f)
    \/ MainStep \/ ReaderStep \/ WriterStep
    \/ Crash

\* The Go scheduler runs every goroutine that can run, and every call made
\* on MySQL or YDB returns.  Nobody has to start or kill the importer.
Fairness == WF_vars(MainStep) /\ WF_vars(ReaderStep) /\ WF_vars(WriterStep)

Spec == Init /\ [][Next]_vars
FairSpec == Spec /\ Fairness

-----------------------------------------------------------------------------
(* Properties.                                                             *)

TypeOK ==
    /\ target \in SUBSET (1..Rows)
    /\ state \in StateRows
    /\ runs \in 0..MaxRuns
    /\ main \in {"down", "load", "pipeline", "mark"}
    /\ forced \in BOOLEAN
    /\ sizing \in Sizings \cup {NoSizing}
    /\ batch \in Batches \cup {0}
    /\ readerPC \in {"idle", "read", "send", "close", "closed", "failed"}
    /\ cursor \in 0..Rows
    /\ pending \in Chunks \cup {NoChunk}
    /\ ch \in Seq(Chunks) /\ Len(ch) <= ChanCap
    /\ closed \in BOOLEAN
    /\ writerPC \in {"idle", "recv", "write", "save", "finished", "failed"}
    /\ current \in Chunks \cup {NoChunk}
    /\ total \in Nat
    /\ pass \in [done : 0..Rows, gaps : SUBSET (1..Rows), exact : BOOLEAN]
    /\ claim \in [gaps : SUBSET (1..Rows), exact : BOOLEAN]

\* A saved cursor never runs ahead of the data: every row up to it is in YDB,
\* except the rows the reader itself left between two chunks.  This is what
\* lets a restart resume there, whatever was in the channel, half written or
\* unacknowledged when the process died (main.go, the writer goroutine).
CheckpointCoversPrefix ==
    state.status = "progress" => (1..state.cursor) \ claim.gaps \subseteq target

\* A table is recorded as completed only when every row is in YDB, again up
\* to the rows the reader left out: the join of the two goroutines, the
\* close of the channel and all earlier partial runs together (main.go,
\* g.Wait and MarkTableCompleted).
CompletedCoversTable ==
    state.status = "completed" => (1..Rows) \ claim.gaps \subseteq target

\* The rows the checkpoint accounts for.
Covered ==
    (IF state.status = "progress" /\ state.cursor > 0
     THEN 1..state.cursor ELSE 1..Rows) \ claim.gaps

\* rows_so_far counts every row exactly once although rows written after the
\* last checkpoint are written again on resume.  The one exception is a pass
\* that was restarted from "[]" after its last chunk: it keeps the row count
\* and adds the whole table to it (claim.exact is FALSE).
RowsExact ==
    state.status # "absent" /\ claim.exact => state.rows = Cardinality(Covered)

\* The position up to which rows are written or in the writer's hands, and
\* the one up to which they are at least in the channel.
HeadPos == IF writerPC \in {"write", "save"} THEN EndOf(current) ELSE pass.done
TailPos == IF ch = <<>> THEN HeadPos ELSE EndOf(ch[Len(ch)])

\* While the writer works, what it holds, what is queued and what the reader
\* holds follow each other without overlap or hole from the last checkpoint
\* to the reader's cursor, or to the end of the table once the reader is
\* done.  The cursor that travels with a chunk (chunkMsg.next) is therefore
\* the right one to save after that chunk, although the reader is ahead.
PipelineInOrder ==
    main \in {"pipeline", "mark"} /\ writerPC # "failed" =>
      /\ writerPC \in {"write", "save"} => current.first = pass.done + 1
      /\ ch # <<>> => ch[1].first = HeadPos + 1
      /\ \A i \in 1..(Len(ch) - 1) : ch[i + 1].first = EndOf(ch[i]) + 1
      /\ readerPC \in {"read", "send"} => TailPos = cursor
      /\ readerPC = "send" => pending = ChunkAt(cursor)
      /\ readerPC \in {"close", "closed"} => TailPos = Rows

\* Chunks the process holds in memory: being sent, queued, being written.
InFlight ==
    Len(ch) + (IF readerPC = "send" THEN 1 ELSE 0)
            + (IF writerPC \in {"write", "save"} THEN 1 ELSE 0)

\* "Memory usage stays flat", README: at the average row size and with the
\* overhead factor, all chunks in flight together stay within the memory that
\* was free when the run began, unless the floor of minBatch rows set the
\* chunk size.  A quarter per chunk is enough because there are never more
\* than four: one in each goroutine and two in the channel.
ChunksFit ==
    main = "pipeline" /\ sizing.freeRAM > 0 /\ batch > MinBatch =>
        InFlight * batch * AvgRowBytes(sizing) * Overhead <= sizing.freeRAM

\* A resumed run never moves the checkpoint back: each save either advances
\* the cursor or is the last one of the table (SaveProgress with "[]").
CheckpointAdvances ==
    [][state.status = "progress" /\ state'.status = "progress" /\ state' # state
         => state'.cursor = 0 \/ state'.cursor > state.cursor]_vars

\* Only a run started with -force touches the record of a completed table.
OnlyForcedUncompletes ==
    [][state.status = "completed" /\ state' # state => forced]_vars

\* When the writer fails, transferTable returns: the reader cannot stay
\* blocked on a full channel, because its send also waits for gCtx.Done().
WriterFailureUnblocks == (writerPC = "failed") ~> (main # "pipeline")

\* Without a read error the pipeline always comes to an end: no lost close,
\* no send and receive waiting for each other.
ReturnsUnlessReadFails ==
    (main = "pipeline") ~> (main # "pipeline" \/ readerPC = "failed")

-----------------------------------------------------------------------------
(* What main and the next run rely on.                                     *)

\* The rows the reader may leave out: never the first, never two in a row.
SparseSets == {g \in SUBSET (1..Rows) : \A r \in g : r > 1 /\ r - 1 \notin g}

Promise == INSTANCE TableCopy WITH
    Pieces <- Rows, Excuses <- SparseSets, copied <- target,
    status <- state.status, upto <- state.cursor, excused <- claim.gaps

\* transferTable implements TableCopy: whatever the two goroutines, failures
\* and restarts do, seen through the table and its state row every step
\* copies rows, or advances a checkpoint that is true, or finishes; and of
\* two neighbouring rows at least one is copied.
CopiesTable == Promise!Spec

-----------------------------------------------------------------------------
(* What the documentation says and the code does not do.                   *)

\* README: "Goal: a one-to-one copy of the source database".
OneToOneCopy == state.status = "completed" => target = 1..Rows

\* README: "The process repeats until the table is done".
TransferReturns == (main = "pipeline") ~> (main # "pipeline")
=============================================================================
