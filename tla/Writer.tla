------------------------------- MODULE Writer -------------------------------
(***************************************************************************)
(* BulkUpsertWriter, for one table: WriteChunk looks the table up once per *)
(* process, then writes each chunk by BulkUpsert, or in one transaction of *)
(* several statements when the table has a synchronous index.  A call that *)
(* fails ends the run; the next process starts with empty caches and       *)
(* writes the same chunk again.                                            *)
(*                                                                         *)
(* Transactions and BulkUpsert belong to YDB and its SDK: BulkUpsert is    *)
(* not atomic; DoTx runs its function again, in a new transaction, after a *)
(* retriable error; the answer to a commit may be lost.                    *)
(***************************************************************************)
EXTENDS Integers, FiniteSets

CONSTANTS
    NumRows,    \* rows of a chunk
    NumChunks,  \* chunks of the table
    MaxRuns     \* bound: how many processes work on the table

ASSUME WriterAssumption ==
    NumRows \in Nat \ {0} /\ NumChunks \in Nat /\ MaxRuns \in Nat

VARIABLES
    (* YDB *)
    stored,      \* rows <<chunk, row>> in the table
    syncIndex,   \* the table has an index that is not GLOBAL ASYNC
    keysMatch,   \* its key columns are columns of the MySQL table
    (* the process *)
    runs,
    forceTxUpsert,
    checked,     \* tablePath is in checkedTables
    txOnly,      \* tablePath is in txOnlyTables
    chunk,       \* the chunk of the current or next call
    pc,          \* where WriteChunk is
    next,        \* transaction: first row of the next statement
    staged,      \* transaction: rows upserted and not committed
    (* history *)
    acked,       \* chunks WriteChunk returned without error
    bulked,      \* chunks a BulkUpsert failed on, halfway perhaps
    refused      \* BulkUpsert calls this process made in vain

ydb == <<stored, syncIndex, keysMatch>>
caches == <<runs, forceTxUpsert, checked, txOnly>>
transaction == <<next, staged>>
history == <<acked, bulked, refused>>
vars == <<ydb, caches, chunk, pc, transaction, history>>

RowsOf(c) == {c} \X (1..NumRows)

Init ==
    /\ stored = {} /\ syncIndex \in BOOLEAN /\ keysMatch \in BOOLEAN
    /\ runs = 0 /\ forceTxUpsert = FALSE /\ checked = FALSE /\ txOnly = FALSE
    /\ chunk = 1 /\ pc = "down"
    /\ next = 1 /\ staged = {}
    /\ acked = {} /\ bulked = {} /\ refused = 0

-----------------------------------------------------------------------------
(* The world around a call.                                                *)

\* NewBulkUpsertWriter in a new process, with or without -ydb-force-tx-upsert.
NewBulkUpsertWriter(force) ==
    /\ pc = "down" /\ runs < MaxRuns
    /\ runs' = runs + 1
    /\ forceTxUpsert' = force /\ checked' = FALSE /\ txOnly' = FALSE
    /\ pc' = "idle"
    /\ refused' = 0
    /\ UNCHANGED <<ydb, chunk, transaction, acked, bulked>>

\* Somebody adds a synchronous index while the import runs.
AddIndex ==
    /\ ~syncIndex
    /\ syncIndex' = TRUE
    /\ UNCHANGED <<stored, keysMatch, caches, chunk, pc, transaction, history>>

\* The next chunk arrives.
Call ==
    /\ pc = "idle" /\ chunk <= NumChunks
    /\ pc' = "check"
    /\ UNCHANGED <<ydb, caches, chunk, transaction, history>>

\* WriteChunk returns len(rows), nil.
Ok ==
    /\ pc' = "idle" /\ chunk' = chunk + 1
    /\ acked' = acked \cup {chunk}
    /\ next' = 1 /\ staged' = {}

\* WriteChunk returns an error, and the process ends.
Error ==
    /\ pc' = "down"
    /\ next' = 1 /\ staged' = {}
    /\ UNCHANGED <<chunk, acked>>

-----------------------------------------------------------------------------
(* checkYDBKeyColumns.                                                     *)

CheckCached ==
    /\ pc = "check" /\ checked
    /\ pc' = "choose"
    /\ UNCHANGED <<ydb, caches, chunk, transaction, history>>

\* DescribeTable succeeds and the key columns match: fill the caches.
Describe ==
    /\ pc = "check" /\ ~checked /\ keysMatch
    /\ checked' = TRUE
    /\ txOnly' = (txOnly \/ syncIndex)
    /\ pc' = "choose"
    /\ UNCHANGED <<ydb, runs, forceTxUpsert, chunk, transaction, history>>

\* A key column is missing, or DescribeTable fails.
DescribeError ==
    /\ pc = "check" /\ ~checked
    /\ Error
    /\ UNCHANGED <<ydb, caches, bulked, refused>>

-----------------------------------------------------------------------------
(* BulkUpsert.                                                             *)

Choose ==
    /\ pc = "choose"
    /\ pc' = IF forceTxUpsert \/ txOnly THEN "describe" ELSE "bulk"
    /\ UNCHANGED <<ydb, caches, chunk, transaction, history>>

\* A value cannot be converted: nothing is sent.
ConvertError ==
    /\ pc = "bulk"
    /\ Error
    /\ UNCHANGED <<ydb, caches, bulked, refused>>

BulkUpsert ==
    /\ pc = "bulk" /\ ~syncIndex
    /\ stored' = stored \cup RowsOf(chunk)
    /\ Ok
    /\ UNCHANGED <<syncIndex, keysMatch, caches, bulked, refused>>

BulkError ==
    /\ pc = "bulk" /\ ~syncIndex
    /\ \E part \in SUBSET RowsOf(chunk) : stored' = stored \cup part
    /\ Error
    /\ bulked' = bulked \cup {chunk}
    /\ UNCHANGED <<syncIndex, keysMatch, caches, refused>>

\* Mutant of BulkRefused: the table is not remembered as txOnly.
BulkRefusedForgotten ==
    /\ pc = "bulk" /\ syncIndex
    /\ pc' = "describe"
    /\ refused' = refused + 1
    /\ UNCHANGED <<ydb, caches, chunk, transaction, acked, bulked>>

\* "Only async-indexed tables are supported": fall back to a transaction.
BulkRefused ==
    /\ pc = "bulk" /\ syncIndex
    /\ txOnly' = TRUE
    /\ pc' = "describe"
    /\ refused' = refused + 1
    /\ UNCHANGED <<ydb, runs, forceTxUpsert, checked, chunk, transaction, acked, bulked>>

-----------------------------------------------------------------------------
(* writeChunkTx.                                                           *)

\* DescribeTable, then partitionRowsBySize; the transaction begins.
BeginTx ==
    /\ pc = "describe"
    /\ pc' = "tx"
    /\ next' = 1 /\ staged' = {}
    /\ UNCHANGED <<ydb, caches, chunk, history>>

BeginTxError ==
    /\ pc = "describe"
    /\ Error
    /\ UNCHANGED <<ydb, caches, bulked, refused>>

\* Mutant of Exec: the last batch is sent without WithCommit.
ExecLastUncommitted(k) ==
    /\ pc = "tx" /\ k >= next /\ k <= NumRows
    /\ staged' = staged \cup ({chunk} \X (next..k))
    /\ next' = k + 1
    /\ UNCHANGED <<ydb, caches, chunk, pc, history>>

\* Mutant of Exec: every batch is sent WithCommit.
ExecCommitsEach(k) ==
    /\ pc = "tx" /\ k >= next /\ k < NumRows
    /\ stored' = stored \cup ({chunk} \X (next..k))
    /\ next' = k + 1
    /\ UNCHANGED <<syncIndex, keysMatch, caches, chunk, pc, staged, history>>

\* tx.Exec of a batch that is not the last one, up to row k.
Exec(k) ==
    /\ pc = "tx" /\ k >= next /\ k < NumRows
    /\ staged' = staged \cup ({chunk} \X (next..k))
    /\ next' = k + 1
    /\ UNCHANGED <<ydb, caches, chunk, pc, history>>

\* The rows of the last batch.
LastBatch == {chunk} \X (next..NumRows)

\* tx.Exec of the last batch, WithCommit.
ExecCommit ==
    /\ pc = "tx"
    /\ stored' = stored \cup staged \cup LastBatch
    /\ Ok
    /\ UNCHANGED <<syncIndex, keysMatch, caches, bulked, refused>>

\* Mutant of Retry: the function goes on where the last attempt stopped.
RetryInPlace ==
    /\ pc = "tx"
    /\ staged' = {}
    /\ UNCHANGED <<ydb, caches, chunk, pc, next, history>>

\* A retriable error: the transaction is rolled back and run again.
Retry ==
    /\ pc = "tx"
    /\ next' = 1 /\ staged' = {}
    /\ UNCHANGED <<ydb, caches, chunk, pc, history>>

\* The commit is carried out but its answer is lost: the transaction is run
\* again, or the context is over and the error returned.
CommitUnknown ==
    /\ pc = "tx"
    /\ stored' = stored \cup staged \cup LastBatch
    /\ \/ next' = 1 /\ staged' = {} /\ UNCHANGED <<pc, chunk, acked>>
       \/ Error
    /\ UNCHANGED <<syncIndex, keysMatch, caches, bulked, refused>>

\* DoTx gives up: a conversion error, a rejected statement, a dead context.
TxError ==
    /\ pc = "tx"
    /\ Error
    /\ UNCHANGED <<ydb, caches, bulked, refused>>

-----------------------------------------------------------------------------
Next ==
    \/ \E force \in BOOLEAN : NewBulkUpsertWriter(force)
    \/ AddIndex \/ Call
    \/ CheckCached \/ Describe \/ DescribeError
    \/ Choose \/ ConvertError \/ BulkUpsert \/ BulkError \/ BulkRefused
    \/ BeginTx \/ BeginTxError \/ (\E k \in 1..NumRows : Exec(k)) \/ ExecCommit
    \/ Retry \/ CommitUnknown \/ TxError

Spec == Init /\ [][Next]_vars

-----------------------------------------------------------------------------
(* Properties.                                                             *)

TypeOK ==
    /\ stored \subseteq (1..NumChunks) \X (1..NumRows)
    /\ syncIndex \in BOOLEAN /\ keysMatch \in BOOLEAN
    /\ runs \in 0..MaxRuns
    /\ forceTxUpsert \in BOOLEAN /\ checked \in BOOLEAN /\ txOnly \in BOOLEAN
    /\ chunk \in 1..(NumChunks + 1)
    /\ pc \in {"down", "idle", "check", "choose", "bulk", "describe", "tx"}
    /\ next \in 1..NumRows
    /\ staged \subseteq RowsOf(chunk)
    /\ acked \subseteq 1..NumChunks /\ bulked \subseteq 1..NumChunks
    /\ refused \in Nat

\* When WriteChunk reports success the whole chunk is in YDB, by whichever
\* path, however many attempts and lost answers it took.
AckedIsStored == \A c \in acked : RowsOf(c) \subseteq stored

\* A chunk that only ever went through transactions is in YDB as a whole or
\* not at all, although it takes several statements (writeChunkTx commits
\* with the last one, and a retry starts over).
TxAllOrNothing ==
    \A c \in (1..NumChunks) \ bulked :
        RowsOf(c) \subseteq stored \/ RowsOf(c) \cap stored = {}

\* A process finds out at most once that the table has to be written in
\* transactions, even when the index appears after the table was looked up.
OneRefusal == refused <= 1
=============================================================================
