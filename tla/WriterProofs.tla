---------------------------- MODULE WriterProofs ----------------------------
(* Theorems about Writer, for any number of chunks, rows per chunk and     *)
(* processes.                                                              *)
EXTENDS Writer, TLAPS

-----------------------------------------------------------------------------
(* The inductive invariant.                                                *)

\* A call works on a chunk of the table.
CallHasChunk == pc \notin {"down", "idle"} => chunk <= NumChunks

\* What a transaction has staged are the rows before the next statement's.
StagedPrefix == staged = {chunk} \X (1..(next - 1))

\* A refusal is remembered, and a remembered one keeps BulkUpsert away.
RefusalKept ==
    /\ refused = 0 \/ (refused = 1 /\ txOnly)
    /\ pc = "bulk" => ~txOnly

WriterInv ==
    /\ TypeOK /\ CallHasChunk /\ StagedPrefix /\ RefusalKept
    /\ AckedIsStored /\ TxAllOrNothing

-----------------------------------------------------------------------------

(* The provers treat the flags apart from the rest of the types.           *)
FlagsOK ==
    /\ syncIndex \in BOOLEAN /\ keysMatch \in BOOLEAN
    /\ forceTxUpsert \in BOOLEAN /\ checked \in BOOLEAN /\ txOnly \in BOOLEAN

DataOK ==
    /\ stored \subseteq (1..NumChunks) \X (1..NumRows)
    /\ runs \in 0..MaxRuns
    /\ chunk \in 1..(NumChunks + 1)
    /\ pc \in {"down", "idle", "check", "choose", "bulk", "describe", "tx"}
    /\ next \in 1..NumRows
    /\ staged \subseteq RowsOf(chunk)
    /\ acked \subseteq 1..NumChunks /\ bulked \subseteq 1..NumChunks

\* Flags keep their type.
LEMMA FlagsStep == FlagsOK /\ [Next]_vars => FlagsOK'
<1> SUFFICES ASSUME FlagsOK, [Next]_vars PROVE FlagsOK'
  OBVIOUS
<1> USE DEF FlagsOK, ydb, caches
<1>1. ASSUME NEW force \in BOOLEAN, NewBulkUpsertWriter(force) PROVE FlagsOK'
  BY <1>1, Zenon DEF NewBulkUpsertWriter
<1>2. ASSUME Describe PROVE FlagsOK'
  <2>1. (txOnly \/ syncIndex) \in BOOLEAN
    OBVIOUS
  <2> QED
    BY <1>2, <2>1, Zenon DEF Describe
<1>3. ASSUME AddIndex \/ BulkRefused PROVE FlagsOK'
  BY <1>3, Zenon DEF AddIndex, BulkRefused
<1>4. ASSUME UNCHANGED <<syncIndex, keysMatch, caches>> PROVE FlagsOK'
  BY <1>4, Zenon
<1> QED
  BY <1>1, <1>2, <1>3, <1>4, Zenon
  DEF Next, vars, Call, CheckCached, DescribeError, Choose, ConvertError, BulkUpsert,
      BulkError, BeginTx, BeginTxError, Exec, ExecCommit, Retry, CommitUnknown, TxError

\* A process asks BulkUpsert in vain once at most.
LEMMA RefusalStep == RefusalKept /\ [Next]_vars => RefusalKept'
<1> SUFFICES ASSUME RefusalKept, [Next]_vars PROVE RefusalKept'
  OBVIOUS
<1> USE DEF RefusalKept, ydb, caches, history
<1>1. ASSUME NEW force \in BOOLEAN, NewBulkUpsertWriter(force) PROVE RefusalKept'
  BY <1>1, Zenon DEF NewBulkUpsertWriter
<1>2. ASSUME Describe \/ Choose PROVE RefusalKept'
  <2>1. refused' = refused /\ (txOnly => txOnly') /\ (pc' = "bulk" => ~txOnly')
    <3>1. CASE Describe
      <4>1. "choose" # "bulk"
        OBVIOUS
      <4> QED
        BY <1>2, <3>1, <4>1, Zenon DEF Describe
    <3>2. CASE Choose
      <4>1. "describe" # "bulk"
        OBVIOUS
      <4> QED
        BY <1>2, <3>2, <4>1, Zenon DEF Choose
    <3> QED
      BY <1>2, <3>1, <3>2
  <2> QED
    BY <2>1, Zenon
<1>3. ASSUME BulkRefused PROVE RefusalKept'
  <2>1. refused = 0
    BY <1>3, Zenon DEF BulkRefused
  <2>2. refused' = 1 /\ txOnly' /\ pc' # "bulk"
    BY <1>3, <2>1 DEF BulkRefused
  <2> QED
    BY <2>2, Zenon
<1>4. ASSUME UNCHANGED <<txOnly, refused>>, pc' = pc \/ pc' # "bulk" PROVE RefusalKept'
  BY <1>4, Zenon
<1> QED
  BY <1>1, <1>2, <1>3, <1>4
  DEF Next, vars, AddIndex, Call, CheckCached, DescribeError, ConvertError, BulkUpsert,
      BulkError, BeginTx, BeginTxError, Exec, ExecCommit, Retry, CommitUnknown, TxError, Ok,
      Error

\* The other types, CallHasChunk and StagedPrefix are preserved.
LEMMA DataStep ==
    ASSUME DataOK, CallHasChunk, StagedPrefix, [Next]_vars
    PROVE  DataOK' /\ CallHasChunk' /\ StagedPrefix'
<1> DEFINE Goal == DataOK /\ CallHasChunk /\ StagedPrefix
<1> USE WriterAssumption DEF ydb, caches, transaction, history, DataOK, CallHasChunk
<1>1. ASSUME UNCHANGED <<chunk, next, staged>>
      PROVE  StagedPrefix' /\ staged' \subseteq RowsOf(chunk')
  BY <1>1 DEF StagedPrefix
<1>2. ASSUME next' = 1, staged' = {} PROVE StagedPrefix' /\ staged' \subseteq RowsOf(chunk')
  <2>1. 1..(1 - 1) = {}
    OBVIOUS
  <2>2. {chunk'} \X {} = {}
    OBVIOUS
  <2> QED
    BY <1>2, <2>1, <2>2 DEF StagedPrefix
<1>3. ASSUME UNCHANGED <<stored, runs, chunk, next, staged, acked, bulked>>,
             pc \notin {"down", "idle"}, pc' \in {"choose", "bulk", "describe"}
      PROVE  Goal'
  BY <1>1, <1>3
<1>4. ASSUME CheckCached \/ Describe \/ Choose \/ BulkRefused PROVE Goal'
  <2>1. UNCHANGED <<stored, runs, chunk, next, staged, acked, bulked>>
    BY <1>4, Zenon DEF CheckCached, Describe, Choose, BulkRefused
  <2>2. pc \in {"check", "choose", "bulk"} /\ pc' \in {"choose", "bulk", "describe"}
    BY <1>4, Zenon DEF CheckCached, Describe, Choose, BulkRefused
  <2> QED
    BY <1>3, <2>1, <2>2
<1>5. ASSUME UNCHANGED <<stored, chunk, acked, bulked>>, runs' \in 0..MaxRuns,
             UNCHANGED <<next, staged>> \/ (next' = 1 /\ staged' = {}),
             pc' \in {"down", "idle"} \/ pc' = pc \/ (pc' = "tx" /\ pc = "describe")
               \/ (pc' = "check" /\ chunk <= NumChunks)
      PROVE  Goal'
  BY <1>1, <1>2, <1>5
<1>6. ASSUME DescribeError \/ ConvertError \/ BeginTxError \/ TxError \/ BeginTx \/ Retry
       PROVE  Goal'
  BY <1>5, <1>6 DEF DescribeError, ConvertError, BeginTxError, TxError, Error, BeginTx, Retry
<1>7. ASSUME (\E force \in BOOLEAN : NewBulkUpsertWriter(force)) \/ AddIndex \/ Call
              \/ UNCHANGED vars
       PROVE  Goal'
  <2>1. UNCHANGED <<stored, chunk, acked, bulked, next, staged>>
    BY <1>7, Zenon DEF NewBulkUpsertWriter, AddIndex, Call, vars
  <2>2. runs' = runs \/ (runs < MaxRuns /\ runs' = runs + 1)
    BY <1>7, Zenon DEF NewBulkUpsertWriter, AddIndex, Call, vars
  <2>3. pc' = "idle" \/ pc' = pc \/ (pc' = "check" /\ chunk <= NumChunks)
    BY <1>7, Zenon DEF NewBulkUpsertWriter, AddIndex, Call, vars
  <2> QED
    BY <1>5, <2>1, <2>2, <2>3
<1>8. ASSUME chunk \in 1..NumChunks
      PROVE  RowsOf(chunk) \subseteq (1..NumChunks) \X (1..NumRows)
  BY <1>8 DEF RowsOf
<1>9. ASSUME BulkUpsert PROVE Goal'
  BY <1>2, <1>8, <1>9 DEF BulkUpsert, Ok
<1>10. ASSUME BulkError PROVE Goal'
  BY <1>2, <1>8, <1>10 DEF BulkError, Error
<1>11. ASSUME NEW k \in 1..NumRows, Exec(k) PROVE Goal'
  <2>1. staged' = {chunk} \X (1..k)
    BY <1>11 DEF Exec, StagedPrefix
  <2>2. StagedPrefix'
    BY <1>11, <2>1 DEF Exec, StagedPrefix
  <2>3. staged' \subseteq RowsOf(chunk)
    BY <2>1 DEF RowsOf
  <2> QED
    BY <1>11, <2>2, <2>3 DEF Exec, RowsOf
<1>12. LastBatch \subseteq RowsOf(chunk)
  BY DEF LastBatch, RowsOf
<1>13. ASSUME ExecCommit PROVE Goal'
  BY <1>2, <1>8, <1>12, <1>13 DEF ExecCommit, Ok
<1>14. ASSUME CommitUnknown PROVE Goal'
  <2>1. pc = "tx" /\ stored' = stored \cup staged \cup LastBatch /\ UNCHANGED <<runs, bulked>>
    BY <1>14 DEF CommitUnknown
  <2>2. next' = 1 /\ staged' = {} /\ UNCHANGED <<chunk, acked>> /\ pc' \in {"tx", "down"}
    BY <1>14, <2>1 DEF CommitUnknown, Error
  <2> QED
    BY <1>2, <1>8, <1>12, <2>1, <2>2
<1> QED
  BY <1>4, <1>9, <1>10, <1>11, <1>13, <1>14, <1>6, <1>7 DEF Next

\* The rows staged so far and those of the last batch are the whole chunk.
LEMMA WholeChunk ==
    ASSUME DataOK, StagedPrefix PROVE staged \cup LastBatch = RowsOf(chunk)
<1>1. next \in 1..NumRows /\ NumRows \in Nat
  BY WriterAssumption DEF DataOK
<1>2. (1..(next - 1)) \cup (next..NumRows) = 1..NumRows
  BY <1>1
<1> QED
  BY <1>2 DEF StagedPrefix, LastBatch, RowsOf

\* What a step does to the table and to its history: nothing, a whole chunk,
\* or a part of a chunk on which a BulkUpsert failed.
Quiet == UNCHANGED <<stored, acked, bulked>>

WholeStored ==
    /\ stored' = stored \cup RowsOf(chunk)
    /\ acked' \subseteq acked \cup {chunk}
    /\ bulked' = bulked

PartStored ==
    /\ \E part \in SUBSET RowsOf(chunk) : stored' = stored \cup part
    /\ acked' = acked
    /\ bulked' = bulked \cup {chunk}

LEMMA StoreKinds ==
    ASSUME DataOK, StagedPrefix, [Next]_vars
    PROVE  Quiet \/ WholeStored \/ PartStored
<1> USE DEF ydb, history
<1>1. ASSUME BulkUpsert PROVE WholeStored
  BY <1>1 DEF BulkUpsert, Ok, WholeStored
<1>2. ASSUME BulkError PROVE PartStored
  BY <1>2 DEF BulkError, Error, PartStored
<1>3. ASSUME ExecCommit PROVE WholeStored
  <2>1. stored' = stored \cup (staged \cup LastBatch)
    BY <1>3 DEF ExecCommit
  <2> QED
    BY <1>3, <2>1, WholeChunk DEF ExecCommit, Ok, WholeStored
<1>4. ASSUME CommitUnknown PROVE WholeStored
  <2>1. stored' = stored \cup (staged \cup LastBatch)
    BY <1>4 DEF CommitUnknown
  <2> QED
    BY <1>4, <2>1, WholeChunk DEF CommitUnknown, Error, WholeStored
<1>5. ASSUME (\E force \in BOOLEAN : NewBulkUpsertWriter(force)) \/ AddIndex \/ Call
              \/ UNCHANGED vars \/ CheckCached \/ Describe \/ Choose \/ BulkRefused
       PROVE  Quiet
  BY <1>5, Zenon DEF NewBulkUpsertWriter, AddIndex, Call, vars, CheckCached, Describe, Choose,
                     BulkRefused, Quiet
<1>6. ASSUME DescribeError \/ ConvertError \/ BeginTx \/ BeginTxError
              \/ (\E k \in 1..NumRows : Exec(k)) \/ Retry \/ TxError
       PROVE  Quiet
  BY <1>6, Zenon DEF DescribeError, ConvertError, BeginTx, BeginTxError, Exec, Retry, TxError,
                     Error, Quiet
<1> QED
  BY <1>1, <1>2, <1>3, <1>4, <1>5, <1>6, Zenon DEF Next

\* What was acknowledged stays stored, and a chunk is stored whole or not at
\* all unless a BulkUpsert failed on it.
LEMMA StoredStep ==
    ASSUME DataOK, StagedPrefix, AckedIsStored, TxAllOrNothing, [Next]_vars
    PROVE  AckedIsStored' /\ TxAllOrNothing'
<1>1. CASE Quiet
  BY <1>1 DEF Quiet, AckedIsStored, TxAllOrNothing, RowsOf
<1>2. CASE WholeStored
  <2>1. AckedIsStored'
    BY <1>2 DEF WholeStored, AckedIsStored, RowsOf
  <2>2. ASSUME NEW c \in (1..NumChunks) \ bulked'
        PROVE  RowsOf(c) \subseteq stored' \/ RowsOf(c) \cap stored' = {}
    <3>1. CASE c = chunk
      BY <1>2, <3>1 DEF WholeStored
    <3>2. CASE c # chunk
      <4>1. RowsOf(c) \cap RowsOf(chunk) = {}
        BY <3>2 DEF RowsOf
      <4>2. RowsOf(c) \subseteq stored \/ RowsOf(c) \cap stored = {}
        BY <1>2, <2>2 DEF WholeStored, TxAllOrNothing
      <4> QED
        BY <1>2, <4>1, <4>2 DEF WholeStored
    <3> QED
      BY <3>1, <3>2
  <2> QED
    BY <2>1, <2>2 DEF TxAllOrNothing, RowsOf
<1>3. CASE PartStored
  <2>1. PICK part \in SUBSET RowsOf(chunk) : stored' = stored \cup part
    BY <1>3 DEF PartStored
  <2>2. AckedIsStored'
    BY <1>3, <2>1 DEF PartStored, AckedIsStored, RowsOf
  <2>3. ASSUME NEW c \in (1..NumChunks) \ bulked'
        PROVE  RowsOf(c) \subseteq stored' \/ RowsOf(c) \cap stored' = {}
    <3>1. c # chunk /\ c \in (1..NumChunks) \ bulked
      BY <1>3, <2>3 DEF PartStored
    <3>2. RowsOf(c) \cap RowsOf(chunk) = {}
      BY <3>1 DEF RowsOf
    <3>3. RowsOf(c) \subseteq stored \/ RowsOf(c) \cap stored = {}
      BY <3>1 DEF TxAllOrNothing
    <3> QED
      BY <2>1, <3>2, <3>3
  <2> QED
    BY <2>2, <2>3 DEF TxAllOrNothing, RowsOf
<1> QED
  BY <1>1, <1>2, <1>3, StoreKinds

-----------------------------------------------------------------------------

\* WriterInv is inductive.
LEMMA WriterInvariant == Spec => []WriterInv
<1>1. ASSUME Init PROVE WriterInv
  <2>1. FlagsOK
    BY <1>1, Zenon DEF Init, FlagsOK
  <2>2. /\ stored = {} /\ runs = 0 /\ chunk = 1 /\ pc = "down"
        /\ next = 1 /\ staged = {} /\ acked = {} /\ bulked = {} /\ refused = 0
    BY <1>1, Zenon DEF Init
  <2>3. DataOK /\ refused \in Nat /\ CallHasChunk
    BY <2>2, WriterAssumption DEF DataOK, CallHasChunk
  <2>4. StagedPrefix
    BY <2>2 DEF StagedPrefix
  <2>5. RefusalKept
    BY <2>2 DEF RefusalKept
  <2>6. AckedIsStored /\ TxAllOrNothing
    BY <2>2 DEF AckedIsStored, TxAllOrNothing
  <2>7. TypeOK
    BY <2>1, <2>3, Zenon DEF TypeOK, DataOK, FlagsOK
  <2> QED
    BY <2>3, <2>4, <2>5, <2>6, <2>7 DEF WriterInv
<1>2. TypeOK <=> DataOK /\ FlagsOK /\ refused \in Nat
  BY Zenon DEF TypeOK, DataOK, FlagsOK
<1>3. ASSUME WriterInv, [Next]_vars PROVE WriterInv'
  <2> USE DEF WriterInv
  <2>1. FlagsOK'
    BY <1>2, <1>3, FlagsStep
  <2>2. DataOK' /\ CallHasChunk' /\ StagedPrefix'
    BY <1>2, <1>3, DataStep
  <2>3. RefusalKept'
    BY <1>3, RefusalStep
  <2>4. AckedIsStored' /\ TxAllOrNothing'
    BY <1>2, <1>3, StoredStep
  <2>5. (refused \in Nat)'
    BY <2>3 DEF RefusalKept
  <2>6. TypeOK'
    BY <2>1, <2>2, <2>5, Zenon DEF TypeOK, DataOK, FlagsOK
  <2> QED
    BY <2>2, <2>3, <2>4, <2>6
<1> QED
  BY <1>1, <1>3, PTL DEF Spec

\* Type correctness.
THEOREM WriterTypes == Spec => []TypeOK
<1>1. WriterInv => TypeOK
  BY DEF WriterInv
<1> QED
  BY <1>1, WriterInvariant, PTL

\* When WriteChunk reports success the whole chunk is in YDB, by whichever
\* path, however many attempts and lost answers it took.
THEOREM AckedTheorem == Spec => []AckedIsStored
<1>1. WriterInv => AckedIsStored
  BY DEF WriterInv
<1> QED
  BY <1>1, WriterInvariant, PTL

\* A chunk that only went through transactions is in YDB whole or not at all.
THEOREM AtomicTheorem == Spec => []TxAllOrNothing
<1>1. WriterInv => TxAllOrNothing
  BY DEF WriterInv
<1> QED
  BY <1>1, WriterInvariant, PTL

\* A process tries BulkUpsert in vain at most once.
THEOREM RefusalTheorem == Spec => []OneRefusal
<1>1. WriterInv => OneRefusal
  BY DEF WriterInv, RefusalKept, OneRefusal
<1> QED
  BY <1>1, WriterInvariant, PTL
=============================================================================
