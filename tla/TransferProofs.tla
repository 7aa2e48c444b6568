-------------------------- MODULE TransferProofs --------------------------
(* Theorems about Transfer, for every table, key, chunk size and number of *)
(* runs.                                                                   *)
EXTENDS Transfer, FiniteSetTheorems, TLAPS

-----------------------------------------------------------------------------
(* The chunk size, for every flag, memory and table size.                  *)

\* Integer division by a positive number, for factors that are not constants.
LEMMA Division ==
    ASSUME NEW x \in Nat, NEW y \in Nat \ {0}
    PROVE  /\ x \div y \in Nat
           /\ (x \div y) * y <= x
           /\ x >= y => x \div y >= 1
OBVIOUS

\* The average row size is positive, so that nothing is divided by 0.
LEMMA AvgPositive ==
    ASSUME NEW z \in Sizing
    PROVE  AvgRowBytes(z) \in Nat \ {0}
<1>1. CASE SizeKnown(z) /\ z.dataLen >= z.rowCount
  <2>1. z.dataLen \in Nat /\ z.rowCount \in Nat \ {0}
    BY <1>1 DEF Sizing, SizeKnown
  <2>2. z.dataLen \div z.rowCount \in Nat /\ z.dataLen \div z.rowCount >= 1
    BY <1>1, <2>1, Division
  <2> QED
    BY <1>1, <2>2 DEF AvgRowBytes
<1>2. CASE ~(SizeKnown(z) /\ z.dataLen >= z.rowCount)
  BY <1>2, SizesAssumption DEF AvgRowBytes
<1> QED
  BY <1>1, <1>2

\* A chunk has at least one row, so that paging always makes progress, and
\* never more than either flag allows, whatever the memory and the sizes
\* reported by information_schema are.
THEOREM BatchTheorem ==
    ASSUME NEW z \in Sizing
    PROVE  /\ batchSizeForTable(z) \in Nat \ {0}
           /\ batchSizeForTable(z) <= ConfigBatch
           /\ batchSizeForTable(z) <= MaxChunkRows
<1> DEFINE flags == AtMost(MaxChunkRows, ConfigBatch)
           network == NetworkCap(z, flags)
<1>1. flags \in Nat \ {0} /\ flags <= ConfigBatch /\ flags <= MaxChunkRows
  BY FlagsAssumption DEF AtMost
<1>2. network \in Nat \ {0} /\ network <= flags
  <2>1. NetworkBytes \div AvgRowBytes(z) \in Nat
    BY AvgPositive, Division, SizesAssumption
  <2> QED
    BY <1>1, <2>1 DEF NetworkCap, AtMost
<1>3. MemSafeBatch(z) \in Nat \ {0}
  <2>1. z.freeRAM \div RAMShare \in Nat
    BY Division DEF Sizing, RAMShare
  <2>2. AvgRowBytes(z) * Overhead \in Nat \ {0}
    BY AvgPositive DEF Overhead
  <2>3. (z.freeRAM \div RAMShare) \div (AvgRowBytes(z) * Overhead) \in Nat
    BY <2>1, <2>2, Division
  <2> QED
    BY <2>3, SizesAssumption DEF MemSafeBatch
<1>4. batchSizeForTable(z) = MemoryCap(z, network)
  BY Zenon DEF batchSizeForTable
<1> HIDE DEF network, flags
<1>5. batchSizeForTable(z) \in Nat \ {0} /\ batchSizeForTable(z) <= network
  BY <1>2, <1>3, <1>4 DEF MemoryCap, AtMost
<1> QED
  BY <1>1, <1>2, <1>5, FlagsAssumption

\* A quarter of the memory that was free is enough for a chunk at the average
\* row size and with the overhead factor, unless the chunk is no larger than
\* the floor of minBatch rows, which overrides the memory.
THEOREM MemoryTheorem ==
    ASSUME NEW z \in Sizing, z.freeRAM > 0, batchSizeForTable(z) > MinBatch
    PROVE  RAMShare * (batchSizeForTable(z) * (AvgRowBytes(z) * Overhead)) <= z.freeRAM
<1> DEFINE b == batchSizeForTable(z)
           avg == AvgRowBytes(z) * Overhead
           share == z.freeRAM \div RAMShare
<1>1. b \in Nat /\ avg \in Nat \ {0} /\ share \in Nat /\ z.freeRAM \in Nat
  BY BatchTheorem, AvgPositive, Division DEF Overhead, RAMShare, Sizing
<1>2. b <= share \div avg
  <2>1. b <= MemSafeBatch(z)
    <3>1. MemSafeBatch(z) \in Nat
      BY <1>1, Division, SizesAssumption DEF MemSafeBatch
    <3> QED
      BY <1>1, <3>1 DEF batchSizeForTable, MemoryCap, AtMost
  <2> QED
    BY <1>1, <2>1, SizesAssumption DEF MemSafeBatch
<1>3. b * avg <= share
  <2>1. share \div avg \in Nat /\ (share \div avg) * avg <= share
    BY <1>1, Division
  <2> HIDE DEF b, avg, share
  <2>2. b * avg <= (share \div avg) * avg
    BY <1>1, <1>2, <2>1
  <2> QED
    BY <1>1, <2>1, <2>2
<1>4. RAMShare * share <= z.freeRAM
  BY <1>1 DEF RAMShare
<1> HIDE DEF b, avg, share
<1>5. RAMShare * (b * avg) <= RAMShare * share
  BY <1>1, <1>3 DEF RAMShare
<1>6. b * avg \in Nat
  BY <1>1
<1>7. RAMShare * (b * avg) <= z.freeRAM
  BY <1>1, <1>4, <1>5, <1>6 DEF RAMShare
<1> QED
  BY <1>7 DEF b, avg

\* One chunk stays within the network budget at the average row size, unless
\* a single row of that size is already larger than the budget.
THEOREM NetworkTheorem ==
    ASSUME NEW z \in Sizing, SizeKnown(z), AvgRowBytes(z) <= NetworkBytes
    PROVE  batchSizeForTable(z) * AvgRowBytes(z) <= NetworkBytes
<1> DEFINE b == batchSizeForTable(z)
           avg == AvgRowBytes(z)
           limit == NetworkBytes \div avg
<1>1. b \in Nat /\ avg \in Nat \ {0} /\ NetworkBytes \in Nat
  BY BatchTheorem, AvgPositive, SizesAssumption
<1>2. limit \in Nat /\ limit >= 1 /\ limit * avg <= NetworkBytes
  BY <1>1, Division
<1>3. b <= limit
  <2>1. AtMost(MaxChunkRows, ConfigBatch) \in Nat
    BY FlagsAssumption DEF AtMost
  <2>2. /\ NetworkCap(z, AtMost(MaxChunkRows, ConfigBatch)) <= limit
        /\ NetworkCap(z, AtMost(MaxChunkRows, ConfigBatch)) \in Nat
    BY <1>2, <2>1 DEF NetworkCap, AtMost
  <2>3. MemSafeBatch(z) \in Nat
    BY AvgPositive, Division, SizesAssumption DEF MemSafeBatch, Sizing, RAMShare, Overhead
  <2> QED
    BY <1>2, <2>2, <2>3 DEF batchSizeForTable, MemoryCap, AtMost
<1> HIDE DEF b, avg, limit
<1>4. b * avg <= limit * avg
  BY <1>1, <1>2, <1>3
<1>5. b * avg <= NetworkBytes
  BY <1>1, <1>2, <1>4
<1> QED
  BY <1>5 DEF b, avg

-----------------------------------------------------------------------------
(* Lemmas about the operators.                                             *)

\* A restored cursor is a position of the table, whatever float64 did to it.
LEMMA RestoredType ==
    ASSUME NEW c \in 0..Rows
    PROVE  Restored(c) \subseteq 0..Rows
<1>1. ASSUME NEW v PROVE PositionOf(v) \in 0..Rows
  <2>1. IsFiniteSet(1..Rows) /\ Cardinality(1..Rows) = Rows
    BY FS_Interval, RowsAssumption
  <2>2. {r \in 1..Rows : Key[r] <= v} \subseteq 1..Rows
    OBVIOUS
  <2>3. /\ IsFiniteSet({r \in 1..Rows : Key[r] <= v})
        /\ Cardinality({r \in 1..Rows : Key[r] <= v}) <= Rows
    BY <2>1, <2>2, FS_Subset
  <2> QED
    BY <2>3, FS_CardinalityType, RowsAssumption DEF PositionOf
<1> QED
  BY <1>1 DEF Restored

\* With keys that survive the encoding the saved cursor is restored.
LEMMA RestoredExact ==
    ASSUME KeysExact, NEW c \in 0..Rows
    PROVE  Restored(c) = {c}
<1>1. CASE c = 0 \/ NumPK = 0
  BY <1>1 DEF Restored
<1>2. CASE ~(c = 0 \/ NumPK = 0)
  <2>1. c \in 1..Rows
    BY <1>2, RowsAssumption
  <2>2. Decoded(Key[c]) = {Key[c]}
    BY <1>2, <2>1 DEF KeysExact
  <2>3. {r \in 1..Rows : Key[r] <= Key[c]} = 1..c
    <3>1. ASSUME NEW r \in 1..Rows PROVE Key[r] <= Key[c] <=> r <= c
      <4>1. Key[r] \in Int /\ Key[c] \in Int
        <5>1. (IF KeyKind = "bytes" THEN 0..255 ELSE Int) \subseteq Int
          OBVIOUS
        <5> QED
          BY <2>1, <5>1, KeyAssumption
      <4>2. r < c => Key[r] < Key[c]
        BY <2>1, KeyAssumption
      <4>3. c < r => Key[c] < Key[r]
        BY <2>1, KeyAssumption
      <4> QED
        BY <4>1, <4>2, <4>3, <2>1
    <3> QED
      BY <3>1, <2>1, RowsAssumption
  <2>4. Cardinality(1..c) = c
    BY <2>1, FS_Interval, RowsAssumption
  <2> QED
    BY <1>2, <2>2, <2>3, <2>4 DEF Restored, PositionOf
<1> QED
  BY <1>1, <1>2

\* What a chunk that ReadChunk returns looks like.
LEMMA ChunkAtType ==
    ASSUME NEW c \in 0..Rows, batch \in Nat \ {0},
           ChunkAt(c).first <= ChunkAt(c).last
    PROVE  /\ ChunkAt(c) \in Chunks
           /\ ChunkAt(c).first = c + 1
           /\ ChunkAt(c).next # 0 => ChunkAt(c).next > c
           /\ ChunkAt(c).next = 0 => ChunkAt(c).last = Rows
<1> USE RowsAssumption, NumPKAssumption
<1>1. CASE HasMore(c)
  <2>1. NextCursor(c) \in 1..Rows /\ NextCursor(c) >= c + batch
    BY <1>1 DEF HasMore, NextCursor
  <2>2. ChunkAt(c) = [first |-> c + 1, last |-> c + batch, next |-> NextCursor(c)]
    BY <1>1 DEF ChunkAt
  <2>3. c + 1 \in 1..Rows /\ c + batch \in 1..Rows
    BY <1>1 DEF HasMore
  <2> QED
    BY <2>1, <2>2, <2>3 DEF Chunks, EndOf
<1>2. CASE ~HasMore(c)
  <2>1. ChunkAt(c) = [first |-> c + 1, last |-> Rows, next |-> 0]
    BY <1>2 DEF ChunkAt
  <2>2. c + 1 \in 1..Rows /\ Rows \in 1..Rows
    BY <2>1
  <2> QED
    BY <2>1, <2>2 DEF Chunks, EndOf
<1> QED
  BY <1>1, <1>2

\* Every table has a chunk size, and it is positive.
LEMMA BatchesPositive ==
    /\ Batches \subseteq Nat \ {0}
    /\ \A z \in Sizings : batchSizeForTable(z) \in Batches
<1>1. ASSUME NEW z \in Sizings PROVE batchSizeForTable(z) \in Nat \ {0}
  BY SizingsAssumption, BatchTheorem
<1> QED
  BY <1>1 DEF Batches

-----------------------------------------------------------------------------
(* Type correctness.                                                       *)

\* Where the three threads of control can be together.
ControlOK ==
    /\ main \in {"down", "load"} =>
         readerPC = "idle" /\ writerPC = "idle" /\ ch = <<>> /\ ~closed
    /\ main \in {"pipeline", "mark"} =>
         readerPC # "idle" /\ writerPC # "idle" /\ batch \in Batches
    /\ readerPC = "send" => pending \in Chunks
    /\ writerPC \in {"write", "save"} => current \in Chunks
    /\ closed => readerPC = "closed"
    /\ writerPC = "finished" => ch = <<>> /\ readerPC = "closed"
    /\ main = "mark" => readerPC = "closed" /\ writerPC = "finished"

TypeInv == TypeOK /\ ControlOK

PassType == [done : 0..Rows, gaps : SUBSET (1..Rows), exact : BOOLEAN]
ClaimType == [gaps : SUBSET (1..Rows), exact : BOOLEAN]

\* The initial values of the records have their types.
LEMMA RecordTypes ==
    /\ NoPass \in PassType
    /\ NoClaim \in ClaimType
    /\ NoStateRow \in StateRows
    /\ <<>> \in Seq(Chunks) /\ Len(<<>>) <= ChanCap
<1>1. NoPass \in PassType
  BY RowsAssumption DEF NoPass, PassType
<1>2. NoClaim \in ClaimType
  BY DEF NoClaim, ClaimType
<1>3. NoStateRow \in StateRows
  BY RowsAssumption DEF NoStateRow, StateRows
<1>4. <<>> \in Seq(Chunks) /\ Len(<<>>) <= ChanCap
  BY DEF ChanCap
<1> QED
  BY <1>1, <1>2, <1>3, <1>4

\* Exit leaves a state of the right type behind.
LEMMA ExitType ==
    ASSUME TypeInv, Exit, target' = target, state' \in StateRows,
           claim' \in ClaimType
    PROVE  TypeInv'
<1>1. TypeOK'
  <2>1. pass' \in PassType
    BY RecordTypes, Zenon DEF Exit
  <2>2. ch' \in Seq(Chunks) /\ Len(ch') <= ChanCap
    BY RecordTypes, Zenon DEF Exit
  <2>3. cursor' \in 0..Rows /\ total' \in Nat
    BY RowsAssumption DEF Exit
  <2> QED
    BY <2>1, <2>2, <2>3 DEF TypeInv, TypeOK, Exit, PassType, ClaimType
<1>2. ControlOK'
  BY DEF Exit, ControlOK
<1> QED
  BY <1>1, <1>2 DEF TypeInv

\* The initial state has the right types.
LEMMA TypeInit == Init => TypeInv
<1> SUFFICES ASSUME Init PROVE TypeInv
  OBVIOUS
<1>1. TypeOK
  <2>1. pass \in PassType /\ claim \in ClaimType /\ state \in StateRows
    BY RecordTypes, Zenon DEF Init
  <2>2. ch \in Seq(Chunks) /\ Len(ch) <= ChanCap
    BY RecordTypes, Zenon DEF Init
  <2>3. cursor \in 0..Rows /\ total \in Nat /\ runs \in 0..MaxRuns
    BY RowsAssumption, MaxRunsAssumption DEF Init
  <2> QED
    BY <2>1, <2>2, <2>3 DEF Init, TypeOK, PassType, ClaimType
<1>2. ControlOK
  BY DEF Init, ControlOK
<1> QED
  BY <1>1, <1>2 DEF TypeInv

\* Every step of Next keeps the types.
LEMMA TypeStep == TypeInv /\ [Next]_vars => TypeInv'
<1> SUFFICES ASSUME TypeOK, ControlOK, [Next]_vars PROVE TypeInv'
  BY DEF TypeInv
<1> USE RowsAssumption, BatchesPositive, MaxRunsAssumption DEF TypeInv
<1>1. ASSUME NEW f \in BOOLEAN, Start(f) PROVE TypeInv'
  <2>1. TypeOK'
    BY <1>1 DEF TypeOK, Start, readerVars, channel, writerVars
  <2>2. ControlOK'
    BY <1>1 DEF ControlOK, Start, readerVars, channel, writerVars
  <2> QED
    BY <2>1, <2>2
<1>2. ASSUME NEW z \in Sizings, NEW p \in ResumePoints, Load(z, p) PROVE TypeInv'
  <2>1. p \in 0..Rows /\ ResumeTotal \in Nat
    BY RestoredType DEF TypeOK, ResumePoints, ResumeTotal, StateRows
  <2>2. pass' \in PassType
    <3>1. Overshot(p) \subseteq 1..Rows /\ claim.gaps \subseteq 1..Rows
      BY <2>1 DEF Overshot, TypeOK, StateRows
    <3>2. pass' = [done |-> p, gaps |-> (claim.gaps \cap 1..p) \cup Overshot(p),
                   exact |-> pass'.exact] /\ pass'.exact \in BOOLEAN
      BY <1>2 DEF Load
    <3> QED
      BY <2>1, <3>1, <3>2 DEF PassType
  <2>3. TypeOK'
    BY <1>2, <2>1, <2>2 DEF TypeOK, Load, channel, PassType
  <2>4. ControlOK'
    BY <1>2 DEF ControlOK, Load, channel
  <2> QED
    BY <2>3, <2>4
<1>3. ASSUME LoadFail \/ WaitError \/ MarkFail \/ Crash PROVE TypeInv'
  BY <1>3, ExitType DEF LoadFail, WaitError, MarkFail, Crash, TypeOK, ClaimType
<1>4. ASSUME WaitOk PROVE TypeInv'
  BY <1>4 DEF TypeOK, ControlOK, WaitOk, readerVars, channel, writerVars
<1>5. ASSUME Mark PROVE TypeInv'
  <2>1. state' \in StateRows
    BY <1>5 DEF Mark, Completed, StateRows, TypeOK
  <2>2. claim' \in ClaimType
    BY <1>5 DEF Mark, TypeOK, ClaimType
  <2> QED
    BY <1>5, <2>1, <2>2, ExitType DEF Mark
<1>6. ASSUME Read PROVE TypeInv'
  <2>1. CASE ChunkAt(cursor).first <= ChunkAt(cursor).last
    <3>1. ChunkAt(cursor) \in Chunks
      BY <1>6, <2>1, ChunkAtType DEF Read, TypeOK, ControlOK
    <3>2. ((ChunkAt(cursor).last + 1)..ChunkAt(cursor).next) \subseteq 1..Rows
      BY <3>1 DEF Chunks
    <3>3. pass' \in PassType
      BY <1>6, <2>1, <3>2 DEF Read, TypeOK, PassType
    <3>4. TypeOK'
      BY <1>6, <2>1, <3>1, <3>3
      DEF Read, TypeOK, PassType, process, channel, writerVars
    <3>5. ControlOK'
      BY <1>6, <2>1, <3>1 DEF Read, ControlOK, process, channel, writerVars
    <3> QED
      BY <3>4, <3>5
  <2>2. CASE ~(ChunkAt(cursor).first <= ChunkAt(cursor).last)
    BY <1>6, <2>2 DEF Read, TypeOK, ControlOK, process, channel, writerVars
  <2> QED
    BY <2>1, <2>2
<1>7. ASSUME ReadFail \/ SendCancelled \/ Close PROVE TypeInv'
  <2>1. TypeOK'
    BY <1>7 DEF ReadFail, SendCancelled, Close, TypeOK, process, channel, writerVars
  <2>2. ControlOK'
    BY <1>7 DEF ReadFail, SendCancelled, Close, ControlOK, process, channel,
                writerVars
  <2> QED
    BY <2>1, <2>2
<1>8. ASSUME Send PROVE TypeInv'
  <2>1. pending \in Chunks
    BY <1>8 DEF Send, ControlOK
  <2>2. TypeOK'
    BY <1>8, <2>1 DEF Send, TypeOK, Chunks, ChanCap, process, writerVars
  <2>3. ControlOK'
    BY <1>8 DEF Send, ControlOK, process, writerVars
  <2> QED
    BY <2>2, <2>3
<1>9. ASSUME Receive PROVE TypeInv'
  <2>1. Head(ch) \in Chunks /\ Tail(ch) \in Seq(Chunks) /\ Len(Tail(ch)) <= ChanCap
    BY <1>9 DEF Receive, TypeOK, ChanCap
  <2>2. TypeOK'
    BY <1>9, <2>1 DEF Receive, TypeOK, process, readerVars
  <2>3. ControlOK'
    BY <1>9, <2>1 DEF Receive, ControlOK, process, readerVars
  <2> QED
    BY <2>2, <2>3
<1>10. ASSUME Write \/ WriteFail PROVE TypeInv'
  <2>1. current \in Chunks
    BY <1>10 DEF Write, WriteFail, ControlOK
  <2>2. target' \in SUBSET (1..Rows)
    <3>1. RowsOf(current) \subseteq 1..Rows
      BY <2>1 DEF RowsOf, Chunks
    <3> QED
      BY <1>10, <3>1 DEF Write, WriteFail, TypeOK
  <2>3. total' \in Nat
    <3>1. current.last - current.first + 1 \in Nat
      BY <2>1 DEF Chunks
    <3> QED
      BY <1>10, <3>1 DEF Write, WriteFail, TypeOK
  <2>4. TypeOK'
    BY <1>10, <2>1, <2>2, <2>3 DEF Write, WriteFail, TypeOK, process, readerVars, channel
  <2>5. ControlOK'
    BY <1>10 DEF Write, WriteFail, ControlOK, process, readerVars, channel
  <2> QED
    BY <2>4, <2>5
<1>12. ASSUME Save \/ SaveFail PROVE TypeInv'
  <2>1. current \in Chunks
    BY <1>12 DEF Save, SaveFail, ControlOK
  <2>2. Checkpoint \in StateRows
    BY <2>1 DEF Checkpoint, StateRows, Chunks, TypeOK
  <2>3. [gaps |-> pass.gaps \cap 1..EndOf(current), exact |-> pass.exact] \in ClaimType
    BY DEF TypeOK, ClaimType
  <2>4. state' \in StateRows /\ claim' \in ClaimType
    BY <1>12, <2>2, <2>3 DEF Save, SaveFail, Stored, TypeOK, ClaimType
  <2>5. pass' \in PassType
    <3>1. EndOf(current) \in 0..Rows
      BY <2>1 DEF EndOf, Chunks
    <3> QED
      BY <1>12, <3>1 DEF Save, SaveFail, TypeOK, PassType
  <2>6. TypeOK'
    BY <1>12, <2>4, <2>5
    DEF Save, SaveFail, TypeOK, PassType, ClaimType, process, readerVars, channel
  <2>7. ControlOK'
    BY <1>12 DEF Save, SaveFail, ControlOK, process, readerVars, channel
  <2> QED
    BY <2>6, <2>7
<1>13. ASSUME Finish PROVE TypeInv'
  BY <1>13 DEF Finish, TypeOK, ControlOK, process, readerVars, channel
<1>14. ASSUME UNCHANGED vars PROVE TypeInv'
  BY <1>14 DEF vars, TypeOK, ControlOK, process, readerVars, channel, writerVars
<1> QED
  BY <1>1, <1>2, <1>3, <1>4, <1>5, <1>6, <1>7, <1>8, <1>9, <1>10, <1>12,
     <1>13, <1>14
  DEF Next, MainStep, ReaderStep, WriterStep

\* Every behaviour of transferTable stays within the declared types,
\* whatever the keys, chunk sizes, failures and restarts.
THEOREM TypeCorrect == Spec => []TypeOK
<1>1. Init => TypeInv
  BY TypeInit
<1>2. TypeInv /\ [Next]_vars => TypeInv'
  BY TypeStep
<1>3. TypeInv => TypeOK
  BY DEF TypeInv
<1> QED
  BY <1>1, <1>2, <1>3, PTL DEF Spec

-----------------------------------------------------------------------------
(* The order of the pipeline.                                              *)

\* The conclusion of PipelineInOrder.
InOrder ==
    /\ writerPC \in {"write", "save"} => current.first = pass.done + 1
    /\ ch # <<>> => ch[1].first = HeadPos + 1
    /\ \A i \in 1..(Len(ch) - 1) : ch[i + 1].first = EndOf(ch[i]) + 1
    /\ readerPC \in {"read", "send"} => TailPos = cursor
    /\ readerPC = "send" => pending = ChunkAt(cursor)
    /\ readerPC \in {"close", "closed"} => TailPos = Rows

\* PipelineInOrder is preserved by every step of the three threads.
LEMMA OrderStep == TypeInv /\ PipelineInOrder /\ [Next]_vars => PipelineInOrder'
<1> SUFFICES ASSUME TypeOK, ControlOK, PipelineInOrder, [Next]_vars,
                    main' \in {"pipeline", "mark"}, writerPC' # "failed"
             PROVE  InOrder'
  BY DEF TypeInv, PipelineInOrder, InOrder
<1> USE RowsAssumption
<1>1. ASSUME NEW f \in BOOLEAN, Start(f) PROVE InOrder'
  BY <1>1 DEF Start
<1>2. ASSUME NEW z \in Sizings, NEW p \in ResumePoints, Load(z, p) PROVE InOrder'
  <2>1. ch' = <<>> /\ Len(ch') = 0
    BY <1>2 DEF Load, ControlOK, channel
  <2>2. HeadPos' = p /\ TailPos' = p
    BY <1>2, <2>1 DEF Load, HeadPos, TailPos
  <2> QED
    BY <1>2, <2>1, <2>2 DEF Load, InOrder
<1>3. ASSUME LoadFail \/ WaitError \/ Mark \/ MarkFail \/ Crash PROVE InOrder'
  BY <1>3 DEF LoadFail, WaitError, Mark, MarkFail, Crash, Exit
\* From here on the two goroutines are running, and the writer has not failed.
<1>4. ASSUME ReaderStep \/ WriterStep \/ WaitOk
      PROVE  InOrder /\ main \in {"pipeline", "mark"} /\ writerPC # "failed"
  BY <1>4 DEF ReaderStep, WriterStep, WaitOk, Read, ReadFail, Send, SendCancelled, Close,
              Receive, Write, WriteFail, Save, SaveFail, Finish, ControlOK, TypeOK,
              PipelineInOrder, InOrder, process, writerVars
<1>5. ASSUME WaitOk PROVE InOrder'
  <2>1. HeadPos' = HeadPos /\ TailPos' = TailPos
    BY <1>5 DEF WaitOk, HeadPos, TailPos, writerVars, channel
  <2> QED
    BY <1>4, <1>5, <2>1 DEF WaitOk, InOrder, writerVars, channel, readerVars
<1>6. ASSUME Read PROVE InOrder'
  <2>1. pass'.done = pass.done
    BY <1>6 DEF Read, TypeOK
  <2>2. HeadPos' = HeadPos /\ TailPos' = TailPos
    BY <1>6, <2>1 DEF Read, HeadPos, TailPos, writerVars, channel
  <2>3. TailPos = cursor
    BY <1>4, <1>6 DEF ReaderStep, InOrder, Read
  <2>4. readerPC' = "send" => pending' = ChunkAt(cursor)'
    BY <1>6 DEF Read, ChunkAt, HasMore, NextCursor, process
  <2>5. readerPC' = "close" => cursor = Rows
    <3>1. batch \in Nat \ {0} /\ cursor \in 0..Rows
      BY <1>6, BatchesPositive DEF Read, ControlOK, TypeOK
    <3>2. readerPC' = "close" => ~(ChunkAt(cursor).first <= ChunkAt(cursor).last)
      BY <1>6 DEF Read
    <3> QED
      BY <3>1, <3>2 DEF ChunkAt, HasMore
  <2>6. readerPC' \in {"send", "close"}
    BY <1>6 DEF Read
  <2> QED
    BY <1>4, <1>6, <2>1, <2>2, <2>3, <2>4, <2>5, <2>6
    DEF ReaderStep, Read, InOrder, writerVars, channel
<1>7. ASSUME ReadFail \/ SendCancelled \/ Close PROVE InOrder'
  <2>1. HeadPos' = HeadPos /\ TailPos' = TailPos
    BY <1>7 DEF ReadFail, SendCancelled, Close, HeadPos, TailPos, writerVars, channel
  <2> QED
    BY <1>4, <1>7, <2>1
    DEF ReaderStep, ReadFail, SendCancelled, Close, InOrder, writerVars, channel
<1>8. ASSUME Send PROVE InOrder'
  <2>1. InOrder
    BY <1>4, <1>8 DEF ReaderStep
  <2>2. pending \in Chunks /\ pending.first = cursor + 1
    BY <1>8, <2>1 DEF Send, InOrder, ControlOK, ChunkAt
  <2>3. HeadPos' = HeadPos
    BY <1>8 DEF Send, HeadPos, writerVars
  <2>4. ch' # <<>> /\ Len(ch') = Len(ch) + 1 /\ ch'[Len(ch')] = pending
    BY <1>8, <2>2 DEF Send, TypeOK
  <2>5. \A i \in 1..Len(ch) : ch'[i] = ch[i]
    BY <1>8, <2>2 DEF Send, TypeOK
  <2>6. TailPos' = EndOf(pending)
    BY <2>4 DEF TailPos, EndOf
  <2>7. ch'[1].first = HeadPos + 1
    <3>1. CASE ch = <<>>
      BY <1>8, <2>1, <2>2, <2>4, <3>1 DEF Send, InOrder, TailPos
    <3>2. CASE ch # <<>>
      BY <2>1, <2>5, <3>2 DEF InOrder, TypeOK
    <3> QED
      BY <3>1, <3>2
  <2>8. \A i \in 1..(Len(ch') - 1) : ch'[i + 1].first = EndOf(ch'[i]) + 1
    <3> SUFFICES ASSUME NEW i \in 1..Len(ch)
                 PROVE  ch'[i + 1].first = EndOf(ch'[i]) + 1
      BY <2>4, <1>8 DEF Send, TypeOK
    <3>1. Len(ch) \in Nat
      BY DEF TypeOK
    <3>2. CASE i = Len(ch)
      <4>1. TailPos = EndOf(ch[Len(ch)]) /\ TailPos = cursor
        BY <1>8, <2>1, <3>1, <3>2 DEF Send, InOrder, TailPos
      <4> QED
        BY <2>2, <2>4, <2>5, <3>1, <3>2, <4>1
    <3>3. CASE i # Len(ch)
      BY <2>1, <2>5, <3>1, <3>3 DEF InOrder
    <3> QED
      BY <3>2, <3>3
  <2> QED
    BY <1>8, <2>1, <2>3, <2>4, <2>6, <2>7, <2>8
    DEF Send, InOrder, EndOf, writerVars
<1>9. ASSUME Receive PROVE InOrder'
  <2>1. InOrder
    BY <1>4, <1>9 DEF WriterStep
  <2>2. current' = ch[1] /\ writerPC' = "write" /\ Len(ch) \in Nat \ {0}
    BY <1>9 DEF Receive, TypeOK
  <2>3. Len(ch') = Len(ch) - 1 /\ \A i \in 1..Len(ch') : ch'[i] = ch[i + 1]
    BY <1>9 DEF Receive, TypeOK
  <2>4. HeadPos' = EndOf(ch[1]) /\ HeadPos = pass.done
    BY <1>9, <2>2 DEF Receive, HeadPos, EndOf
  <2>5. TailPos' = TailPos
    <3>1. CASE Len(ch) = 1
      <4>1. ch' = <<>>
        BY <1>9, <3>1 DEF Receive, TypeOK
      <4> QED
        BY <1>9, <2>4, <3>1, <4>1 DEF Receive, TailPos
    <3>2. CASE Len(ch) # 1
      <4>1. ch' # <<>> /\ ch # <<>> /\ ch'[Len(ch')] = ch[Len(ch)]
        <5>1. Len(ch') \in 1..Len(ch') /\ Len(ch') + 1 = Len(ch)
          BY <2>2, <2>3, <3>2
        <5>2. ch' # <<>> /\ ch # <<>>
          BY <5>1, <2>2
        <5> QED
          BY <2>3, <5>1, <5>2
      <4> QED
        BY <4>1 DEF TailPos, EndOf
    <3> QED
      BY <3>1, <3>2
  <2>6. ch' # <<>> => ch'[1].first = HeadPos' + 1
    <3> SUFFICES ASSUME ch' # <<>> PROVE ch'[1].first = HeadPos' + 1
      OBVIOUS
    <3>1. Len(ch') \in Nat \ {0}
      BY <1>9 DEF Receive, TypeOK
    <3> QED
      BY <2>1, <2>2, <2>3, <2>4, <3>1 DEF InOrder
  <2>7. \A i \in 1..(Len(ch') - 1) : ch'[i + 1].first = EndOf(ch'[i]) + 1
    BY <2>1, <2>2, <2>3 DEF InOrder
  <2>8. current'.first = pass'.done + 1
    BY <1>9, <2>1, <2>2, <2>4 DEF Receive, InOrder
  <2> QED
    BY <1>9, <2>1, <2>5, <2>6, <2>7, <2>8
    DEF Receive, InOrder, ChunkAt, HasMore, NextCursor, readerVars, process
<1>10. ASSUME Write PROVE InOrder'
  <2>1. HeadPos' = HeadPos /\ TailPos' = TailPos
    BY <1>10 DEF Write, HeadPos, TailPos, channel
  <2> QED
    BY <1>4, <1>10, <2>1
    DEF WriterStep, Write, InOrder, ChunkAt, HasMore, NextCursor, channel, readerVars,
        process
<1>11. ASSUME Save PROVE InOrder'
  <2>1. HeadPos' = HeadPos /\ TailPos' = TailPos
    BY <1>11 DEF Save, HeadPos, TailPos, EndOf, channel, TypeOK
  <2> QED
    BY <1>4, <1>11, <2>1
    DEF WriterStep, Save, InOrder, ChunkAt, HasMore, NextCursor, channel, readerVars,
        process
<1>12. ASSUME WriteFail \/ SaveFail PROVE InOrder'
  BY <1>12 DEF WriteFail, SaveFail
<1>13. ASSUME Finish PROVE InOrder'
  <2>1. HeadPos' = HeadPos /\ TailPos' = TailPos
    BY <1>13 DEF Finish, HeadPos, TailPos, channel
  <2> QED
    BY <1>4, <1>13, <2>1
    DEF WriterStep, Finish, InOrder, ChunkAt, HasMore, NextCursor, channel, readerVars,
        process
<1>14. ASSUME UNCHANGED vars PROVE InOrder'
  <2>1. HeadPos' = HeadPos /\ TailPos' = TailPos
    BY <1>14 DEF vars, HeadPos, TailPos, channel, writerVars
  <2> QED
    BY <1>14, <2>1
    DEF vars, PipelineInOrder, InOrder, ChunkAt, HasMore, NextCursor, channel, readerVars,
        writerVars, process
<1> QED
  BY <1>1, <1>2, <1>3, <1>5, <1>6, <1>7, <1>8, <1>9, <1>10, <1>11, <1>12, <1>13, <1>14
  DEF Next, MainStep, ReaderStep, WriterStep

\* Whatever fails and restarts, the chunks between the last checkpoint and
\* the reader's cursor are contiguous and in order.
THEOREM OrderTheorem == Spec => []PipelineInOrder
<1>1. Init => TypeInv /\ PipelineInOrder
  BY TypeInit DEF Init, PipelineInOrder
<1>2. TypeInv /\ PipelineInOrder /\ [Next]_vars => (TypeInv /\ PipelineInOrder)'
  BY TypeStep, OrderStep
<1> QED
  BY <1>1, <1>2, PTL DEF Spec

-----------------------------------------------------------------------------
(* What a checkpoint and a completion record promise.                      *)

\* The rows between the end of m and the next chunk are accounted for.
Gapped(m) == ((m.last + 1)..EndOf(m)) \subseteq pass.gaps

\* ... for every chunk in flight.
GapsRecorded ==
    /\ readerPC = "send" => Gapped(pending)
    /\ \A i \in 1..Len(ch) : Gapped(ch[i])
    /\ writerPC \in {"write", "save"} => Gapped(current)

\* Everything up to pass.done is in YDB.
DoneCovered ==
    main \in {"pipeline", "mark"} => (1..pass.done) \ pass.gaps \subseteq target

\* The checkpoint of a chunk is saved after the chunk.
WrittenBeforeSave == writerPC = "save" => RowsOf(current) \subseteq target

CoverInv ==
    /\ TypeInv /\ PipelineInOrder
    /\ GapsRecorded /\ DoneCovered /\ WrittenBeforeSave
    /\ CheckpointCoversPrefix /\ CompletedCoversTable

\* GapsRecorded is preserved.
LEMMA GapsStep ==
    TypeInv /\ GapsRecorded /\ [Next]_vars => GapsRecorded'
<1> SUFFICES ASSUME TypeOK, ControlOK, GapsRecorded, [Next]_vars
             PROVE  GapsRecorded'
  BY DEF TypeInv
<1>1. ASSUME Exit PROVE GapsRecorded'
  BY <1>1 DEF Exit, GapsRecorded
<1>2. ASSUME pass' = pass, ch' = ch, readerPC' = "send" => readerPC = "send",
             pending' = pending \/ readerPC' # "send",
             writerPC' \in {"write", "save"} => writerPC \in {"write", "save"},
             current' = current \/ writerPC' \notin {"write", "save"}
      PROVE  GapsRecorded'
  BY <1>2 DEF GapsRecorded, Gapped, EndOf
<1>3. ASSUME NEW z \in Sizings, NEW p \in ResumePoints, Load(z, p) PROVE GapsRecorded'
  BY <1>3 DEF Load, ControlOK, GapsRecorded, channel
<1>4. ASSUME Read PROVE GapsRecorded'
  <2>1. CASE ChunkAt(cursor).first <= ChunkAt(cursor).last
    <3>1. pass.gaps \subseteq pass'.gaps
      BY <1>4, <2>1 DEF Read, TypeOK
    <3>2. ((pending'.last + 1)..pending'.next) \subseteq pass'.gaps
      BY <1>4, <2>1 DEF Read, TypeOK
    <3>3. pending'.next = 0 => pending'.last = Rows
      BY <1>4, <2>1, ChunkAtType, BatchesPositive DEF Read, TypeOK, ControlOK
    <3>4. Gapped(pending)'
      BY <3>2, <3>3, RowsAssumption DEF Gapped, EndOf
    <3> QED
      BY <1>4, <3>1, <3>4 DEF Read, GapsRecorded, Gapped, EndOf, channel, writerVars
  <2>2. CASE ~(ChunkAt(cursor).first <= ChunkAt(cursor).last)
    BY <1>2, <1>4, <2>2 DEF Read, channel, writerVars
  <2> QED
    BY <2>1, <2>2
<1>5. ASSUME Send PROVE GapsRecorded'
  <2>1. pending \in Chunks /\ Gapped(pending)
    BY <1>5 DEF Send, ControlOK, GapsRecorded
  <2>2. \A i \in 1..Len(ch') : ch'[i] = pending \/ (i \in 1..Len(ch) /\ ch'[i] = ch[i])
    BY <1>5, <2>1 DEF Send, TypeOK
  <2>3. readerPC' # "send"
    BY <1>5 DEF Send
  <2> QED
    BY <1>5, <2>1, <2>2, <2>3 DEF Send, GapsRecorded, Gapped, EndOf, writerVars
<1>6. ASSUME Receive PROVE GapsRecorded'
  <2>1. current' = ch[1] /\ 1 \in 1..Len(ch)
    BY <1>6 DEF Receive, TypeOK
  <2>2. \A i \in 1..Len(ch') : i + 1 \in 1..Len(ch) /\ ch'[i] = ch[i + 1]
    BY <1>6 DEF Receive, TypeOK
  <2> QED
    BY <1>6, <2>1, <2>2 DEF Receive, GapsRecorded, Gapped, EndOf, readerVars
<1>7. ASSUME Save PROVE GapsRecorded'
  <2>1. pass'.gaps = pass.gaps
    BY <1>7 DEF Save, TypeOK
  <2> QED
    BY <1>7, <2>1 DEF Save, GapsRecorded, Gapped, EndOf, readerVars, channel
<1>8. ASSUME ReadFail \/ SendCancelled \/ Close \/ Write \/ WriteFail \/ SaveFail
             \/ Finish \/ WaitOk \/ UNCHANGED vars
      PROVE  GapsRecorded'
  BY <1>2, <1>8
  DEF ReadFail, SendCancelled, Close, Write, WriteFail, SaveFail, Finish, WaitOk, vars,
      readerVars, channel, writerVars
<1>9. ASSUME NEW f \in BOOLEAN, Start(f) PROVE GapsRecorded'
  BY <1>2, <1>9 DEF Start, readerVars, channel, writerVars
<1>10. ASSUME LoadFail \/ WaitError \/ Mark \/ MarkFail \/ Crash PROVE GapsRecorded'
  BY <1>1, <1>10 DEF LoadFail, WaitError, Mark, MarkFail, Crash
<1> QED
  BY <1>3, <1>4, <1>5, <1>6, <1>7, <1>8, <1>9, <1>10
  DEF Next, MainStep, ReaderStep, WriterStep

\* When the writer saves, everything up to the end of its chunk is in YDB.
LEMMA SaveCovers ==
    ASSUME CoverInv, writerPC = "save"
    PROVE  /\ current \in Chunks
           /\ (1..EndOf(current)) \ pass.gaps \subseteq target
<1>1. current \in Chunks /\ main \in {"pipeline", "mark"}
  BY DEF CoverInv, TypeInv, TypeOK, ControlOK
<1>2. current.first = pass.done + 1
  BY <1>1 DEF CoverInv, PipelineInOrder
<1>3. RowsOf(current) \subseteq target /\ Gapped(current)
  BY DEF CoverInv, WrittenBeforeSave, GapsRecorded
<1>4. (1..pass.done) \ pass.gaps \subseteq target /\ pass.done \in 0..Rows
  BY <1>1 DEF CoverInv, DoneCovered, TypeInv, TypeOK
<1>5. EndOf(current) \in 1..Rows /\ current.last \in 1..Rows
  BY <1>1, RowsAssumption DEF EndOf, Chunks
<1>6. ASSUME NEW r \in 1..EndOf(current), r \notin pass.gaps PROVE r \in target
  <2>1. CASE r <= pass.done
    BY <1>4, <1>6, <2>1, <1>5
  <2>2. CASE r > pass.done /\ r <= current.last
    BY <1>2, <1>3, <1>4, <1>5, <2>2 DEF RowsOf
  <2>3. CASE r > current.last
    BY <1>3, <1>5, <1>6, <2>3 DEF Gapped
  <2> QED
    BY <1>4, <1>5, <2>1, <2>2, <2>3
<1> QED
  BY <1>1, <1>6

\* The promises are kept by a step that leaves the state row alone.
LEMMA PromisesKept ==
    ASSUME CheckpointCoversPrefix, CompletedCoversTable,
           UNCHANGED <<state, claim>>, target \subseteq target'
    PROVE  CheckpointCoversPrefix' /\ CompletedCoversTable'
BY DEF CheckpointCoversPrefix, CompletedCoversTable

\* ... and by the step that stores a checkpoint.
LEMMA PromisesStored ==
    ASSUME CoverInv, writerPC = "save", Stored, target' = target
    PROVE  CheckpointCoversPrefix' /\ CompletedCoversTable'
<1>1. /\ current \in Chunks
      /\ (1..EndOf(current)) \ pass.gaps \subseteq target
  BY SaveCovers
<1>2. state'.status = "progress" /\ state'.cursor = current.next
  BY DEF Stored, Checkpoint
<1>3. claim'.gaps = pass.gaps \cap 1..EndOf(current)
  BY DEF Stored
<1>4. 1..current.next \subseteq 1..EndOf(current)
  BY <1>1, RowsAssumption DEF EndOf, Chunks
<1>5. CheckpointCoversPrefix'
  BY <1>1, <1>2, <1>3, <1>4 DEF CheckpointCoversPrefix
<1>6. CompletedCoversTable'
  BY <1>2 DEF CompletedCoversTable
<1> QED
  BY <1>5, <1>6

\* The data part of CoverInv is preserved, whatever position a saved cursor is
\* restored to.
LEMMA CoverStep ==
    ASSUME CoverInv, [Next]_vars
    PROVE  /\ DoneCovered' /\ WrittenBeforeSave'
           /\ CheckpointCoversPrefix' /\ CompletedCoversTable'
<1> DEFINE Goal == /\ DoneCovered /\ WrittenBeforeSave
                   /\ CheckpointCoversPrefix /\ CompletedCoversTable
<1> USE RowsAssumption
<1>0. TypeOK /\ ControlOK /\ PipelineInOrder /\ Goal
  BY DEF CoverInv, TypeInv
<1>1. ASSUME NEW f \in BOOLEAN, Start(f) PROVE Goal'
  BY <1>0, <1>1, PromisesKept
  DEF Start, DoneCovered, WrittenBeforeSave, writerVars
<1>2. ASSUME NEW z \in Sizings, NEW p \in ResumePoints, Load(z, p) PROVE Goal'
  <2>1. pass'.done = p /\ pass'.gaps = (claim.gaps \cap 1..p) \cup Overshot(p)
    BY <1>2 DEF Load
  <2>2. p \in 0..Rows /\ state.cursor \in 0..Rows
    BY <1>0, RestoredType DEF ResumePoints, TypeOK, StateRows
  <2>3. ASSUME NEW r \in 1..p, r \notin pass'.gaps PROVE r \in target
    <3>1. state.status = "progress"
      BY <2>2, <2>3 DEF ResumePoints
    <3>2. r <= state.cursor
      BY <2>1, <2>2, <2>3, <3>1 DEF Overshot
    <3> QED
      BY <1>0, <2>1, <2>2, <2>3, <3>1, <3>2 DEF CheckpointCoversPrefix
  <2>4. target' = target
    BY <1>2 DEF Load
  <2>5. DoneCovered'
    BY <2>1, <2>3, <2>4 DEF DoneCovered
  <2> QED
    BY <1>0, <1>2, <2>5, PromisesKept DEF Load, WrittenBeforeSave
<1>3. ASSUME LoadFail \/ WaitError \/ MarkFail \/ Crash PROVE Goal'
  BY <1>0, <1>3, PromisesKept
  DEF LoadFail, WaitError, MarkFail, Crash, Exit, DoneCovered, WrittenBeforeSave
<1>4. ASSUME Mark PROVE Goal'
  <2>1. pass.done = Rows
    BY <1>0, <1>4 DEF Mark, ControlOK, PipelineInOrder, TailPos, HeadPos
  <2>2. (1..Rows) \ pass.gaps \subseteq target
    BY <1>0, <1>4, <2>1 DEF Mark, DoneCovered
  <2>3. state'.status = "completed" /\ claim'.gaps = pass.gaps /\ target' = target
    BY <1>4 DEF Mark, Completed
  <2>4. CheckpointCoversPrefix' /\ CompletedCoversTable'
    BY <2>2, <2>3 DEF CheckpointCoversPrefix, CompletedCoversTable
  <2> QED
    BY <1>4, <2>4 DEF Mark, Exit, DoneCovered, WrittenBeforeSave
<1>5. ASSUME Read PROVE Goal'
  <2>1. pass'.done = pass.done /\ pass.gaps \subseteq pass'.gaps
    BY <1>0, <1>5 DEF Read, TypeOK
  <2> QED
    BY <1>0, <1>5, <2>1, PromisesKept
    DEF Read, DoneCovered, WrittenBeforeSave, process, writerVars
<1>6. ASSUME ReadFail \/ Send \/ SendCancelled \/ Close PROVE Goal'
  BY <1>0, <1>6, PromisesKept
  DEF ReadFail, Send, SendCancelled, Close, DoneCovered, WrittenBeforeSave, process,
      writerVars
<1>7. ASSUME WaitOk \/ Receive \/ Finish \/ UNCHANGED vars PROVE Goal'
  BY <1>0, <1>7, PromisesKept
  DEF WaitOk, Receive, Finish, vars, DoneCovered, WrittenBeforeSave, process, writerVars
<1>8. ASSUME Write PROVE Goal'
  BY <1>0, <1>8, PromisesKept
  DEF Write, DoneCovered, WrittenBeforeSave, RowsOf, process
<1>9. ASSUME WriteFail PROVE Goal'
  BY <1>0, <1>9, PromisesKept DEF WriteFail, DoneCovered, WrittenBeforeSave, process
<1>10. ASSUME Save PROVE Goal'
  <2>1. pass'.done = EndOf(current) /\ pass'.gaps = pass.gaps
    BY <1>0, <1>10 DEF Save, TypeOK
  <2>2. DoneCovered'
    BY <1>10, <2>1, SaveCovers DEF Save, DoneCovered
  <2> QED
    BY <1>10, <2>2, PromisesStored DEF Save, WrittenBeforeSave
<1>11. ASSUME SaveFail PROVE Goal'
  <2>1. DoneCovered' /\ WrittenBeforeSave'
    BY <1>0, <1>11 DEF SaveFail, DoneCovered, WrittenBeforeSave, process
  <2>2. CASE Stored
    BY <1>11, <2>1, <2>2, PromisesStored DEF SaveFail
  <2>3. CASE UNCHANGED <<state, claim>>
    BY <1>0, <1>11, <2>1, <2>3, PromisesKept DEF SaveFail
  <2> QED
    BY <1>11, <2>2, <2>3 DEF SaveFail
<1> QED
  BY <1>1, <1>2, <1>3, <1>4, <1>5, <1>6, <1>7, <1>8, <1>9, <1>10, <1>11
  DEF Next, MainStep, ReaderStep, WriterStep

\* No step takes a row out of the YDB table.
LEMMA TargetGrows == [Next]_vars => target \subseteq target'
BY DEF Next, MainStep, ReaderStep, WriterStep, Start, Load, LoadFail, WaitOk, WaitError,
       Mark, MarkFail, Crash, Exit, Read, ReadFail, Send, SendCancelled, Close, Receive,
       Write, WriteFail, Save, SaveFail, Finish, vars

\* CoverInv survives a step of somebody else, who adds rows to the table and
\* puts a true record in the place of ours.
LEMMA CoverBystander ==
    ASSUME CoverInv, UNCHANGED <<process, readerVars, channel, writerVars, pass>>,
           target \subseteq target', target' \in SUBSET (1..Rows),
           state' \in StateRows, claim' \in ClaimType,
           CheckpointCoversPrefix', CompletedCoversTable'
    PROVE  CoverInv'
<1> USE DEF process, readerVars, channel, writerVars
<1>1. TypeInv'
  BY DEF CoverInv, TypeInv, TypeOK, ControlOK, ClaimType
<1>2. PipelineInOrder'
  <2>1. HeadPos' = HeadPos /\ TailPos' = TailPos
    BY DEF HeadPos, TailPos, EndOf
  <2> QED
    BY <2>1 DEF CoverInv, PipelineInOrder, EndOf, ChunkAt, HasMore, NextCursor
<1>3. GapsRecorded' /\ DoneCovered' /\ WrittenBeforeSave'
  BY DEF CoverInv, GapsRecorded, Gapped, EndOf, DoneCovered, WrittenBeforeSave, RowsOf
<1> QED
  BY <1>1, <1>2, <1>3 DEF CoverInv

\* CoverInv holds initially.
LEMMA CoverInit == Init => CoverInv
<1> SUFFICES ASSUME Init PROVE CoverInv
  OBVIOUS
<1>1. TypeInv
  BY TypeInit
<1> QED
  BY <1>1
  DEF Init, CoverInv, PipelineInOrder, GapsRecorded, DoneCovered, WrittenBeforeSave,
      CheckpointCoversPrefix, CompletedCoversTable, NoStateRow

\* CoverInv is an inductive invariant of Transfer.
LEMMA CoverInvariant == Spec => []CoverInv
<1>1. Init => CoverInv
  BY CoverInit
<1>2. CoverInv /\ [Next]_vars => CoverInv'
  BY TypeStep, OrderStep, GapsStep, CoverStep DEF CoverInv
<1> QED
  BY <1>1, <1>2, PTL DEF Spec

\* A saved cursor never claims a row that is not in YDB, save the rows the
\* reader leaves between chunks and those a restored cursor jumps over:
\* whatever fails, and however often the importer is killed and restarted.
THEOREM CheckpointTheorem == Spec => []CheckpointCoversPrefix
<1>1. CoverInv => CheckpointCoversPrefix
  BY DEF CoverInv
<1> QED
  BY <1>1, CoverInvariant, PTL

\* A completion record is written only when every row is in YDB, save the
\* rows the reader leaves between chunks and those a restored cursor jumps
\* over.
THEOREM CompletedTheorem == Spec => []CompletedCoversTable
<1>1. CoverInv => CompletedCoversTable
  BY DEF CoverInv
<1> QED
  BY <1>1, CoverInvariant, PTL

-----------------------------------------------------------------------------
(* Paging by offset leaves no row out.                                     *)

NoGaps == pass.gaps = {} /\ claim.gaps = {}

\* The cursor of LIMIT/OFFSET paging is the end of the chunk, so no row falls
\* between two chunks.
LEMMA NoGapsStep ==
    ASSUME NumPK = 0, TypeInv, NoGaps, [Next]_vars
    PROVE  NoGaps'
<1>1. ASSUME Read PROVE NoGaps'
  <2>1. cursor \in 0..Rows
    BY DEF TypeInv, TypeOK
  <2>2. batch \in Nat \ {0}
    BY <1>1, BatchesPositive DEF TypeInv, TypeOK, ControlOK, Read
  <2>3. ((ChunkAt(cursor).last + 1)..ChunkAt(cursor).next) = {}
    BY <2>1, <2>2, RowsAssumption DEF ChunkAt, HasMore, NextCursor
  <2> QED
    BY <1>1, <2>3 DEF Read, NoGaps, TypeInv, TypeOK
<1>2. ASSUME Save \/ SaveFail PROVE NoGaps'
  BY <1>2 DEF Save, SaveFail, Stored, NoGaps, TypeInv, TypeOK
<1>3. ASSUME NEW z \in Sizings, NEW p \in ResumePoints, Load(z, p) PROVE NoGaps'
  <2>1. Overshot(p) = {}
    BY DEF Overshot, ResumePoints, Restored, TypeInv, TypeOK, StateRows
  <2> QED
    BY <1>3, <2>1 DEF Load, NoGaps
<1>4. ASSUME LoadFail \/ WaitError \/ Mark \/ MarkFail \/ Crash PROVE NoGaps'
  BY <1>4 DEF LoadFail, WaitError, Mark, MarkFail, Crash, Exit, NoPass, NoGaps
<1>5. ASSUME UNCHANGED <<pass, claim>> PROVE NoGaps'
  BY <1>5 DEF NoGaps
<1> QED
  BY <1>1, <1>2, <1>3, <1>4, <1>5
  DEF Next, MainStep, ReaderStep, WriterStep, Start, WaitOk, ReadFail, Send,
      SendCancelled, Close, Receive, Write, WriteFail, Finish, vars

\* A table without a primary key, paged by LIMIT/OFFSET, is copied row for
\* row: a completion record means that YDB holds exactly the table.
THEOREM OffsetOneToOne ==
    ASSUME NumPK = 0
    PROVE  Spec => []OneToOneCopy
<1>2. Spec => []CoverInv
  BY CoverInvariant
<1>3. Init => NoGaps
  BY DEF Init, NoGaps, NoPass, NoClaim
<1>4. CoverInv /\ NoGaps /\ [Next]_vars => NoGaps'
  BY NoGapsStep DEF CoverInv
<1>5. CoverInv /\ NoGaps => OneToOneCopy
  BY DEF CoverInv, NoGaps, OneToOneCopy, CompletedCoversTable, TypeInv, TypeOK
<1> QED
  BY <1>2, <1>3, <1>4, <1>5, PTL DEF Spec

-----------------------------------------------------------------------------
(* Steps.                                                                  *)

\* While the writer works, the saved cursor is not ahead of it.
CursorBehind ==
    main \in {"pipeline", "mark"} /\ writerPC # "failed" /\ state.status = "progress"
      => state.cursor <= pass.done

\* CursorBehind is preserved.
LEMMA CursorBehindStep ==
    ASSUME KeysExact, CoverInv, CursorBehind, [Next]_vars
    PROVE  CursorBehind'
<1>0. TypeOK /\ ControlOK
  BY DEF CoverInv, TypeInv
<1>1. ASSUME NEW z \in Sizings, NEW p \in ResumePoints, Load(z, p) PROVE CursorBehind'
  <2>1. state.status = "progress" => p = state.cursor
    BY <1>0, RestoredExact DEF ResumePoints, TypeOK, StateRows
  <2> QED
    BY <1>0, <1>1, <2>1 DEF Load, CursorBehind, TypeOK, StateRows
<1>2. ASSUME LoadFail \/ WaitError \/ Mark \/ MarkFail \/ Crash PROVE CursorBehind'
  BY <1>2 DEF LoadFail, WaitError, Mark, MarkFail, Crash, Exit, CursorBehind
<1>3. ASSUME NEW f \in BOOLEAN, Start(f) PROVE CursorBehind'
  BY <1>3 DEF Start, CursorBehind
<1>4. ASSUME Save PROVE CursorBehind'
  <2>1. current \in Chunks
    BY <1>0, <1>4 DEF Save, ControlOK
  <2>2. state'.cursor = current.next /\ pass'.done = EndOf(current)
    BY <1>0, <1>4 DEF Save, Stored, Checkpoint, TypeOK
  <2>3. current.next <= EndOf(current)
    BY <2>1, RowsAssumption DEF EndOf, Chunks
  <2> QED
    BY <2>2, <2>3 DEF CursorBehind
<1>5. ASSUME WriteFail \/ SaveFail PROVE CursorBehind'
  BY <1>5 DEF WriteFail, SaveFail, CursorBehind
<1>6. ASSUME Read PROVE CursorBehind'
  <2>1. pass'.done = pass.done
    BY <1>0, <1>6 DEF Read, TypeOK
  <2> QED
    BY <1>6, <2>1 DEF Read, CursorBehind, process, writerVars
<1>7. ASSUME ReadFail \/ Send \/ SendCancelled \/ Close \/ Receive \/ Write \/ Finish
             \/ WaitOk \/ UNCHANGED vars
      PROVE  CursorBehind'
  BY <1>0, <1>7
  DEF ReadFail, Send, SendCancelled, Close, Receive, Write, Finish, WaitOk, vars,
      CursorBehind, ControlOK, process, writerVars
<1> QED
  BY <1>1, <1>2, <1>3, <1>4, <1>5, <1>6, <1>7
  DEF Next, MainStep, ReaderStep, WriterStep

\* Keys come back from the state table as they went there when they are
\* integers that float64 holds exactly, from -2^53 to 2^53, or
\* bytes of ASCII.
THEOREM ExactKeysTheorem ==
    ASSUME IF KeyKind = "integer"
           THEN \A r \in 1..Rows : Key[r] \in (-FloatExact)..FloatExact
           ELSE \A r \in 1..Rows : Utf8Byte(Key[r])
    PROVE  KeysExact
<1> SUFFICES ASSUME NEW r \in 1..Rows PROVE Decoded(Key[r]) = {Key[r]}
  BY DEF KeysExact
<1>1. CASE KeyKind = "integer"
  <2>1. Key[r] \in (-FloatExact)..FloatExact /\ FloatExact \in Nat \ {0}
    BY <1>1, FloatAssumption
  <2>2. ToFloat(Key[r]) = Key[r]
    BY <2>1 DEF ToFloat, Rounded
  <2>3. Key[r] \in MinInt64..MaxInt64
    BY <2>1 DEF MinInt64, MaxInt64
  <2> QED
    BY <1>1, <2>2, <2>3 DEF Decoded, ToInt64
<1>2. CASE KeyKind # "integer"
  BY <1>2 DEF Decoded, ToText
<1> QED
  BY <1>1, <1>2

\* For a table whose keys come back as they were saved, a run never moves a
\* checkpoint back, not even one that resumes after an unacknowledged save.
THEOREM AdvanceTheorem ==
    ASSUME KeysExact
    PROVE  Spec => CheckpointAdvances
<1> DEFINE Advance ==
      state.status = "progress" /\ state'.status = "progress" /\ state' # state
        => state'.cursor = 0 \/ state'.cursor > state.cursor
<1>1. Spec => []CoverInv
  BY CoverInvariant
<1>2. Init => CursorBehind
  BY DEF Init, CursorBehind
<1>3. CoverInv /\ CursorBehind /\ [Next]_vars => CursorBehind'
  BY CursorBehindStep
<1>4. CoverInv /\ CursorBehind /\ [Next]_vars => [Advance]_vars
  <2> SUFFICES ASSUME CoverInv, CursorBehind, [Next]_vars PROVE Advance
    OBVIOUS
  <2>1. ASSUME writerPC = "save", Stored PROVE Advance
    <3>1. /\ current \in Chunks /\ main \in {"pipeline", "mark"}
          /\ current.first = pass.done + 1 /\ pass.done \in Nat
          /\ state \in StateRows
      BY <2>1
      DEF CoverInv, TypeInv, TypeOK, ControlOK, PipelineInOrder
    <3>2. state.status = "progress" => state.cursor <= pass.done
      BY <2>1, <3>1 DEF CursorBehind
    <3>3. state'.cursor = current.next
      BY <2>1 DEF Stored, Checkpoint
    <3>4. current.next = 0 \/ current.next > pass.done
      BY <3>1, RowsAssumption DEF Chunks, EndOf
    <3>5. current.next \in Nat /\ state.cursor \in Nat
      BY <3>1, RowsAssumption DEF Chunks, StateRows
    <3> QED
      BY <3>1, <3>2, <3>3, <3>4, <3>5
  <2>2. ASSUME Mark PROVE Advance
    BY <2>2 DEF Mark, Completed
  <2>3. ASSUME UNCHANGED state PROVE Advance
    BY <2>3
  <2> QED
    BY <2>1, <2>2, <2>3
    DEF Next, MainStep, ReaderStep, WriterStep, Start, Load, LoadFail, WaitOk, WaitError,
        MarkFail, Crash, Read, ReadFail, Send, SendCancelled, Close, Receive, Write,
        WriteFail, Save, SaveFail, Finish, vars
<1> QED
  BY <1>1, <1>2, <1>3, <1>4, PTL DEF Spec, CheckpointAdvances

\* A run that works on a completed table was started with -force.
ForcedInv == main # "down" /\ state.status = "completed" => forced

\* Without -force no run ever touches the record of a completed table.
THEOREM ForcedTheorem == Spec => OnlyForcedUncompletes
<1> DEFINE Guarded == state.status = "completed" /\ state' # state => forced
<1>1. Init => ForcedInv /\ TypeInv
  BY TypeInit DEF Init, ForcedInv
<1>2. TypeInv /\ ForcedInv /\ [Next]_vars => ForcedInv'
  BY DEF TypeInv, TypeOK, ForcedInv, Next, MainStep, ReaderStep, WriterStep, Start, Load,
      LoadFail, WaitOk, WaitError, Mark, MarkFail, Crash, Exit, Read, ReadFail, Send,
      SendCancelled, Close, Receive, Write, WriteFail, Save, SaveFail, Stored, Checkpoint,
      Finish, vars, process
<1>3. TypeInv /\ ForcedInv /\ [Next]_vars => [Guarded]_vars
  <2> SUFFICES ASSUME TypeInv, ForcedInv, [Next]_vars PROVE Guarded
    OBVIOUS
  <2>1. ASSUME writerPC = "save" \/ main = "mark" PROVE Guarded
    BY <2>1 DEF TypeInv, TypeOK, ControlOK, ForcedInv
  <2>2. ASSUME UNCHANGED state PROVE Guarded
    BY <2>2
  <2> QED
    BY <2>1, <2>2
    DEF Next, MainStep, ReaderStep, WriterStep, Start, Load, LoadFail, WaitOk, WaitError,
        Mark, MarkFail, Crash, Read, ReadFail, Send, SendCancelled, Close, Receive, Write,
        WriteFail, Save, SaveFail, Finish, vars
<1>4. TypeInv /\ [Next]_vars => TypeInv'
  BY TypeStep
<1> QED
  BY <1>1, <1>2, <1>3, <1>4, PTL DEF Spec, OnlyForcedUncompletes

-----------------------------------------------------------------------------
(* Memory.                                                                 *)

\* The chunk size in use is the one that follows from the sizes found.
SizingInv ==
    main \in {"pipeline", "mark"} =>
        sizing \in Sizings /\ batch = batchSizeForTable(sizing)

\* SizingInv is preserved.
LEMMA SizingStep == SizingInv /\ [Next]_vars => SizingInv'
BY DEF SizingInv, Next, MainStep, ReaderStep, WriterStep, Start, Load, LoadFail, WaitOk,
       WaitError, Mark, MarkFail, Crash, Exit, Read, ReadFail, Send, SendCancelled, Close,
       Receive, Write, WriteFail, Save, SaveFail, Finish, vars, process

\* A product that fits four times fits fewer times.
LEMMA FewTimes ==
    ASSUME NEW n \in 0..4, NEW b \in Nat, NEW a \in Nat, NEW limit \in Nat,
           4 * (b * (a * Overhead)) <= limit
    PROVE  n * b * a * Overhead <= limit
<1> DEFINE w == b * (a * Overhead)
<1>1. w \in Nat
  BY DEF Overhead
<1>2. n * b * a * Overhead = n * w
  <2>1. n * b * a * Overhead = (n * b) * (a * Overhead)
    BY DEF Overhead
  <2>2. (n * b) * (a * Overhead) = n * (b * (a * Overhead))
    BY DEF Overhead
  <2> QED
    BY <2>1, <2>2
<1>3. n = 0 \/ n = 1 \/ n = 2 \/ n = 3 \/ n = 4
  OBVIOUS
<1>4. 4 * w <= limit
  OBVIOUS
<1> HIDE DEF w
<1>5. n * w <= limit
  BY <1>1, <1>3, <1>4
<1> QED
  BY <1>2, <1>5

\* One chunk in each goroutine and two in the channel.
LEMMA FourInFlight ==
    ASSUME TypeOK
    PROVE  InFlight \in 0..4
<1> DEFINE sending == IF readerPC = "send" THEN 1 ELSE 0
           writing == IF writerPC \in {"write", "save"} THEN 1 ELSE 0
<1>1. Len(ch) \in Nat /\ Len(ch) <= 2
  BY DEF TypeOK, ChanCap
<1>2. sending \in 0..1 /\ writing \in 0..1
  OBVIOUS
<1>3. InFlight = Len(ch) + sending + writing
  BY DEF InFlight
<1> HIDE DEF sending, writing
<1> QED
  BY <1>1, <1>2, <1>3

\* For every table, whatever the flags and the sizes reported, the chunks in
\* flight of one table together stay within the memory that was free, unless
\* the floor of minBatch rows set the chunk size.
THEOREM ChunksFitTheorem == Spec => []ChunksFit
<1>1. Init => TypeInv /\ SizingInv
  BY TypeInit DEF Init, SizingInv
<1>2. TypeInv /\ SizingInv /\ [Next]_vars => (TypeInv /\ SizingInv)'
  BY TypeStep, SizingStep
<1>3. TypeInv /\ SizingInv => ChunksFit
  <2> SUFFICES ASSUME TypeInv, SizingInv, main = "pipeline", sizing.freeRAM > 0,
                      batch > MinBatch
               PROVE  InFlight * batch * AvgRowBytes(sizing) * Overhead <= sizing.freeRAM
    BY DEF ChunksFit
  <2>1. sizing \in Sizing /\ batch = batchSizeForTable(sizing)
    BY SizingsAssumption DEF SizingInv
  <2>2. RAMShare * (batch * (AvgRowBytes(sizing) * Overhead)) <= sizing.freeRAM
    BY <2>1, MemoryTheorem
  <2>3. batch \in Nat /\ AvgRowBytes(sizing) \in Nat /\ sizing.freeRAM \in Nat
    BY <2>1, BatchTheorem, AvgPositive DEF Sizing
  <2>4. InFlight \in 0..4
    BY FourInFlight DEF TypeInv
  <2> QED
    BY <2>2, <2>3, <2>4, FewTimes DEF RAMShare
<1> QED
  BY <1>1, <1>2, <1>3, PTL DEF Spec

-----------------------------------------------------------------------------
(* The rows left out.                                                      *)

\* A part of a sparse set is sparse.
LEMMA SparsePart ==
    ASSUME NEW g \in SparseSets, NEW h, h \subseteq g
    PROVE  h \in SparseSets
BY DEF SparseSets

\* With keys that survive the encoding no row is jumped over.
LEMMA NothingJumpable == KeysExact => Jumpable = {}
BY RestoredExact, RowsAssumption DEF Jumpable

\* So far the reader has left out single rows, all behind its cursor, and
\* those that a restored cursor jumped over.
SparseInv ==
    /\ pass.gaps \ Jumpable \in SparseSets
    /\ claim.gaps \ Jumpable \in SparseSets
    /\ readerPC = "read" => pass.gaps \subseteq 1..cursor
    /\ readerPC = "send" /\ pending.next # 0 => pass.gaps \subseteq 1..pending.next

\* The row between two chunks is not next to one left out before.
LEMMA SparseRead ==
    ASSUME TypeInv, SparseInv, Read
    PROVE  SparseInv'
<1> USE RowsAssumption DEF TypeInv
<1> DEFINE m == ChunkAt(cursor)
           new == (m.last + 1)..m.next
<1>1. cursor \in 0..Rows /\ batch \in Nat \ {0} /\ pass \in PassType
  BY BatchesPositive DEF Read, TypeOK, ControlOK, PassType
<1>2. pass.gaps \ Jumpable \in SparseSets /\ pass.gaps \subseteq 1..cursor /\ claim' = claim
  BY DEF SparseInv, Read
<1>3. CASE ~(m.first <= m.last)
  BY <1>2, <1>3 DEF Read, SparseInv
<1>4. CASE m.first <= m.last /\ ~HasMore(cursor)
  <2>1. m.next = 0 /\ new = {}
    BY <1>1, <1>4 DEF ChunkAt
  <2>2. pass'.gaps = pass.gaps
    BY <1>1, <1>4, <2>1 DEF Read, PassType
  <2> QED
    BY <1>2, <1>4, <2>1, <2>2 DEF Read, SparseInv
<1>5. CASE m.first <= m.last /\ HasMore(cursor)
  <2>1. m.last = cursor + batch /\ m.next = NextCursor(cursor)
    BY <1>5 DEF ChunkAt
  <2>2. pass'.gaps = pass.gaps \cup new /\ pending' = m /\ readerPC' = "send"
    BY <1>1, <1>5 DEF Read, PassType
  <2>3. new \subseteq {cursor + batch + 1} /\ cursor + batch + 1 \in 2..Rows
    BY <1>1, <1>5, <2>1, NumPKAssumption DEF NextCursor, HasMore
  <2>4. pass'.gaps \ Jumpable \in SparseSets
    <3>1. pass'.gaps \in SUBSET (1..Rows)
      BY <1>1, <2>2, <2>3 DEF PassType
    <3>2. ASSUME NEW r \in pass'.gaps \ Jumpable
          PROVE  r > 1 /\ r - 1 \notin pass'.gaps \ Jumpable
      BY <1>1, <1>2, <2>2, <2>3, <3>1 DEF SparseSets
    <3> QED
      BY <3>1, <3>2 DEF SparseSets
  <2>5. pass'.gaps \subseteq 1..m.next
    BY <1>1, <1>2, <2>1, <2>2, NumPKAssumption DEF NextCursor
  <2> QED
    BY <1>2, <2>2, <2>4, <2>5 DEF SparseInv
<1> QED
  BY <1>3, <1>4, <1>5

\* SparseInv is preserved by every step.
LEMMA SparseStep ==
    ASSUME TypeInv, SparseInv, [Next]_vars
    PROVE  SparseInv'
<1> USE DEF TypeInv
<1>1. {} \ Jumpable \in SparseSets
  BY DEF SparseSets
<1>2. ASSUME NEW z \in Sizings, NEW p \in ResumePoints, Load(z, p) PROVE SparseInv'
  <2>1. p \in 0..Rows /\ state.cursor \in 0..Rows
    BY RestoredType, RowsAssumption DEF ResumePoints, TypeOK, StateRows
  <2>2. Overshot(p) \subseteq Jumpable /\ Overshot(p) \subseteq 1..p
    <3>1. state.status = "progress" /\ state.cursor = 0 => p = 0
      BY DEF ResumePoints, Restored
    <3>2. state.status = "progress" => p \in Restored(state.cursor)
      BY DEF ResumePoints
    <3>3. ASSUME NEW r \in Overshot(p) PROVE r \in Jumpable /\ r \in 1..p
      <4>1. state.status = "progress" /\ r \in (state.cursor + 1)..p
        BY <3>3 DEF Overshot
      <4>2. state.cursor \in 1..(r - 1) /\ r \in 1..Rows /\ r <= p /\ r \in 1..p
        BY <2>1, <3>1, <4>1, RowsAssumption
      <4> QED
        BY <3>2, <4>1, <4>2 DEF Jumpable
    <3> QED
      BY <3>3
  <2>3. /\ pass'.gaps = (claim.gaps \cap 1..p) \cup Overshot(p)
        /\ claim' = claim /\ cursor' = p /\ readerPC' = "read"
    BY <1>2 DEF Load
  <2>4. pass'.gaps \ Jumpable \subseteq claim.gaps \ Jumpable
    BY <2>2, <2>3
  <2>5. pass'.gaps \ Jumpable \in SparseSets
    BY <2>4, SparsePart DEF SparseInv
  <2>6. pass'.gaps \subseteq 1..cursor'
    BY <2>2, <2>3
  <2> QED
    BY <2>3, <2>5, <2>6 DEF SparseInv
<1>3. ASSUME Exit, claim' \in {claim, [gaps |-> pass.gaps, exact |-> pass.exact]}
      PROVE  SparseInv'
  <2>1. pass'.gaps = {} /\ readerPC' = "idle"
    BY <1>3 DEF Exit, NoPass
  <2>2. claim'.gaps = claim.gaps \/ claim'.gaps = pass.gaps
    BY <1>3
  <2> QED
    BY <1>1, <2>1, <2>2 DEF SparseInv
<1>4. ASSUME LoadFail \/ WaitError \/ Mark \/ MarkFail \/ Crash PROVE SparseInv'
  BY <1>3, <1>4 DEF LoadFail, WaitError, Mark, MarkFail, Crash
<1>5. ASSUME Read PROVE SparseInv'
  BY <1>5, SparseRead
<1>6. ASSUME Send PROVE SparseInv'
  BY <1>6 DEF Send, SparseInv
<1>7. ASSUME Save \/ SaveFail PROVE SparseInv'
  <2>1. pass'.gaps = pass.gaps /\ UNCHANGED readerVars
    BY <1>7 DEF Save, SaveFail, TypeOK
  <2>2. claim'.gaps \ Jumpable \in SparseSets
    BY <1>7, SparsePart DEF Save, SaveFail, Stored, SparseInv
  <2> QED
    BY <2>1, <2>2 DEF SparseInv, readerVars
<1>8. ASSUME UNCHANGED <<pass, claim, cursor, pending>>, readerPC' \in {readerPC, "failed",
             "closed", "idle"}
      PROVE  SparseInv'
  BY <1>8 DEF SparseInv
<1>9. ASSUME SendCancelled PROVE SparseInv'
  BY <1>9 DEF SendCancelled, SparseInv
<1> QED
  BY <1>2, <1>4, <1>5, <1>6, <1>7, <1>8, <1>9
  DEF Next, MainStep, ReaderStep, WriterStep, Start, WaitOk, ReadFail, Close, Receive,
      Write, WriteFail, Finish, vars, readerVars, writerVars, process, channel

-----------------------------------------------------------------------------
(* The refinement.                                                         *)

\* What the steps of Transfer rely on.
CopyInv == CoverInv /\ CursorBehind /\ SparseInv /\ Jumpable = {}

\* Storing a checkpoint is Advance, or Finish after the last chunk.
LEMMA StoredCopies ==
    ASSUME CopyInv, writerPC = "save", Stored, target' = target
    PROVE  Promise!Next
<1> USE RowsAssumption
<1>1. /\ current \in Chunks /\ (1..EndOf(current)) \ pass.gaps \subseteq target
  BY SaveCovers DEF CopyInv
<1>2. /\ main \in {"pipeline", "mark"} /\ pass.done \in 0..Rows /\ state \in StateRows
      /\ current.first = pass.done + 1
  BY DEF CopyInv, CoverInv, TypeInv, TypeOK, ControlOK, PipelineInOrder
<1>3. /\ state'.status = "progress" /\ state'.cursor = current.next
      /\ claim'.gaps = pass.gaps \cap 1..EndOf(current)
  BY DEF Stored, Checkpoint
<1>4. claim'.gaps \in SparseSets
  <2>1. pass.gaps \in SparseSets
    BY DEF CopyInv, SparseInv
  <2> QED
    BY <1>3, <2>1, SparsePart
<1>5. (1..EndOf(current)) \ claim'.gaps \subseteq target
  BY <1>1, <1>3
<1>6. CASE current.next = 0
  <2>1. EndOf(current) = Rows
    BY <1>6 DEF EndOf
  <2>2. Promise!Finish
    BY <1>3, <1>4, <1>5, <1>6, <2>1 DEF Promise!Finish, Promise!Covers
  <2> QED
    BY <2>2 DEF Promise!Next
<1>7. CASE current.next # 0
  <2>1. EndOf(current) = current.next /\ current.next \in 1..Rows
    BY <1>1, <1>7 DEF EndOf, Chunks
  <2>2. state.status = "progress" => current.next > state.cursor
    <3>1. state.status = "progress" => state.cursor <= pass.done
      BY <1>2 DEF CopyInv, CursorBehind
    <3>2. current.first <= current.last /\ current.last <= current.next
      BY <1>1, <2>1 DEF Chunks
    <3> QED
      BY <1>1, <1>2, <2>1, <3>1, <3>2 DEF Chunks, StateRows
  <2>3. Promise!Advance
    BY <1>3, <1>4, <1>5, <2>1, <2>2 DEF Promise!Advance, Promise!Covers
  <2> QED
    BY <2>3 DEF Promise!Next
<1> QED
  BY <1>6, <1>7

\* Every step of Transfer is a step of TableCopy, or changes nothing it sees.
LEMMA StepCopies ==
    ASSUME CopyInv, [Next]_vars
    PROVE  Promise!Next \/ UNCHANGED <<target, state, claim>>
<1>0. TypeOK /\ ControlOK /\ CoverInv
  BY DEF CopyInv, CoverInv, TypeInv
<1>1. ASSUME Write \/ WriteFail PROVE Promise!Next
  <2>1. RowsOf(current) \subseteq 1..Rows
    BY <1>0, <1>1, RowsAssumption DEF Write, WriteFail, ControlOK, RowsOf, Chunks
  <2>2. target' \in SUBSET (1..Rows) /\ target \subseteq target'
    BY <1>0, <1>1, <2>1 DEF Write, WriteFail, TypeOK
  <2>3. UNCHANGED <<state, claim>>
    BY <1>1 DEF Write, WriteFail
  <2>4. Promise!Copy
    BY <2>2, <2>3 DEF Promise!Copy, Promise!record
  <2> QED
    BY <2>4 DEF Promise!Next
<1>2. ASSUME Save \/ SaveFail PROVE Promise!Next \/ UNCHANGED <<target, state, claim>>
  BY <1>2, StoredCopies DEF Save, SaveFail
<1>3. ASSUME Mark PROVE Promise!Next
  <2>1. pass.done = Rows
    BY <1>0, <1>3 DEF Mark, ControlOK, CoverInv, PipelineInOrder, TailPos, HeadPos
  <2>2. (1..Rows) \ pass.gaps \subseteq target
    BY <1>0, <1>3, <2>1 DEF Mark, CoverInv, DoneCovered
  <2>3. /\ state'.status = "completed" /\ state'.cursor = 0
        /\ claim'.gaps = pass.gaps /\ target' = target
    BY <1>3 DEF Mark, Completed
  <2>4. Promise!Finish
    BY <2>2, <2>3 DEF Promise!Finish, Promise!Covers, CopyInv, SparseInv
  <2> QED
    BY <2>4 DEF Promise!Next
<1> QED
  BY <1>1, <1>2, <1>3
  DEF Next, MainStep, ReaderStep, WriterStep, Start, Load, LoadFail, WaitOk, WaitError,
      MarkFail, Crash, Read, ReadFail, Send, SendCancelled, Close, Receive, Finish, vars

\* For a table whose keys come back from the state table as they went there,
\* transferTable implements TableCopy: every checkpoint and completion record
\* is true when it is written, later checkpoints are further on, and of two
\* neighbouring rows at least one is copied.
THEOREM CopiesTheorem ==
    ASSUME KeysExact
    PROVE  Spec => CopiesTable
<1>1. Spec => []CoverInv
  BY CoverInvariant
<1>2. Init => CursorBehind /\ SparseInv /\ Promise!Init
  BY NothingJumpable DEF Init, CursorBehind, SparseInv, NoPass, NoClaim, NoStateRow, SparseSets,
         Promise!Init
<1>3. CopyInv /\ [Next]_vars => CursorBehind' /\ SparseInv'
  BY CursorBehindStep, SparseStep DEF CopyInv, CoverInv
<1>4. CopyInv /\ [Next]_vars => [Promise!Next]_<<target, Promise!record>>
  BY StepCopies DEF Promise!record
<1>5. CoverInv /\ CursorBehind /\ SparseInv <=> CopyInv
  BY NothingJumpable DEF CopyInv
<1> QED
  BY <1>1, <1>2, <1>3, <1>4, <1>5, PTL DEF Spec, CopiesTable, Promise!Spec

-----------------------------------------------------------------------------
(* The number of rows.                                                     *)

Reading == readerPC \in {"read", "send"}

\* The rows of m are not left out, and the reader is past them.
Kept(m) == RowsOf(m) \cap pass.gaps = {} /\ (Reading => EndOf(m) <= cursor)

\* Rows are left out right behind the reader, where no chunk in flight is.
GapsBehind ==
    /\ Reading => pass.done <= cursor
    /\ readerPC = "read" => pass.gaps \subseteq 1..cursor
    /\ readerPC = "send" =>
         /\ pending = ChunkAt(cursor)
         /\ RowsOf(pending) \cap pass.gaps = {}
         /\ pass.gaps \subseteq 1..EndOf(pending)
    /\ \A i \in 1..Len(ch) : Kept(ch[i])
    /\ writerPC \in {"write", "save"} => Kept(current)

\* The number of rows up to position p that were not left out.
RowsUpTo(p) == Cardinality((1..p) \ pass.gaps)

\* The writer has counted the rows it has written.
Counted ==
    pass.exact =>
      /\ main \in {"pipeline", "mark"} /\ writerPC \in {"recv", "write", "finished"} =>
           total = RowsUpTo(pass.done)
      /\ writerPC = "save" => total = RowsUpTo(EndOf(current))

CountInv == CoverInv /\ GapsBehind /\ Counted /\ RowsExact

\* GapsBehind is preserved by the reader's steps.
LEMMA BehindRead ==
    ASSUME CoverInv, GapsBehind, Read
    PROVE  GapsBehind'
<1> DEFINE m == ChunkAt(cursor)
           new == (m.last + 1)..m.next
<1> USE RowsAssumption
<1>1. /\ cursor \in 0..Rows /\ batch \in Nat \ {0} /\ pass \in PassType
      /\ pass.gaps \subseteq 1..cursor /\ pass.done <= cursor
  BY BatchesPositive DEF Read, CoverInv, TypeInv, TypeOK, ControlOK, PassType, GapsBehind,
                         Reading
<1>2. UNCHANGED <<cursor, ch, writerPC, current, batch>>
  BY DEF Read, process, channel, writerVars
<1>3. CASE ~(m.first <= m.last)
  BY <1>2, <1>3 DEF Read, GapsBehind, Reading, Kept, RowsOf, EndOf
<1>4. CASE m.first <= m.last
  <2>1. /\ m \in Chunks /\ m.first = cursor + 1
        /\ m.next = 0 => m.last = Rows
    BY <1>1, <1>4, ChunkAtType
  <2>2. pass'.gaps = pass.gaps \cup new /\ pass'.done = pass.done
    BY <1>1, <1>4 DEF Read, PassType
  <2>3. readerPC' = "send" /\ pending' = m /\ readerPC = "read"
    BY <1>4 DEF Read
  <2>4. ASSUME NEW c \in Chunks, Kept(c) PROVE Kept(c)'
    <3>1. c.first \in 1..Rows /\ c.last \in 1..Rows /\ c.last <= EndOf(c)
      BY <2>4 DEF Chunks
    <3>2. EndOf(c) <= cursor /\ EndOf(c) \in 1..Rows
      BY <2>3, <2>4, <3>1 DEF Kept, Reading, EndOf, Chunks
    <3>3. RowsOf(c) \cap new = {}
      BY <1>1, <2>1, <3>1, <3>2 DEF RowsOf, Chunks
    <3>4. RowsOf(c) \cap pass'.gaps = {}
      BY <2>2, <2>4, <3>3 DEF Kept
    <3> QED
      BY <1>2, <3>2, <3>4 DEF Kept, RowsOf, EndOf
  <2>5. /\ \A i \in 1..Len(ch) : ch[i] \in Chunks
        /\ writerPC \in {"write", "save"} => current \in Chunks
    BY DEF CoverInv, TypeInv, TypeOK, ControlOK
  <2>6. /\ \A i \in 1..Len(ch') : Kept(ch[i])'
        /\ writerPC' \in {"write", "save"} => Kept(current)'
    BY <1>2, <2>4, <2>5 DEF GapsBehind, Kept, RowsOf, EndOf
  <2>7. RowsOf(m) \cap (pass.gaps \cup new) = {}
    BY <1>1, <2>1 DEF RowsOf, Chunks
  <2>8. pass.gaps \cup new \subseteq 1..EndOf(m)
    BY <1>1, <2>1 DEF Chunks, EndOf
  <2>9. m = ChunkAt(cursor)'
    BY <1>2 DEF ChunkAt, HasMore, NextCursor
  <2> QED
    BY <1>1, <1>2, <2>2, <2>3, <2>6, <2>7, <2>8, <2>9
    DEF GapsBehind, RowsOf, EndOf, Kept
<1> QED
  BY <1>3, <1>4

LEMMA BehindSend ==
    ASSUME CoverInv, GapsBehind, Send
    PROVE  GapsBehind'
<1> USE RowsAssumption
<1>1. /\ cursor \in 0..Rows /\ pending \in Chunks /\ pending.first = cursor + 1
      /\ pass.done \in 0..Rows /\ pass.done <= cursor
      /\ RowsOf(pending) \cap pass.gaps = {} /\ pass.gaps \subseteq 1..EndOf(pending)
  BY DEF Send, CoverInv, TypeInv, TypeOK, ControlOK, GapsBehind, Reading, ChunkAt
<1>2. UNCHANGED <<pass, writerPC, current>>
  BY DEF Send, writerVars
<1>3. cursor' >= cursor /\ cursor' \in 0..Rows
  BY <1>1 DEF Send, Chunks, EndOf
<1>4. Reading' => cursor' = EndOf(pending)
  BY DEF Send, Reading, EndOf
<1>5. ASSUME NEW c \in Chunks, Kept(c) PROVE Kept(c)'
  <2>1. EndOf(c) \in 1..Rows /\ EndOf(c) <= cursor
    BY <1>5 DEF Kept, Reading, Send, EndOf, Chunks
  <2> QED
    BY <1>1, <1>2, <1>3, <1>5, <2>1 DEF Kept, RowsOf, EndOf
<1>6. ASSUME NEW c, c = pending PROVE Kept(c)'
  <2>1. RowsOf(c) = RowsOf(pending) /\ EndOf(c) = EndOf(pending)
    BY <1>6
  <2>2. Reading' => EndOf(c) <= cursor'
    BY <1>3, <1>4, <2>1
  <2>3. RowsOf(c) \cap pass'.gaps = {}
    BY <1>1, <1>2, <2>1
  <2> QED
    BY <2>2, <2>3 DEF Kept, RowsOf, EndOf
<1>7. \A k \in 1..Len(ch') : Kept(ch[k])'
  <2>1. ASSUME NEW k \in 1..Len(ch')
        PROVE  \/ ch'[k] = pending
               \/ k \in 1..Len(ch) /\ ch'[k] = ch[k] /\ ch[k] \in Chunks
    BY <1>1, <2>1 DEF Send, CoverInv, TypeInv, TypeOK
  <2>2. \A k \in 1..Len(ch) : Kept(ch[k])
    BY DEF GapsBehind
  <2> QED
    BY <1>5, <1>6, <2>1, <2>2 DEF Kept, RowsOf, EndOf
<1>8. writerPC' \in {"write", "save"} => Kept(current)'
  <2>1. writerPC \in {"write", "save"} => current \in Chunks /\ Kept(current)
    BY DEF CoverInv, TypeInv, ControlOK, GapsBehind
  <2> QED
    BY <1>2, <1>5, <2>1 DEF Kept, RowsOf, EndOf
<1>9. readerPC' = "read" => pass'.gaps \subseteq 1..cursor'
  BY <1>1, <1>2, <1>4 DEF Reading
<1>10. readerPC' # "send" /\ pass'.done <= cursor'
  BY <1>1, <1>2, <1>3 DEF Send
<1> QED
  BY <1>7, <1>8, <1>9, <1>10 DEF GapsBehind

\* GapsBehind is preserved by every step.
LEMMA BehindStep ==
    ASSUME CoverInv, GapsBehind, [Next]_vars
    PROVE  GapsBehind'
<1> USE RowsAssumption
<1>0. TypeOK /\ ControlOK
  BY DEF CoverInv, TypeInv
<1>1. ASSUME LoadFail \/ WaitError \/ Mark \/ MarkFail \/ Crash PROVE GapsBehind'
  BY <1>1 DEF LoadFail, WaitError, Mark, MarkFail, Crash, Exit, GapsBehind, Reading
<1>2. ASSUME NEW z \in Sizings, NEW p \in ResumePoints, Load(z, p) PROVE GapsBehind'
  <2>1. p \in 0..Rows /\ Overshot(p) \subseteq 1..p
    BY <1>0, RestoredType DEF ResumePoints, Overshot, TypeOK, StateRows
  <2>2. pass'.done = p /\ pass'.gaps \subseteq 1..p /\ cursor' = p
    BY <1>2, <2>1 DEF Load
  <2>3. readerPC' = "read" /\ writerPC' = "recv" /\ ch' = <<>>
    BY <1>0, <1>2 DEF Load, ControlOK, channel
  <2> QED
    BY <2>1, <2>2, <2>3 DEF GapsBehind
<1>3. ASSUME UNCHANGED <<cursor, pending, pass, ch, current, batch>>,
             readerPC' = readerPC \/ readerPC' \notin {"read", "send"},
             writerPC' \in {"write", "save"} => writerPC \in {"write", "save"}
      PROVE  GapsBehind'
  BY <1>3 DEF GapsBehind, Reading, Kept, RowsOf, EndOf, ChunkAt, HasMore, NextCursor
<1>4. ASSUME (\E f \in BOOLEAN : Start(f)) \/ WaitOk \/ ReadFail \/ Close \/ Write
              \/ Finish \/ UNCHANGED vars
      PROVE  GapsBehind'
  BY <1>3, <1>4 DEF Start, WaitOk, ReadFail, Close, Write, Finish, vars, process,
                    readerVars, channel, writerVars
<1>5. ASSUME SendCancelled \/ WriteFail \/ SaveFail PROVE GapsBehind'
  BY <1>5 DEF SendCancelled, WriteFail, SaveFail, GapsBehind, Reading, Kept, RowsOf, EndOf,
              ChunkAt, HasMore, NextCursor, process, readerVars, channel, writerVars
<1>6. ASSUME Receive PROVE GapsBehind'
  <2>1. current' = ch[1] /\ 1 \in 1..Len(ch)
    BY <1>0, <1>6 DEF Receive, TypeOK
  <2>2. \A k \in 1..Len(ch') : k + 1 \in 1..Len(ch) /\ ch'[k] = ch[k + 1]
    BY <1>0, <1>6 DEF Receive, TypeOK
  <2> QED
    BY <1>6, <2>1, <2>2
    DEF Receive, GapsBehind, Reading, Kept, RowsOf, EndOf, ChunkAt, HasMore, NextCursor,
        readerVars, process
<1>7. ASSUME Save PROVE GapsBehind'
  <2>1. pass'.gaps = pass.gaps /\ pass'.done = EndOf(current)
    BY <1>0, <1>7 DEF Save, TypeOK
  <2>2. Reading => EndOf(current) <= cursor
    BY <1>7 DEF Save, GapsBehind, Kept
  <2>3. writerPC' = "recv" /\ UNCHANGED <<cursor, pending, ch, readerPC, batch>>
    BY <1>7 DEF Save, readerVars, channel, process
  <2> QED
    BY <2>1, <2>2, <2>3
    DEF GapsBehind, Reading, Kept, RowsOf, EndOf, ChunkAt, HasMore, NextCursor
<1> QED
  BY <1>1, <1>2, <1>4, <1>5, <1>6, <1>7, BehindRead, BehindSend
  DEF Next, MainStep, ReaderStep, WriterStep

\* The rows of a chunk add up with those before it.
LEMMA RowsAddUp ==
    ASSUME CoverInv, GapsBehind, writerPC \in {"write", "save"}
    PROVE  RowsUpTo(EndOf(current))
             = RowsUpTo(pass.done) + (current.last - current.first + 1)
<1> USE RowsAssumption
<1>1. /\ current \in Chunks /\ current.first = pass.done + 1 /\ pass.done \in 0..Rows
      /\ current.last \in 1..Rows /\ current.first <= current.last
      /\ current.last <= EndOf(current) /\ EndOf(current) \in 1..Rows
  BY DEF CoverInv, TypeInv, TypeOK, ControlOK, PipelineInOrder, Chunks, EndOf
<1>2. RowsOf(current) \cap pass.gaps = {} /\ Gapped(current)
  BY DEF GapsBehind, Kept, CoverInv, GapsRecorded
<1> DEFINE before == (1..pass.done) \ pass.gaps
           rows == current.first..current.last
<1>3. (1..EndOf(current)) \ pass.gaps = before \cup rows
  BY <1>1, <1>2 DEF RowsOf, Gapped
<1>4. before \cap rows = {}
  BY <1>1
<1>5. IsFiniteSet(before)
  <2>1. IsFiniteSet(1..pass.done)
    BY <1>1, FS_Interval
  <2> QED
    BY <2>1, FS_Difference
<1>6. IsFiniteSet(rows) /\ Cardinality(rows) = current.last - current.first + 1
  <2>1. current.first \in Int /\ current.last \in Int /\ ~(current.first > current.last)
    BY <1>1
  <2> QED
    BY <2>1, FS_Interval
<1>7. Cardinality(before \cup rows) = Cardinality(before) + Cardinality(rows)
  <2>1. Cardinality(before) \in Nat /\ Cardinality(rows) \in Nat
    BY <1>5, <1>6, FS_CardinalityType
  <2>2. Cardinality(before \cap rows) = 0
    BY <1>4, FS_EmptySet
  <2> HIDE DEF before, rows
  <2>3. Cardinality(before \cup rows)
          = Cardinality(before) + Cardinality(rows) - Cardinality(before \cap rows)
    BY <1>5, <1>6, FS_Union
  <2> QED
    BY <2>1, <2>2, <2>3
<1> QED
  BY <1>3, <1>6, <1>7 DEF RowsUpTo

\* The count and the record that is made of it are right after every step.
LEMMA CountStep ==
    ASSUME CountInv, GapsBehind', [Next]_vars
    PROVE  Counted' /\ RowsExact'
<1> USE RowsAssumption
<1> DEFINE Goal == Counted /\ RowsExact
<1>0. /\ TypeOK /\ ControlOK /\ CoverInv /\ GapsBehind /\ Goal
  BY DEF CountInv, CoverInv, TypeInv
<1>1. ASSUME UNCHANGED <<state, claim>> PROVE RowsExact'
  BY <1>0, <1>1 DEF RowsExact, Covered
<1>2. ASSUME Exit PROVE Counted'
  BY <1>2 DEF Exit, Counted
<1>3. ASSUME LoadFail \/ WaitError \/ MarkFail \/ Crash PROVE Goal'
  BY <1>1, <1>2, <1>3 DEF LoadFail, WaitError, MarkFail, Crash
<1>4. ASSUME NEW z \in Sizings, NEW p \in ResumePoints, Load(z, p) PROVE Goal'
  <2>1. ASSUME pass'.exact PROVE total' = RowsUpTo(pass.done)'
    <3>1. CASE state.status # "progress"
      <4>1. p = 0 /\ pass'.done = 0 /\ total' = 0
        BY <1>4, <3>1 DEF Load, ResumePoints, ResumeTotal
      <4>2. (1..0) \ pass'.gaps = {}
        OBVIOUS
      <4> QED
        BY <4>1, <4>2, FS_EmptySet DEF RowsUpTo
    <3>2. CASE state.status = "progress"
      <4>1. claim.exact /\ p = state.cursor /\ p # 0 /\ p \in 0..Rows
        BY <1>0, <1>4, <2>1, <3>2 DEF Load, TypeOK, StateRows
      <4>2. Overshot(p) = {}
        BY <4>1 DEF Overshot
      <4>3. pass'.done = p /\ pass'.gaps = claim.gaps \cap 1..p /\ total' = state.rows
        BY <1>4, <3>2, <4>2 DEF Load, ResumeTotal
      <4>4. Covered = (1..p) \ claim.gaps
        BY <3>2, <4>1 DEF Covered
      <4>5. (1..p) \ pass'.gaps = (1..p) \ claim.gaps
        BY <4>3
      <4> QED
        BY <1>0, <3>2, <4>1, <4>3, <4>4, <4>5 DEF RowsExact, RowsUpTo
    <3> QED
      BY <3>1, <3>2
  <2>2. writerPC' = "recv"
    BY <1>4 DEF Load
  <2>3. RowsExact'
    BY <1>1, <1>4 DEF Load
  <2> QED
    BY <2>1, <2>2, <2>3 DEF Counted
<1>5. ASSUME Read PROVE Goal'
  <2>1. pass'.done = pass.done /\ pass'.exact = pass.exact
    BY <1>0, <1>5 DEF Read, TypeOK
  <2>2. UNCHANGED <<main, writerPC, current, total>>
    BY <1>5 DEF Read, process, writerVars
  <2>3. ASSUME NEW q \in 0..cursor PROVE RowsUpTo(q)' = RowsUpTo(q)
    <3>1. CASE ~(ChunkAt(cursor).first <= ChunkAt(cursor).last)
      BY <1>5, <3>1 DEF Read, RowsUpTo
    <3>2. CASE ChunkAt(cursor).first <= ChunkAt(cursor).last
      <4> DEFINE m == ChunkAt(cursor)
      <4>1. m \in Chunks /\ m.first = cursor + 1 /\ cursor \in 0..Rows
        BY <1>0, <1>5, <3>2, ChunkAtType, BatchesPositive DEF Read, TypeOK, ControlOK
      <4>2. pass'.gaps = pass.gaps \cup ((m.last + 1)..m.next)
        BY <1>0, <1>5, <3>2 DEF Read, TypeOK
      <4>3. (1..q) \ pass'.gaps = (1..q) \ pass.gaps
        BY <4>1, <4>2 DEF Chunks
      <4> QED
        BY <4>3 DEF RowsUpTo
    <3> QED
      BY <3>1, <3>2
  <2>4. pass.done \in 0..cursor
    BY <1>0, <1>5 DEF Read, GapsBehind, Reading, TypeOK
  <2>5. writerPC = "save" => EndOf(current) \in 0..cursor
    BY <1>0, <1>5 DEF Read, GapsBehind, Kept, Reading, ControlOK, EndOf, Chunks, TypeOK
  <2>6. Counted'
    BY <1>0, <2>1, <2>2, <2>3, <2>4, <2>5 DEF Counted, RowsUpTo, EndOf
  <2> QED
    BY <1>1, <1>5, <2>6 DEF Read
<1>6. ASSUME Write PROVE Goal'
  <2>1. total' = total + (current.last - current.first + 1) /\ writerPC' = "save"
    BY <1>6 DEF Write
  <2>2. pass.exact => total = RowsUpTo(pass.done)
    BY <1>0, <1>6 DEF Write, Counted, ControlOK, TypeOK
  <2>3. RowsUpTo(EndOf(current))'= RowsUpTo(EndOf(current))
    BY <1>6 DEF Write, RowsUpTo, EndOf
  <2>4. Counted'
    BY <1>0, <1>6, <2>1, <2>2, <2>3, RowsAddUp DEF Write, Counted
  <2> QED
    BY <1>1, <1>6, <2>4 DEF Write
<1>7. ASSUME writerPC = "save", Stored PROVE RowsExact'
  <2>1. current \in Chunks
    BY <1>0, <1>7 DEF ControlOK
  <2>2. /\ state'.status = "progress" /\ state'.rows = total
        /\ state'.cursor = current.next
        /\ claim'.gaps = pass.gaps \cap 1..EndOf(current) /\ claim'.exact = pass.exact
    BY <1>7 DEF Stored, Checkpoint
  <2>3. Covered' = (1..EndOf(current)) \ pass.gaps
    BY <2>1, <2>2 DEF Covered, EndOf, Chunks
  <2>4. pass.exact => total = RowsUpTo(EndOf(current))
    BY <1>0, <1>7 DEF Counted
  <2> QED
    BY <2>2, <2>3, <2>4 DEF RowsExact, RowsUpTo
<1>8. ASSUME Save PROVE Goal'
  <2>1. /\ pass'.gaps = pass.gaps /\ pass'.done = EndOf(current)
        /\ pass'.exact = pass.exact
    BY <1>0, <1>8 DEF Save, TypeOK
  <2>2. Counted'
    BY <1>0, <1>8, <2>1 DEF Save, Counted, RowsUpTo
  <2> QED
    BY <1>7, <1>8, <2>2 DEF Save
<1>9. ASSUME SaveFail PROVE Goal'
  <2>1. Counted'
    BY <1>9 DEF SaveFail, Counted
  <2> QED
    BY <1>1, <1>7, <1>9, <2>1 DEF SaveFail
<1>10. ASSUME Mark PROVE Goal'
  <2>1. pass.done = Rows
    BY <1>0, <1>10 DEF Mark, ControlOK, CoverInv, PipelineInOrder, TailPos, HeadPos
  <2>2. pass.exact => total = RowsUpTo(Rows)
    BY <1>0, <1>10, <2>1 DEF Mark, ControlOK, Counted
  <2>3. /\ state'.status = "completed" /\ state'.rows = total
        /\ claim'.gaps = pass.gaps /\ claim'.exact = pass.exact
    BY <1>10 DEF Mark, Completed
  <2>4. RowsExact'
    BY <2>2, <2>3 DEF RowsExact, Covered, RowsUpTo
  <2> QED
    BY <1>2, <1>10, <2>4 DEF Mark
<1>11. ASSUME UNCHANGED <<state, claim, pass, total, current>>,
              writerPC' = "save" => writerPC = "save",
              main' \in {"pipeline", "mark"}
                /\ writerPC' \in {"recv", "write", "finished"} =>
                  main \in {"pipeline", "mark"} /\ writerPC \in {"recv", "write", "finished"}
       PROVE  Goal'
  BY <1>0, <1>1, <1>11 DEF Counted, RowsUpTo, EndOf
<1>12. ASSUME WaitOk \/ ReadFail \/ Send \/ SendCancelled \/ Close \/ Finish
               \/ UNCHANGED vars
       PROVE  Goal'
  BY <1>11, <1>12 DEF WaitOk, ReadFail, Send, SendCancelled, Close, Finish, vars, process,
                      readerVars, channel, writerVars
<1>13. ASSUME (\E f \in BOOLEAN : Start(f)) \/ WriteFail PROVE Goal'
  BY <1>0, <1>1, <1>13 DEF Start, WriteFail, Counted, ControlOK, writerVars
<1>14. ASSUME Receive PROVE Goal'
  BY <1>0, <1>1, <1>14 DEF Receive, Counted, RowsUpTo, process
<1> QED
  BY <1>3, <1>4, <1>5, <1>6, <1>8, <1>9, <1>10, <1>12, <1>13, <1>14
  DEF Next, MainStep, ReaderStep, WriterStep

\* rows_so_far counts every row once, although what was written after the last
\* checkpoint is written again on resume, unless a pass started over from the
\* end of the table or a restored cursor jumped.
THEOREM RowsTheorem == Spec => []RowsExact
<1>1. Spec => []CoverInv
  BY CoverInvariant
<1>2. Init => GapsBehind /\ Counted /\ RowsExact
  BY DEF Init, GapsBehind, Reading, Counted, RowsExact, NoStateRow
<1>3. CoverInv /\ GapsBehind /\ Counted /\ RowsExact /\ [Next]_vars
        => GapsBehind' /\ Counted' /\ RowsExact'
  BY BehindStep, CountStep DEF CountInv
<1> QED
  BY <1>1, <1>2, <1>3, PTL DEF Spec
=============================================================================
