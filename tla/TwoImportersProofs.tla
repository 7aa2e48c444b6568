------------------------- MODULE TwoImportersProofs -------------------------
(* What two importers that share a state row without a lock still promise. *)
EXTENDS TwoImporters, TransferProofs

\* The theorems about Transfer, for the second importer.
Second == INSTANCE TransferProofs WITH
    runs <- runs2, main <- main2, forced <- forced2, sizing <- sizing2,
    batch <- batch2, readerPC <- readerPC2, cursor <- cursor2,
    pending <- pending2, ch <- ch2, closed <- closed2, writerPC <- writerPC2,
    current <- current2, total <- total2, pass <- pass2

\* Each importer for itself keeps the invariant of Transfer.
BothInv == CoverInv /\ Second!CoverInv

\* The second importer of TwoImporters is the one the theorems are about.
LEMMA SameSecond ==
    /\ Other!Init <=> Second!Init
    /\ Other!Next <=> Second!Next
<1>1. Other!Init <=> Second!Init
  BY DEF Other!Init, Second!Init, Other!NoStateRow, Second!NoStateRow, Other!NoSizing,
         Second!NoSizing, Other!NoChunk, Second!NoChunk, Other!NoPass, Second!NoPass,
         Other!NoClaim, Second!NoClaim
<1>2. \A z : Other!batchSizeForTable(z) = Second!batchSizeForTable(z)
  BY DEF Other!batchSizeForTable, Second!batchSizeForTable, Other!MemoryCap,
         Second!MemoryCap, Other!MemSafeBatch, Second!MemSafeBatch, Other!NetworkCap,
         Second!NetworkCap, Other!AvgRowBytes, Second!AvgRowBytes, Other!SizeKnown,
         Second!SizeKnown, Other!AtMost, Second!AtMost, Other!RAMShare,
         Second!RAMShare, Other!Overhead, Second!Overhead
<1>3. Other!ResumePoints = Second!ResumePoints
  <2>1. \A v : Other!PositionOf(v) = Second!PositionOf(v)
    BY DEF Other!PositionOf, Second!PositionOf, Other!Cardinality, Second!Cardinality
  <2>2. \A v : Other!ToFloat(v) = Second!ToFloat(v)
    BY DEF Other!ToFloat, Second!ToFloat, Other!Rounded, Second!Rounded, Other!Ulp,
           Second!Ulp, Other!RoundHalfEven, Second!RoundHalfEven
  <2>3. \A v : Other!Decoded(v) = Second!Decoded(v)
    BY <2>2 DEF Other!Decoded, Second!Decoded, Other!ToInt64, Second!ToInt64,
           Other!MaxInt64, Second!MaxInt64, Other!MinInt64, Second!MinInt64, Other!ToText,
           Second!ToText, Other!Utf8Byte, Second!Utf8Byte, Other!Replacement, Second!Replacement
  <2> QED
    BY <2>1, <2>3 DEF Other!ResumePoints, Second!ResumePoints, Other!Restored, Second!Restored
<1>4. Other!Exit <=> Second!Exit
  BY DEF Other!Exit, Second!Exit, Other!NoSizing, Second!NoSizing, Other!NoChunk,
         Second!NoChunk, Other!NoPass, Second!NoPass
<1>5. \A f : Other!Start(f) <=> Second!Start(f)
  BY DEF Other!Start, Second!Start, Other!readerVars, Second!readerVars,
         Other!channel, Second!channel, Other!writerVars, Second!writerVars
<1>6. \A z, p : Other!Load(z, p) <=> Second!Load(z, p)
  BY <1>2 DEF Other!Load, Second!Load, Other!ResumeTotal, Second!ResumeTotal,
         Other!Overshot, Second!Overshot, Other!channel, Second!channel
<1>7. /\ Other!LoadFail <=> Second!LoadFail
      /\ Other!WaitOk <=> Second!WaitOk
      /\ Other!WaitError <=> Second!WaitError
      /\ Other!Mark <=> Second!Mark
      /\ Other!MarkFail <=> Second!MarkFail
      /\ Other!Crash <=> Second!Crash
  BY <1>4 DEF Other!LoadFail, Second!LoadFail, Other!WaitOk, Second!WaitOk,
         Other!WaitError, Second!WaitError, Other!Mark, Second!Mark, Other!MarkFail,
         Second!MarkFail, Other!Crash, Second!Crash, Other!Completed,
         Second!Completed, Other!readerVars, Second!readerVars, Other!channel,
         Second!channel, Other!writerVars, Second!writerVars
<1>8. Other!Read <=> Second!Read
  BY DEF Other!Read, Second!Read, Other!ArgsMatch, Second!ArgsMatch,
         Other!Placeholders, Second!Placeholders, Other!ChunkAt, Second!ChunkAt,
         Other!HasMore, Second!HasMore, Other!NextCursor, Second!NextCursor,
         Other!process, Second!process, Other!channel, Second!channel,
         Other!writerVars, Second!writerVars
<1>9. /\ Other!ReadFail <=> Second!ReadFail
      /\ Other!Send <=> Second!Send
      /\ Other!SendCancelled <=> Second!SendCancelled
      /\ Other!Close <=> Second!Close
  BY DEF Other!ReadFail, Second!ReadFail, Other!Send, Second!Send,
         Other!SendCancelled, Second!SendCancelled, Other!Close, Second!Close,
         Other!Cancelled, Second!Cancelled, Other!NoChunk, Second!NoChunk,
         Other!ChanCap, Second!ChanCap, Other!process, Second!process, Other!channel,
         Second!channel, Other!writerVars, Second!writerVars
<1>10. /\ Other!Receive <=> Second!Receive
       /\ Other!Write <=> Second!Write
       /\ Other!WriteFail <=> Second!WriteFail
  BY DEF Other!Receive, Second!Receive, Other!Write, Second!Write, Other!WriteFail,
         Second!WriteFail, Other!RowsOf, Second!RowsOf, Other!NoChunk, Second!NoChunk,
         Other!process, Second!process, Other!readerVars, Second!readerVars,
         Other!channel, Second!channel
<1>11. /\ Other!Save <=> Second!Save
       /\ Other!SaveFail <=> Second!SaveFail
       /\ Other!Finish <=> Second!Finish
  BY DEF Other!Save, Second!Save, Other!SaveFail, Second!SaveFail, Other!Finish,
         Second!Finish, Other!Stored, Second!Stored, Other!Checkpoint,
         Second!Checkpoint, Other!EndOf, Second!EndOf, Other!NoChunk, Second!NoChunk,
         Other!process, Second!process, Other!readerVars, Second!readerVars,
         Other!channel, Second!channel
<1> QED
  BY <1>1, <1>3, <1>5, <1>6, <1>7, <1>8, <1>9, <1>10, <1>11
     DEF Other!Next, Second!Next, Other!MainStep, Second!MainStep, Other!ReaderStep,
         Second!ReaderStep, Other!WriterStep, Second!WriterStep

\* A step of either importer keeps its own invariant and the other's.
LEMMA BothStep == BothInv /\ [BothNext]_<<vars, secondVars>> => BothInv'
<1> SUFFICES ASSUME CoverInv, Second!CoverInv, [BothNext]_<<vars, secondVars>>
             PROVE  CoverInv' /\ Second!CoverInv'
  BY DEF BothInv
<1> USE RowsAssumption, NumPKAssumption, KeyKindAssumption, KeyAssumption, FloatAssumption,
        FlagsAssumption, SizesAssumption, SizingsAssumption, MaxRunsAssumption
<1>1. ASSUME [Next]_vars, UNCHANGED secondVars PROVE CoverInv' /\ Second!CoverInv'
  <2>1. CoverInv'
    BY <1>1, TypeStep, OrderStep, GapsStep, CoverStep DEF CoverInv
  <2>2. target \subseteq target'
    BY <1>1, TargetGrows
  <2>3. Second!CheckpointCoversPrefix' /\ Second!CompletedCoversTable'
    BY <2>1
    DEF CoverInv, CheckpointCoversPrefix, Second!CheckpointCoversPrefix,
        CompletedCoversTable, Second!CompletedCoversTable
  <2>4. UNCHANGED <<Second!process, Second!readerVars, Second!channel,
                    Second!writerVars, pass2>>
    BY <1>1 DEF secondVars, Second!process, Second!readerVars, Second!channel,
                Second!writerVars
  <2>5. /\ target' \in SUBSET (1..Rows)
        /\ state' \in Second!StateRows /\ claim' \in Second!ClaimType
    BY <2>1
    DEF CoverInv, TypeInv, TypeOK, StateRows, Second!StateRows, Second!ClaimType
  <2>6. Second!CoverInv'
    BY <2>2, <2>3, <2>4, <2>5, Second!CoverBystander DEF Sizing, Second!Sizing
  <2> QED
    BY <2>1, <2>6
<1>2. ASSUME Other!Next, UNCHANGED firstVars PROVE CoverInv' /\ Second!CoverInv'
  <2>1. [Second!Next]_(Second!vars)
    BY <1>2, SameSecond
  <2>2. Second!CoverInv'
    BY <2>1, Second!TypeStep, Second!OrderStep, Second!GapsStep, Second!CoverStep
    DEF Second!CoverInv, Sizing, Second!Sizing
  <2>3. target \subseteq target'
    BY <2>1, Second!TargetGrows DEF Sizing, Second!Sizing
  <2>4. CheckpointCoversPrefix' /\ CompletedCoversTable'
    BY <2>2
    DEF Second!CoverInv, CheckpointCoversPrefix, Second!CheckpointCoversPrefix,
        CompletedCoversTable, Second!CompletedCoversTable
  <2>5. /\ target' \in SUBSET (1..Rows) /\ state' \in StateRows /\ claim' \in ClaimType
    BY <2>2
    DEF Second!CoverInv, Second!TypeInv, Second!TypeOK, StateRows, Second!StateRows,
        ClaimType
  <2>6. CoverInv'
    BY <1>2, <2>3, <2>4, <2>5, CoverBystander DEF firstVars
  <2> QED
    BY <2>2, <2>6
<1>3. \/ [Next]_vars /\ UNCHANGED secondVars
      \/ Other!Next /\ UNCHANGED firstVars
  BY DEF BothNext
<1> QED
  BY <1>1, <1>2, <1>3

\* BothInv is an inductive invariant of TwoImporters.
LEMMA BothInvariant == BothSpec => []BothInv
<1>1. BothInit => BothInv
  <2>1. Init => CoverInv
    BY CoverInit
  <2>2. Second!Init => Second!CoverInv
    BY Second!CoverInit, RowsAssumption, NumPKAssumption, KeyKindAssumption, KeyAssumption,
       FloatAssumption, FlagsAssumption, SizesAssumption, SizingsAssumption,
       MaxRunsAssumption
    DEF Sizing, Second!Sizing
  <2> QED
    BY <2>1, <2>2, SameSecond DEF BothInit, BothInv
<1> QED
  BY <1>1, BothStep, PTL DEF BothSpec

\* However two importers of any table overwrite each other's checkpoints, a
\* checkpoint never claims a row that is not in YDB.
THEOREM SharedCheckpointTheorem == BothSpec => []CheckpointCoversPrefix
<1>1. BothInv => CheckpointCoversPrefix
  BY DEF BothInv, CoverInv
<1> QED
  BY <1>1, BothInvariant, PTL

\* ... and neither does a completion record.
THEOREM SharedCompletedTheorem == BothSpec => []CompletedCoversTable
<1>1. BothInv => CompletedCoversTable
  BY DEF BothInv, CoverInv
<1> QED
  BY <1>1, BothInvariant, PTL

-----------------------------------------------------------------------------
(* The rows left out.                                                      *)

\* The rows left out are the same for both importers.
LEMMA SameLoss ==
    /\ Second!Jumpable = Jumpable
    /\ Second!SparseSets = SparseSets
<1>1. \A v : Second!PositionOf(v) = PositionOf(v)
  BY DEF Second!PositionOf, PositionOf, Second!Cardinality, Cardinality
<1>2. \A v : Second!ToFloat(v) = ToFloat(v)
  BY DEF Second!ToFloat, ToFloat, Second!Rounded, Rounded, Second!Ulp, Ulp,
         Second!RoundHalfEven, RoundHalfEven
<1>3. \A v : Second!Decoded(v) = Decoded(v)
  <2>1. Second!MaxInt64 = MaxInt64 /\ Second!MinInt64 = MinInt64
    BY DEF Second!MaxInt64, MaxInt64, Second!MinInt64, MinInt64
  <2>2. \A v : Second!ToInt64(v) = ToInt64(v)
    BY <2>1, Zenon DEF Second!ToInt64, ToInt64
  <2>3. \A v : Second!ToText(v) = ToText(v)
    BY DEF Second!ToText, ToText, Second!Utf8Byte, Utf8Byte, Second!Replacement, Replacement
  <2> QED
    BY <1>2, <2>2, <2>3, Zenon DEF Second!Decoded, Decoded
<1>4. \A c : Second!Restored(c) = Restored(c)
  BY <1>1, <1>3 DEF Second!Restored, Restored
<1> QED
  BY <1>4 DEF Second!Jumpable, Jumpable, Second!SparseSets, SparseSets

\* Each importer, and the record they share, leaves out single rows.
BothSparse == SparseInv /\ Second!SparseInv

\* A step of either importer keeps both invariants.
LEMMA SparseBothStep ==
    BothInv /\ BothSparse /\ [BothNext]_<<vars, secondVars>> => BothSparse'
<1> SUFFICES ASSUME CoverInv, Second!CoverInv, SparseInv, Second!SparseInv,
                    [BothNext]_<<vars, secondVars>>
             PROVE  SparseInv' /\ Second!SparseInv'
  BY DEF BothInv, BothSparse
<1> USE RowsAssumption, NumPKAssumption, KeyKindAssumption, KeyAssumption, FloatAssumption,
        FlagsAssumption, SizesAssumption, SizingsAssumption, MaxRunsAssumption
<1>1. ASSUME [Next]_vars, UNCHANGED secondVars PROVE SparseInv' /\ Second!SparseInv'
  <2>1. SparseInv'
    BY <1>1, SparseStep DEF CoverInv
  <2>2. claim'.gaps \ Second!Jumpable \in Second!SparseSets
    BY <2>1, SameLoss DEF SparseInv
  <2>3. UNCHANGED <<pass2, readerPC2, cursor2, pending2>>
    BY <1>1 DEF secondVars
  <2>4. Second!SparseInv'
    BY <2>2, <2>3 DEF Second!SparseInv
  <2> QED
    BY <2>1, <2>4
<1>2. ASSUME Other!Next, UNCHANGED firstVars PROVE SparseInv' /\ Second!SparseInv'
  <2>1. [Second!Next]_(Second!vars)
    BY <1>2, SameSecond
  <2>2. Second!SparseInv'
    BY <2>1, Second!SparseStep DEF Second!CoverInv, Sizing, Second!Sizing
  <2>3. claim'.gaps \ Jumpable \in SparseSets
    BY <2>2, SameLoss DEF Second!SparseInv
  <2>4. UNCHANGED <<pass, readerPC, cursor, pending>>
    BY <1>2 DEF firstVars, readerVars
  <2>5. SparseInv'
    BY <2>3, <2>4 DEF SparseInv
  <2> QED
    BY <2>2, <2>5
<1>3. \/ [Next]_vars /\ UNCHANGED secondVars
      \/ Other!Next /\ UNCHANGED firstVars
  BY DEF BothNext
<1> QED
  BY <1>1, <1>2, <1>3

\* However two importers overwrite each other's checkpoints and resume from
\* them, a completed table lacks no rows but those that a restored cursor can
\* jump over and single ones, never the first.
THEOREM SharedLossTheorem == BothSpec => []LossExplained
<1>1. BothSpec => []BothInv
  BY BothInvariant
<1>2. BothInit => BothSparse
  <2>1. {} \ Jumpable \in SparseSets
    BY DEF SparseSets
  <2>2. Init => SparseInv
    BY <2>1 DEF Init, SparseInv, NoPass, NoClaim
  <2>3. Second!Init => Second!SparseInv
    BY <2>1, SameLoss
    DEF Second!Init, Second!SparseInv, Second!NoPass, Second!NoClaim
  <2> QED
    BY <2>2, <2>3, SameSecond DEF BothInit, BothSparse
<1>3. BothInv /\ BothSparse /\ [BothNext]_<<vars, secondVars>> => BothSparse'
  BY SparseBothStep
<1>4. BothInv /\ BothSparse => LossExplained
  <2> SUFFICES ASSUME BothInv, BothSparse, state.status = "completed"
               PROVE  ((1..Rows) \ target) \ Jumpable \in SparseSets
    BY DEF LossExplained
  <2>1. (1..Rows) \ claim.gaps \subseteq target
    BY DEF BothInv, CoverInv, CompletedCoversTable
  <2>2. ((1..Rows) \ target) \ Jumpable \subseteq claim.gaps \ Jumpable
    BY <2>1
  <2> QED
    BY <2>2, SparsePart DEF BothSparse, SparseInv
<1> QED
  BY <1>1, <1>2, <1>3, <1>4, PTL DEF BothSpec

\* With keys that come back as they were saved, two importers leave out no more
\* than one does: single rows after full chunks, never the first row.
THEOREM SharedCopyTheorem ==
    ASSUME KeysExact
    PROVE  BothSpec => [](state.status = "completed" => (1..Rows) \ target \in SparseSets)
<1>1. LossExplained => (state.status = "completed" => (1..Rows) \ target \in SparseSets)
  <2>1. ((1..Rows) \ target) \ Jumpable = (1..Rows) \ target
    BY NothingJumpable
  <2> QED
    BY <2>1 DEF LossExplained
<1> QED
  BY <1>1, SharedLossTheorem, PTL
=============================================================================
