--------------------------- MODULE PartitionRows ---------------------------
(***************************************************************************)
(* partitionRowsBySize: the rows of a chunk are split into batches small   *)
(* enough for one statement of a transaction.  The recursion is run on an  *)
(* explicit stack, one call per step: the last entry is the call to be     *)
(* evaluated, the entries below it are the right halves that wait for      *)
(* their left sibling.                                                     *)
(***************************************************************************)
EXTENDS Integers, Sequences

CONSTANTS
    Inputs,    \* chunks to split: n rows, of which the first i have the
               \* estimated size upto[i] (estimateRowSizeBytes)
    MaxBytes   \* maxTxExecBytes

\* Every row has a positive estimate (at least 64 bytes), so sums ascend.
ASSUME InputsAssumption ==
    \A c \in Inputs :
        /\ c.n \in Nat /\ c.upto \in [0..c.n -> Nat]
        /\ \A i, j \in 0..c.n : i < j => c.upto[i] < c.upto[j]
ASSUME MaxBytesAssumption == MaxBytes \in Nat

VARIABLES
    chunk,  \* the argument rows
    stack,  \* calls not yet evaluated
    out     \* batches returned so far, in order

vars == <<chunk, stack, out>>

\* The rows lo..hi, as an argument or as a batch.
Slice(lo, hi) == [lo |-> lo, hi |-> hi]
Total(s) == chunk.upto[s.hi] - chunk.upto[s.lo - 1]

Top == stack[Len(stack)]
Below == SubSeq(stack, 1, Len(stack) - 1)

Init ==
    /\ chunk \in Inputs
    /\ stack = <<Slice(1, chunk.n)>>
    /\ out = <<>>

-----------------------------------------------------------------------------
\* len(rows) == 0: return nil.
ReturnNil ==
    /\ stack # <<>>
    /\ Top.hi < Top.lo
    /\ stack' = Below
    /\ UNCHANGED <<chunk, out>>

\* Mutant of Fits: the limit is not enforced on a single row or a pair.
FitsLoosely ==
    stack # <<>> /\ Top.lo <= Top.hi /\ (Total(Top) <= MaxBytes \/ Top.hi - Top.lo < 2)

\* Mutant of Fits: the test for no rows at all is missing.
FitsEvenEmpty == stack # <<>> /\ Total(Top) <= MaxBytes

\* total <= maxBytes.
Fits == stack # <<>> /\ Top.lo <= Top.hi /\ Total(Top) <= MaxBytes

\* Return the rows as one batch.
ReturnBatch ==
    /\ Fits
    /\ stack' = Below
    /\ out' = Append(out, Top)
    /\ UNCHANGED chunk

\* Mutant of Mid: half of the last index, which is 0 for two rows.
MidOfLastIndex == (Top.hi - Top.lo) \div 2

\* mid := len(rows) / 2.
Mid == (Top.hi - Top.lo + 1) \div 2

\* Mutant of Split: the row in the middle belongs to neither half.
SplitLosesMiddle ==
    /\ stack # <<>>
    /\ Top.lo <= Top.hi /\ ~Fits
    /\ stack' = Below \o <<Slice(Top.lo + Mid + 1, Top.hi), Slice(Top.lo, Top.lo + Mid - 1)>>
    /\ UNCHANGED <<chunk, out>>

\* rows[:mid] is evaluated first, then rows[mid:].
Split ==
    /\ stack # <<>>
    /\ Top.lo <= Top.hi /\ ~Fits
    /\ stack' = Below \o <<Slice(Top.lo + Mid, Top.hi), Slice(Top.lo, Top.lo + Mid - 1)>>
    /\ UNCHANGED <<chunk, out>>

Next == ReturnNil \/ ReturnBatch \/ Split

Spec == Init /\ [][Next]_vars
\* A sequential function runs until it returns.
FairSpec == Spec /\ WF_vars(Next)

-----------------------------------------------------------------------------
(* Properties.                                                             *)

TypeOK ==
    /\ chunk.n \in Nat /\ chunk.upto \in [0..chunk.n -> Nat]
    /\ stack \in Seq([lo : 1..(chunk.n + 1), hi : 0..chunk.n])
    /\ out \in Seq([lo : 1..chunk.n, hi : 1..chunk.n])

\* The last row that a batch holds already.
Returned == IF out = <<>> THEN 0 ELSE out[Len(out)].hi

\* No row is lost, duplicated or reordered: the batches returned so far and
\* the calls still to be evaluated, left to right, are consecutive slices of
\* the chunk from its first row to its last.
Lossless ==
    /\ out # <<>> => out[1].lo = 1
    /\ \A i \in 1..(Len(out) - 1) : out[i + 1].lo = out[i].hi + 1
    /\ stack = <<>> => Returned = chunk.n
    /\ stack # <<>> => Top.lo = Returned + 1 /\ stack[1].hi = chunk.n
    /\ \A i \in 1..(Len(stack) - 1) : stack[i].lo = stack[i + 1].hi + 1

\* A row that is too large for a statement by itself.
Oversized(i) == chunk.upto[i] - chunk.upto[i - 1] > MaxBytes
NoOversizedRow == \A i \in 1..chunk.n : ~Oversized(i)

\* The function returns for no chunk with an oversized row: such a row is
\* never slipped into a statement, alone or with others, and the call for
\* it repeats for ever instead (rows[mid:] of one row).
ReturnsOnlyModest == stack = <<>> => NoOversizedRow

\* A chunk without an oversized row is split in the end.
SplitsModestChunks == NoOversizedRow ~> (stack = <<>>)
=============================================================================
