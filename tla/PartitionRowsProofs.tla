------------------------ MODULE PartitionRowsProofs ------------------------
(* Theorems about PartitionRows, for every chunk and every limit.          *)
EXTENDS PartitionRows, SequenceTheorems, TLAPS

\* Slices handled by the recursion are within the chunk, and an empty one is
\* rows[i:i].
Slices == {s \in [lo : 1..(chunk.n + 1), hi : 0..chunk.n] : s.lo <= s.hi + 1}

\* No row returned so far is oversized.
ReturnedModest == \A i \in 1..Returned : ~Oversized(i)

PartInv ==
    /\ chunk \in Inputs
    /\ stack \in Seq(Slices)
    /\ out \in Seq([lo : 1..chunk.n, hi : 1..chunk.n])
    /\ Lossless /\ ReturnedModest

\* The fields of a slice.
LEMMA SliceFacts ==
    ASSUME chunk.n \in Nat, NEW s \in Slices
    PROVE  s.lo \in 1..(chunk.n + 1) /\ s.hi \in 0..chunk.n /\ s.lo <= s.hi + 1
BY DEF Slices

\* The last element of a sequence, and what precedes it.
LEMMA LastAndFront ==
    ASSUME NEW S, NEW s \in Seq(S), s # <<>>
    PROVE  /\ Len(s) \in Nat \ {0} /\ s[Len(s)] \in S
           /\ SubSeq(s, 1, Len(s) - 1) \in Seq(S)
           /\ Len(SubSeq(s, 1, Len(s) - 1)) = Len(s) - 1
           /\ \A i \in 1..(Len(s) - 1) : SubSeq(s, 1, Len(s) - 1)[i] = s[i]
<1>1. Len(s) \in Nat \ {0} /\ \A i \in 1..Len(s) : s[i] \in S
  OBVIOUS
<1>2. PICK k \in Nat : Len(s) = k + 1
  BY <1>1
<1>3. \A i \in 1..k : s[i] \in S
  BY <1>1, <1>2
<1>4. /\ SubSeq(s, 1, k) \in Seq(S)
      /\ Len(SubSeq(s, 1, k)) = IF 1 <= k THEN k - 1 + 1 ELSE 0
      /\ \A i \in 1..(k - 1 + 1) : SubSeq(s, 1, k)[i] = s[1 + i - 1]
  BY <1>3, SubSeqProperties
<1>5. Len(s) - 1 = k
  BY <1>2
<1>6. Len(SubSeq(s, 1, k)) = k /\ \A i \in 1..k : SubSeq(s, 1, k)[i] = s[i]
  BY <1>4
<1> QED
  BY <1>1, <1>4, <1>5, <1>6

\* What the pop of a non-empty stack leaves.
LEMMA PopFacts ==
    ASSUME stack \in Seq(Slices), stack # <<>>
    PROVE  /\ Top \in Slices /\ Len(stack) \in Nat \ {0}
           /\ Below \in Seq(Slices) /\ Len(Below) = Len(stack) - 1
           /\ \A i \in 1..Len(Below) : Below[i] = stack[i]
BY LastAndFront DEF Top, Below

\* The last row returned is a row of the chunk, or 0.
LEMMA ReturnedType ==
    ASSUME chunk.n \in Nat, out \in Seq([lo : 1..chunk.n, hi : 1..chunk.n])
    PROVE  Returned \in 0..chunk.n
<1>1. CASE out = <<>>
  BY <1>1 DEF Returned
<1>2. CASE out # <<>>
  <2>1. out[Len(out)] \in [lo : 1..chunk.n, hi : 1..chunk.n]
    BY <1>2, LastAndFront
  <2> QED
    BY <1>2, <2>1 DEF Returned
<1> QED
  BY <1>1, <1>2

\* No row of a slice within the limit is oversized.
LEMMA RowWithinSlice ==
    ASSUME chunk \in Inputs, NEW s \in Slices, Total(s) <= MaxBytes, NEW i \in s.lo..s.hi
    PROVE  ~Oversized(i)
<1>1. /\ chunk.n \in Nat /\ chunk.upto \in [0..chunk.n -> Nat]
      /\ \A k, j \in 0..chunk.n : k < j => chunk.upto[k] < chunk.upto[j]
  BY InputsAssumption
<1>2. s.lo - 1 \in 0..chunk.n /\ s.hi \in 0..chunk.n /\ i - 1 \in 0..chunk.n /\ i \in 0..chunk.n
  BY <1>1, SliceFacts
<1>3. chunk.upto[i] <= chunk.upto[s.hi] /\ chunk.upto[s.lo - 1] <= chunk.upto[i - 1]
  <2>1. i = s.hi \/ i < s.hi
    BY <1>2
  <2>2. s.lo - 1 = i - 1 \/ s.lo - 1 < i - 1
    BY <1>1, SliceFacts
  <2>3. \A k \in 0..chunk.n : chunk.upto[k] \in Nat
    BY <1>1
  <2> QED
    BY <1>1, <1>2, <2>1, <2>2, <2>3
<1>4. \A k \in 0..chunk.n : chunk.upto[k] \in Nat
  BY <1>1
<1> QED
  BY <1>2, <1>3, <1>4, MaxBytesAssumption DEF Total, Oversized

\* PartInv holds initially.
LEMMA PartInit == Init => PartInv
<1> SUFFICES ASSUME Init PROVE PartInv
  OBVIOUS
<1>1. chunk \in Inputs /\ chunk.n \in Nat
  BY InputsAssumption DEF Init
<1>2. stack = <<Slice(1, chunk.n)>> /\ Slice(1, chunk.n) \in Slices
  BY <1>1 DEF Init, Slice, Slices
<1>3. stack \in Seq(Slices) /\ Len(stack) = 1 /\ stack[1] = Slice(1, chunk.n)
  BY <1>2
<1>4. out = <<>> /\ Len(out) = 0 /\ out \in Seq([lo : 1..chunk.n, hi : 1..chunk.n])
  BY DEF Init
<1>5. Lossless
  <2>1. Top.lo = 1 /\ Top.hi = chunk.n /\ stack[1].hi = chunk.n
    BY <1>3 DEF Top, Slice
  <2>2. Returned = 0 /\ stack # <<>>
    BY <1>3, <1>4 DEF Returned
  <2> QED
    BY <1>3, <1>4, <2>1, <2>2 DEF Lossless
<1>6. ReturnedModest
  BY <1>4 DEF ReturnedModest, Returned
<1> QED
  BY <1>1, <1>3, <1>4, <1>5, <1>6 DEF PartInv

\* Every call keeps PartInv.
LEMMA PartStep == PartInv /\ [Next]_vars => PartInv'
<1> SUFFICES ASSUME PartInv, [Next]_vars PROVE PartInv'
  OBVIOUS
<1> DEFINE Batch == [lo : 1..chunk.n, hi : 1..chunk.n]
<1>0. /\ chunk \in Inputs /\ chunk.n \in Nat /\ stack \in Seq(Slices)
      /\ out \in Seq(Batch) /\ Lossless /\ ReturnedModest
  BY InputsAssumption DEF PartInv
<1>1. ASSUME ReturnNil PROVE PartInv'
  <2>0. chunk' = chunk /\ out' = out /\ stack' = Below /\ stack # <<>>
    BY <1>1 DEF ReturnNil
  <2>1. /\ Top \in Slices /\ Len(stack) \in Nat \ {0}
        /\ Below \in Seq(Slices) /\ Len(Below) = Len(stack) - 1
        /\ \A i \in 1..Len(Below) : Below[i] = stack[i]
    BY <1>0, <2>0, PopFacts
  <2>2. Top.hi + 1 = Top.lo /\ Top.lo = Returned + 1
    <3>1. Top.lo \in Int /\ Top.hi \in Int /\ Top.lo <= Top.hi + 1
      BY <1>0, <2>1, SliceFacts
    <3>2. Top.hi < Top.lo
      BY <1>1 DEF ReturnNil
    <3>3. Top.lo = Returned + 1
      BY <1>0, <2>0 DEF Lossless
    <3> QED
      BY <3>1, <3>2, <3>3
  <2>3. Returned' = Returned
    BY <2>0 DEF Returned
  <2>4. stack' = <<>> => Returned' = chunk.n
    <3> SUFFICES ASSUME stack' = <<>> PROVE Returned = chunk.n
      BY <2>3
    <3>1. Len(stack) = 1
      BY <2>0, <2>1
    <3>2. Top.hi = chunk.n
      BY <1>0, <2>0, <3>1 DEF Lossless, Top
    <3>3. Returned \in 0..chunk.n /\ chunk.n \in Nat
      BY <1>0, ReturnedType
    <3> QED
      BY <2>2, <3>2, <3>3
  <2>5. stack' # <<>> => Top'.lo = Returned' + 1 /\ stack'[1].hi = chunk.n
    <3> SUFFICES ASSUME stack' # <<>>
                 PROVE  Top'.lo = Returned + 1 /\ stack'[1].hi = chunk.n
      BY <2>3
    <3>1. Len(stack') \in 1..(Len(stack) - 1) /\ Len(stack') = Len(stack) - 1
      BY <2>0, <2>1
    <3>2. stack[Len(stack) - 1].lo = Top.hi + 1
      BY <1>0, <2>1, <3>1 DEF Lossless, Top
    <3>3. Top' = stack[Len(stack) - 1] /\ stack'[1] = stack[1]
      BY <2>0, <2>1, <3>1 DEF Top
    <3> QED
      BY <1>0, <2>0, <2>2, <3>2, <3>3 DEF Lossless
  <2>6. \A i \in 1..(Len(stack') - 1) : stack'[i].lo = stack'[i + 1].hi + 1
    <3> SUFFICES ASSUME NEW i \in 1..(Len(stack') - 1)
                 PROVE  stack'[i].lo = stack'[i + 1].hi + 1
      OBVIOUS
    <3>1. i \in 1..(Len(stack) - 1) /\ i \in 1..Len(Below) /\ i + 1 \in 1..Len(Below)
      BY <2>0, <2>1
    <3>2. stack[i].lo = stack[i + 1].hi + 1
      BY <1>0, <3>1 DEF Lossless
    <3> QED
      BY <2>0, <2>1, <3>1, <3>2
  <2>7. Lossless'
    BY <1>0, <2>0, <2>4, <2>5, <2>6 DEF Lossless
  <2>8. ReturnedModest'
    BY <1>0, <2>0, <2>3 DEF ReturnedModest, Oversized
  <2> QED
    BY <1>0, <2>0, <2>1, <2>7, <2>8 DEF PartInv, Slices
<1>2. ASSUME ReturnBatch PROVE PartInv'
  <2>0. /\ chunk' = chunk /\ out' = Append(out, Top) /\ stack' = Below /\ stack # <<>>
        /\ Top.lo <= Top.hi /\ Total(Top) <= MaxBytes
    BY <1>2 DEF ReturnBatch, Fits
  <2>1. /\ Top \in Slices /\ Len(stack) \in Nat \ {0}
        /\ Below \in Seq(Slices) /\ Len(Below) = Len(stack) - 1
        /\ \A i \in 1..Len(Below) : Below[i] = stack[i]
    BY <1>0, <2>0, PopFacts
  <2>2. Top \in Batch /\ Top.lo = Returned + 1
    <3>1. chunk.n \in Nat
      BY <1>0
    <3>2. Top \in Batch
      BY <2>0, <2>1, <3>1 DEF Slices
    <3>3. Top.lo = Returned + 1
      BY <1>0, <2>0 DEF Lossless
    <3> QED
      BY <3>2, <3>3
  <2>3. /\ out' \in Seq(Batch) /\ Len(out') = Len(out) + 1 /\ Len(out) \in Nat
        /\ out'[Len(out) + 1] = Top
        /\ \A i \in 1..Len(out) : out'[i] = out[i]
    BY <1>0, <2>0, <2>2
  <2>4. Returned' = Top.hi /\ out' # <<>>
    BY <2>3 DEF Returned
  <2>5. stack' = <<>> => Returned' = chunk.n
    <3> SUFFICES ASSUME stack' = <<>> PROVE Top.hi = chunk.n
      BY <2>4
    <3>1. Len(stack) = 1
      BY <2>0, <2>1
    <3> QED
      BY <1>0, <2>0, <3>1 DEF Lossless, Top
  <2>6. stack' # <<>> => Top'.lo = Returned' + 1 /\ stack'[1].hi = chunk.n
    <3> SUFFICES ASSUME stack' # <<>>
                 PROVE  Top'.lo = Top.hi + 1 /\ stack'[1].hi = chunk.n
      BY <2>4
    <3>1. Len(stack') \in 1..(Len(stack) - 1) /\ Len(stack') = Len(stack) - 1
      BY <2>0, <2>1
    <3>2. stack[Len(stack) - 1].lo = Top.hi + 1
      BY <1>0, <2>1, <3>1 DEF Lossless, Top
    <3>3. Top' = stack[Len(stack) - 1] /\ stack'[1] = stack[1]
      BY <2>0, <2>1, <3>1 DEF Top
    <3> QED
      BY <1>0, <2>0, <3>2, <3>3 DEF Lossless
  <2>7. \A i \in 1..(Len(stack') - 1) : stack'[i].lo = stack'[i + 1].hi + 1
    <3> SUFFICES ASSUME NEW i \in 1..(Len(stack') - 1)
                 PROVE  stack'[i].lo = stack'[i + 1].hi + 1
      OBVIOUS
    <3>1. i \in 1..(Len(stack) - 1) /\ i \in 1..Len(Below) /\ i + 1 \in 1..Len(Below)
      BY <2>0, <2>1
    <3>2. stack[i].lo = stack[i + 1].hi + 1
      BY <1>0, <3>1 DEF Lossless
    <3>3. Below[i] = stack[i] /\ Below[i + 1] = stack[i + 1]
      BY <2>1, <3>1
    <3> QED
      BY <2>0, <3>2, <3>3
  <2>8. out'[1].lo = 1
    <3>1. CASE out = <<>>
      BY <2>2, <2>3, <3>1 DEF Returned
    <3>2. CASE out # <<>>
      <4>1. out[1].lo = 1 /\ 1 \in 1..Len(out)
        BY <1>0, <3>2 DEF Lossless
      <4> QED
        BY <2>3, <4>1
    <3> QED
      BY <3>1, <3>2
  <2>9. \A i \in 1..(Len(out') - 1) : out'[i + 1].lo = out'[i].hi + 1
    <3> SUFFICES ASSUME NEW i \in 1..Len(out) PROVE out'[i + 1].lo = out'[i].hi + 1
      BY <2>3
    <3>1. CASE i = Len(out)
      BY <2>2, <2>3, <3>1 DEF Returned
    <3>2. CASE i # Len(out)
      <4>1. i \in 1..(Len(out) - 1) /\ i + 1 \in 1..Len(out)
        BY <2>3, <3>2
      <4>2. out[i + 1].lo = out[i].hi + 1
        BY <1>0, <4>1 DEF Lossless
      <4> QED
        BY <2>3, <4>1, <4>2
    <3> QED
      BY <3>1, <3>2
  <2>10. Lossless'
    BY <2>0, <2>5, <2>6, <2>7, <2>8, <2>9 DEF Lossless
  <2>11. ReturnedModest'
    <3> SUFFICES ASSUME NEW i \in 1..Top.hi PROVE ~Oversized(i)
      BY <2>0, <2>4 DEF ReturnedModest, Oversized
    <3>1. CASE i <= Returned
      <4>1. i \in 1..Returned
        BY <1>0, <3>1, ReturnedType
      <4> QED
        BY <1>0, <4>1 DEF ReturnedModest
    <3>2. CASE ~(i <= Returned)
      <4>1. i \in Top.lo..Top.hi /\ Top \in Slices
        BY <1>0, <2>1, <2>2, <3>2, ReturnedType
      <4> QED
        BY <1>0, <2>0, <4>1, RowWithinSlice
    <3> QED
      BY <3>1, <3>2
  <2> QED
    BY <1>0, <2>0, <2>1, <2>3, <2>10, <2>11 DEF PartInv, Slices
<1>3. ASSUME Split PROVE PartInv'
  <2> DEFINE right == Slice(Top.lo + Mid, Top.hi)
             left  == Slice(Top.lo, Top.lo + Mid - 1)
  <2>0. /\ chunk' = chunk /\ out' = out /\ stack' = Below \o <<right, left>>
        /\ stack # <<>> /\ Top.lo <= Top.hi
    BY <1>3 DEF Split
  <2>1. /\ Top \in Slices /\ Len(stack) \in Nat \ {0}
        /\ Below \in Seq(Slices) /\ Len(Below) = Len(stack) - 1
        /\ \A i \in 1..Len(Below) : Below[i] = stack[i]
    BY <1>0, <2>0, PopFacts
  <2>2. Mid \in Nat /\ Mid <= Top.hi - Top.lo
    <3>1. Top.lo \in Int /\ Top.hi \in Int
      BY <1>0, <2>1, SliceFacts
    <3> QED
      BY <2>0, <3>1 DEF Mid
  <2>3. /\ left \in Slices /\ right \in Slices
        /\ left.lo = Top.lo /\ right.lo = left.hi + 1 /\ right.hi = Top.hi
    <3>1. Top.lo \in 1..(chunk.n + 1) /\ Top.hi \in 0..chunk.n
      BY <1>0, <2>1, SliceFacts
    <3>2. /\ Top.lo + Mid \in 1..(chunk.n + 1) /\ Top.lo + Mid - 1 \in 0..chunk.n
          /\ Top.lo + Mid <= Top.hi
      <4>1. chunk.n \in Nat
        BY <1>0
      <4> QED
        BY <2>2, <3>1, <4>1
    <3> QED
      BY <1>0, <2>2, <3>1, <3>2 DEF Slice, Slices
  <2> HIDE DEF left, right
  <2>4. /\ stack' \in Seq(Slices) /\ Len(stack') = Len(stack) + 1
        /\ stack'[Len(stack) + 1] = left /\ stack'[Len(stack)] = right
        /\ \A i \in 1..(Len(stack) - 1) : stack'[i] = stack[i]
    <3>1. <<right, left>> \in Seq(Slices) /\ Len(<<right, left>>) = 2
      BY <2>3
    <3>2. /\ stack' \in Seq(Slices) /\ Len(stack') = Len(Below) + 2
          /\ \A i \in 1..(Len(Below) + 2) :
               stack'[i] = IF i <= Len(Below) THEN Below[i]
                           ELSE <<right, left>>[i - Len(Below)]
      BY <2>0, <2>1, <3>1, ConcatProperties
    <3>3. <<right, left>>[1] = right /\ <<right, left>>[2] = left
      OBVIOUS
    <3>4. stack'[Len(Below) + 1] = right
      <4>1. Len(Below) + 1 \in 1..(Len(Below) + 2) /\ ~(Len(Below) + 1 <= Len(Below))
            /\ Len(Below) + 1 - Len(Below) = 1
        BY <2>1
      <4> QED
        BY <3>2, <3>3, <4>1
    <3>5. stack'[Len(Below) + 2] = left
      <4>1. Len(Below) + 2 \in 1..(Len(Below) + 2) /\ ~(Len(Below) + 2 <= Len(Below))
            /\ Len(Below) + 2 - Len(Below) = 2
        BY <2>1
      <4> QED
        BY <3>2, <3>3, <4>1
    <3>6. \A i \in 1..Len(Below) : stack'[i] = Below[i]
      BY <2>1, <3>2
    <3>7. Len(Below) + 1 = Len(stack) /\ Len(Below) + 2 = Len(stack) + 1
      BY <2>1
    <3> QED
      BY <2>1, <3>2, <3>4, <3>5, <3>6, <3>7
  <2>5. Returned' = Returned /\ Top' = left /\ stack' # <<>>
    BY <2>0, <2>1, <2>4 DEF Returned, Top
  <2>6. stack'[1].hi = chunk.n
    <3>1. CASE Len(stack) = 1
      BY <1>0, <2>0, <2>3, <2>4, <3>1 DEF Lossless, Top
    <3>2. CASE Len(stack) # 1
      <4>1. stack[1].hi = chunk.n /\ 1 \in 1..(Len(stack) - 1)
        BY <1>0, <2>0, <2>1, <3>2 DEF Lossless
      <4> QED
        BY <2>4, <4>1
    <3> QED
      BY <3>1, <3>2
  <2>7. \A i \in 1..(Len(stack') - 1) : stack'[i].lo = stack'[i + 1].hi + 1
    <3> SUFFICES ASSUME NEW i \in 1..Len(stack) PROVE stack'[i].lo = stack'[i + 1].hi + 1
      BY <2>4
    <3>1. CASE i = Len(stack)
      BY <2>3, <2>4, <3>1
    <3>2. CASE i = Len(stack) - 1
      <4>1. stack[i].lo = Top.hi + 1
        BY <1>0, <2>1, <3>2 DEF Lossless, Top
      <4> QED
        BY <2>1, <2>3, <2>4, <3>2, <4>1
    <3>3. CASE i < Len(stack) - 1
      <4>1. i \in 1..(Len(stack) - 1) /\ i + 1 \in 1..(Len(stack) - 1)
        BY <2>1, <3>3
      <4>2. stack[i].lo = stack[i + 1].hi + 1
        BY <1>0, <4>1 DEF Lossless
      <4> QED
        BY <2>4, <4>1, <4>2
    <3> QED
      BY <2>1, <3>1, <3>2, <3>3
  <2>8. Lossless'
    BY <1>0, <2>0, <2>3, <2>5, <2>6, <2>7 DEF Lossless
  <2>9. ReturnedModest'
    BY <1>0, <2>0, <2>5 DEF ReturnedModest, Oversized
  <2> QED
    BY <1>0, <2>0, <2>4, <2>8, <2>9 DEF PartInv, Slices
<1>4. ASSUME UNCHANGED vars PROVE PartInv'
  BY <1>4 DEF vars, PartInv, Slices, Lossless, Returned, Top, ReturnedModest, Oversized
<1> QED
  BY <1>1, <1>2, <1>3, <1>4 DEF Next

\* The batches of partitionRowsBySize, in order, are the chunk: no row is
\* lost, duplicated or moved, for every chunk and every limit.
THEOREM PartitionLossless == Spec => []Lossless
<1>1. PartInv => Lossless
  BY DEF PartInv
<1> QED
  BY <1>1, PartInit, PartStep, PTL DEF Spec

\* partitionRowsBySize returns for no chunk with a row over the limit: no
\* batch it returns, for any chunk and limit, holds such a row.
THEOREM ModestTheorem == Spec => []ReturnsOnlyModest
<1>1. PartInv => ReturnsOnlyModest
  <2> SUFFICES ASSUME PartInv, stack = <<>> PROVE NoOversizedRow
    BY DEF ReturnsOnlyModest
  <2>1. Returned = chunk.n
    BY DEF PartInv, Lossless
  <2> QED
    BY <2>1 DEF PartInv, ReturnedModest, NoOversizedRow
<1> QED
  BY <1>1, PartInit, PartStep, PTL DEF Spec

\* Type correctness: every slice is one of the chunk's.
THEOREM PartitionTypes == Spec => []TypeOK
<1>1. PartInv => TypeOK
  <2> SUFFICES ASSUME PartInv PROVE TypeOK
    OBVIOUS
  <2>1. chunk.n \in Nat /\ chunk.upto \in [0..chunk.n -> Nat]
    <3>1. chunk \in Inputs
      BY DEF PartInv
    <3> QED
      BY <3>1, InputsAssumption
  <2>2. stack \in Seq([lo : 1..(chunk.n + 1), hi : 0..chunk.n])
    <3>1. stack \in Seq(Slices) /\ Slices \subseteq [lo : 1..(chunk.n + 1), hi : 0..chunk.n]
      BY DEF PartInv, Slices
    <3> QED
      BY <3>1, SeqMonotonic, Zenon
  <2> QED
    BY <2>1, <2>2 DEF PartInv, TypeOK
<1> QED
  BY <1>1, PartInit, PartStep, PTL DEF Spec
=============================================================================
