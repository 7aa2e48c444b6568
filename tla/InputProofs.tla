----------------------------- MODULE InputProofs -----------------------------
(***************************************************************************)
(* Theorems about what the importer reads before it copies: the options in *)
(* ~/.my.cnf (MyCnf) and the structure of the tables (SchemaReader).  The  *)
(* two components share nothing; their theorems are independent.           *)
(***************************************************************************)
EXTENDS MyCnf, SchemaReader, SequenceTheorems, FiniteSetTheorems, TLAPS

(* ~/.my.cnf, whatever is in it.                                           *)

\* While a section is applied, a field is what the keys applied so far say,
\* or what it was before the section.
Applied(sec, f, before) == Otherwise(Says(sec, DOMAIN sec \ left, f), before)

PrecedenceInv ==
    /\ section \in {"mysql", "client", "done"}
    /\ opts = [f \in Fields |-> opts[f]]
    /\ section = "mysql" =>
          /\ left \subseteq DOMAIN MysqlSec
          /\ \A f \in Fields : opts[f] \in Applied(MysqlSec, f, {Defaults[f]})
    /\ section = "client" =>
          /\ left \subseteq DOMAIN ClientSec
          /\ \A f \in Fields : opts[f] \in Applied(ClientSec, f, FromMysql(f))
    /\ section = "done" => left = {} /\ \A f \in Fields : opts[f] \in FromBoth(f)

\* Every key sets one of the fields.
LEMMA FieldsKnown == \A k \in DOMAIN FieldOf : FieldOf[k] \in Fields
BY DEF FieldOf, Fields

\* One more key: its field is what the key says, if it says anything, and no
\* other field changes.
LEMMA ApplyField ==
    ASSUME NEW sec, NEW k \in left, left \subseteq DOMAIN sec, NEW f \in Fields,
           NEW before, opts = [g \in Fields |-> opts[g]],
           opts[f] \in Applied(sec, f, before)
    PROVE  applyOption(opts, k, sec[k])[f]
              \in Otherwise(Says(sec, DOMAIN sec \ (left \ {k}), f), before)
<1> DEFINE done == DOMAIN sec \ left
           said == Says(sec, done, f)
           more == Says(sec, DOMAIN sec \ (left \ {k}), f)
<1>1. DOMAIN sec \ (left \ {k}) = done \cup {k}
  OBVIOUS
<1>2. CASE Sets(k, sec[k]) /\ FieldOf[k] = f
  <2>1. Meaning(k, sec[k]) \in more
    BY <1>1, <1>2 DEF Says
  <2>2. applyOption(opts, k, sec[k])[f] = Meaning(k, sec[k])
    BY <1>2 DEF applyOption
  <2> QED
    BY <2>1, <2>2 DEF Otherwise
<1>3. CASE ~(Sets(k, sec[k]) /\ FieldOf[k] = f)
  <2>1. more = said
    BY <1>1, <1>3 DEF Says
  <2>2. applyOption(opts, k, sec[k])[f] = opts[f]
    BY <1>3, FieldsKnown DEF applyOption, Sets
  <2> QED
    BY <2>1, <2>2 DEF Applied
<1> QED
  BY <1>2, <1>3

\* applyOption returns MySQLOptions with the same fields.
LEMMA ApplyKeepsFields ==
    ASSUME NEW k, NEW v, opts = [g \in Fields |-> opts[g]]
    PROVE  applyOption(opts, k, v) = [g \in Fields |-> applyOption(opts, k, v)[g]]
BY DEF applyOption

\* PrecedenceInv is kept by every step.
LEMMA PrecedenceStep == PrecedenceInv /\ [ReadNext]_optionVars => PrecedenceInv'
<1> SUFFICES ASSUME PrecedenceInv, [ReadNext]_optionVars PROVE PrecedenceInv'
  OBVIOUS
<1>1. ASSUME NEW k \in left, Apply(k) PROVE PrecedenceInv'
  <2>1. opts' = [f \in Fields |-> opts'[f]]
    BY <1>1, ApplyKeepsFields DEF Apply, PrecedenceInv
  <2>2. CASE section = "mysql"
    <3>1. \A f \in Fields : opts'[f] \in Applied(MysqlSec, f, {Defaults[f]})'
      BY <1>1, <2>2, ApplyField DEF Apply, PrecedenceInv, Options, Applied
    <3> QED
      BY <1>1, <2>1, <2>2, <3>1 DEF Apply, PrecedenceInv
  <2>3. CASE section = "client"
    <3>1. \A f \in Fields : opts'[f] \in Applied(ClientSec, f, FromMysql(f))'
      BY <1>1, <2>3, ApplyField DEF Apply, PrecedenceInv, Options, Applied
    <3> QED
      BY <1>1, <2>1, <2>3, <3>1 DEF Apply, PrecedenceInv
  <2> QED
    BY <1>1, <2>2, <2>3 DEF PrecedenceInv
<1>2. CASE ClientNext
  <2>1. \A f \in Fields : opts[f] \in FromMysql(f)
    BY <1>2 DEF ClientNext, PrecedenceInv, Applied, FromMysql
  <2>2. \A f \in Fields : Says(ClientSec, {}, f) = {}
    BY DEF Says
  <2> QED
    BY <1>2, <2>1, <2>2 DEF ClientNext, PrecedenceInv, Applied, Otherwise
<1>3. CASE ReturnOptions
  BY <1>3 DEF ReturnOptions, PrecedenceInv, Applied, FromBoth
<1>4. CASE UNCHANGED optionVars
  BY <1>4 DEF optionVars, PrecedenceInv, Applied
<1> QED
  BY <1>1, <1>2, <1>3, <1>4 DEF ReadNext

\* Whatever is in ~/.my.cnf and in whatever order Go ranges over its options,
\* [client] takes precedence over [mysql] field by field.
THEOREM PrecedenceTheorem == ReadSpec => []ClientFirst
<1>1. ReadInit => PrecedenceInv
  <2> SUFFICES ASSUME ReadInit PROVE PrecedenceInv
    OBVIOUS
  <2>1. \A f \in Fields : Says(MysqlSec, {}, f) = {}
    BY DEF Says
  <2>2. Defaults = [f \in Fields |-> Defaults[f]]
    BY DEF Defaults
  <2>3. DOMAIN MysqlSec \ left = {} /\ left \subseteq DOMAIN MysqlSec
    BY DEF ReadInit
  <2> QED
    BY <2>1, <2>2, <2>3 DEF ReadInit, PrecedenceInv, Applied, Otherwise
<1>2. PrecedenceInv => ClientFirst
  BY DEF PrecedenceInv, ClientFirst
<1> QED
  BY <1>1, <1>2, PrecedenceStep, PTL DEF ReadSpec

-----------------------------------------------------------------------------
(* The tables' indexes, for all tables and pools of connections.           *)

\* The index x as far as its first k parts go.
Shortened(x, k) == [x EXCEPT !.columns = SubSeq(x.columns, 1, k)]

\* r is a row of STATISTICS about the indexes ix, or right behind the last one.
InRange(ix, r) ==
    /\ r \in [index : Nat \ {0}, seq : Nat \ {0}]
    /\ r.index <= Len(ix) + 1
    /\ r.index <= Len(ix) => r.seq <= Len(ix[r.index].columns)
    /\ r.index > Len(ix) => r.seq = 1

\* An index has an IndexInfo once its first part was read.
Begun(ix, r) == {i \in DOMAIN ix : i < r.index \/ (i = r.index /\ r.seq > 1)}

\* The map holds the indexes before the row r, and what was read of its own.
HoldsRowsRead(ix, r, map) ==
    /\ DOMAIN map = {ix[i].name : i \in Begun(ix, r)}
    /\ \A i \in Begun(ix, r) :
         map[ix[i].name] = (IF i < r.index THEN ix[i] ELSE Shortened(ix[i], r.seq - 1))

\* A loop that left rows behind met an error or an expression.
LeftForAReason(t) ==
    pc[t] \in {"auto", "autoRow", "done"} /\ HasRow(t) =>
        erred[t] = TRUE \/ RowColumn(t) = NoColumn

ReaderInv ==
    /\ pc = [t \in Tables |-> pc[t]] /\ erred = [t \in Tables |-> erred[t]]
    /\ row = [t \in Tables |-> row[t]] /\ indexMap = [t \in Tables |-> indexMap[t]]
    /\ \A t \in Tables :
         /\ InRange(Indexes[t], row[t])
         /\ HoldsRowsRead(Indexes[t], row[t], indexMap[t])
         /\ LeftForAReason(t)

\* The indexes of a table.
LEMMA IndexFacts ==
    ASSUME NEW t \in Tables
    PROVE  /\ Len(Indexes[t]) \in Nat /\ DOMAIN Indexes[t] = 1..Len(Indexes[t])
           /\ \A i \in DOMAIN Indexes[t] :
                /\ Indexes[t][i] \in IndexInfo
                /\ Indexes[t][i].columns \in Seq(ColumnNames \cup {NoColumn})
                /\ Len(Indexes[t][i].columns) \in Nat \ {0}
                /\ \A j \in DOMAIN Indexes[t] : Indexes[t][i].name = Indexes[t][j].name => i = j
<1>1. Indexes[t] \in Seq(IndexInfo)
  BY IndexesAssumption
<1>2. ASSUME NEW i \in DOMAIN Indexes[t]
      PROVE  /\ Indexes[t][i] \in IndexInfo
             /\ Indexes[t][i].columns \in Seq(ColumnNames \cup {NoColumn})
             /\ Len(Indexes[t][i].columns) \in Nat \ {0}
  <2>1. Indexes[t][i] \in IndexInfo
    BY <1>1, <1>2
  <2>2. Indexes[t][i].columns \in Seq(ColumnNames \cup {NoColumn})
    BY <2>1 DEF IndexInfo
  <2>3. Indexes[t][i].columns # <<>>
    BY <1>2, IndexesAssumption
  <2> QED
    BY <2>1, <2>2, <2>3, EmptySeq
<1>3. \A i, j \in DOMAIN Indexes[t] : Indexes[t][i].name = Indexes[t][j].name => i = j
  BY IndexesAssumption
<1>4. Len(Indexes[t]) \in Nat /\ DOMAIN Indexes[t] = 1..Len(Indexes[t])
  BY <1>1
<1> QED
  BY <1>2, <1>3, <1>4

\* One more part of a sequence.
LEMMA OneMore ==
    ASSUME NEW S, NEW c \in Seq(S), NEW k \in Nat \ {0}, k <= Len(c)
    PROVE  Append(SubSeq(c, 1, k - 1), c[k]) = SubSeq(c, 1, k)
OBVIOUS

\* Shortened by nothing.
LEMMA NothingShortened ==
    ASSUME NEW x \in IndexInfo
    PROVE  Shortened(x, Len(x.columns)) = x
<1>1. x.columns \in Seq(ColumnNames \cup {NoColumn})
  BY DEF IndexInfo
<1>2. SubSeq(x.columns, 1, Len(x.columns)) = x.columns
  BY <1>1
<1> QED
  BY <1>2 DEF Shortened, IndexInfo

\* The row after a row is in range, and its own index is begun.
LEMMA RowAfterFacts ==
    ASSUME NEW t \in Tables, InRange(Indexes[t], row[t]), HasRow(t)
    PROVE  /\ row[t].index \in DOMAIN Indexes[t]
           /\ InRange(Indexes[t], RowAfter(t))
           /\ Begun(Indexes[t], RowAfter(t)) = Begun(Indexes[t], row[t]) \cup {row[t].index}
<1> DEFINE ix == Indexes[t]
           r == row[t]
<1>1. r \in [index : Nat \ {0}, seq : Nat \ {0}] /\ r.seq <= Len(ix[r.index].columns)
  BY DEF InRange, HasRow
<1>2. r.index \in DOMAIN ix /\ r.index <= Len(ix)
  BY <1>1, IndexFacts DEF HasRow
<1>3. \A i \in DOMAIN ix : i \in Nat /\ Len(ix[i].columns) \in Nat \ {0}
  BY IndexFacts
<1>4. CASE r.seq < Len(ix[r.index].columns)
  <2>1. RowAfter(t) = [index |-> r.index, seq |-> r.seq + 1]
    BY <1>1, <1>4 DEF RowAfter, RowIndex
  <2>2. InRange(ix, RowAfter(t))
    BY <1>1, <1>2, <1>3, <1>4, <2>1, IndexFacts DEF InRange
  <2> QED
    BY <1>1, <1>2, <1>3, <2>1, <2>2 DEF Begun
<1>5. CASE ~(r.seq < Len(ix[r.index].columns))
  <2>1. RowAfter(t) = [index |-> r.index + 1, seq |-> 1]
    BY <1>5 DEF RowAfter, RowIndex
  <2>2. InRange(ix, RowAfter(t))
    BY <1>1, <1>2, <1>3, <2>1, IndexFacts DEF InRange
  <2> QED
    BY <1>1, <1>2, <1>3, <2>1, <2>2 DEF Begun
<1> QED
  BY <1>4, <1>5

\* What was known of the row's index: the parts before the row.
LEMMA KnownColumns ==
    ASSUME NEW t \in Tables, InRange(Indexes[t], row[t]), HasRow(t),
           HoldsRowsRead(Indexes[t], row[t], indexMap[t])
    PROVE  (IF RowIndex(t).name \in DOMAIN indexMap[t]
            THEN indexMap[t][RowIndex(t).name].columns ELSE <<>>)
              = SubSeq(RowIndex(t).columns, 1, row[t].seq - 1)
<1> DEFINE ix == Indexes[t]
           i == row[t].index
           k == row[t].seq
           n == ix[i].name
<1>1. i \in DOMAIN ix /\ k \in Nat \ {0} /\ i \in Nat /\ RowIndex(t) = ix[i]
  BY RowAfterFacts DEF InRange, RowIndex
<1>2. ix[i] \in IndexInfo /\ ix[i].columns \in Seq(ColumnNames \cup {NoColumn})
  BY <1>1, IndexFacts
<1>3. CASE k > 1
  <2>1. i \in Begun(ix, row[t])
    BY <1>1, <1>3 DEF Begun
  <2>2. n \in DOMAIN indexMap[t] /\ indexMap[t][n] = Shortened(ix[i], k - 1)
    BY <1>1, <2>1 DEF HoldsRowsRead
  <2>3. Shortened(ix[i], k - 1).columns = SubSeq(ix[i].columns, 1, k - 1)
    BY <1>2 DEF Shortened, IndexInfo
  <2> QED
    BY <1>1, <2>2, <2>3
<1>4. CASE ~(k > 1)
  <2>1. k = 1
    BY <1>1, <1>4
  <2>2. \A j \in Begun(ix, row[t]) : j \in DOMAIN ix /\ j # i
    BY <1>1, <2>1, IndexFacts DEF Begun
  <2>3. n \notin DOMAIN indexMap[t]
    BY <1>1, <2>2, IndexFacts DEF HoldsRowsRead
  <2>4. SubSeq(ix[i].columns, 1, k - 1) = <<>>
    BY <1>2, <2>1
  <2> QED
    BY <1>1, <2>3, <2>4
<1> QED
  BY <1>3, <1>4

\* A part that is put into the map makes it hold one row more.
LEMMA PutHoldsRow ==
    ASSUME NEW t \in Tables, InRange(Indexes[t], row[t]), HasRow(t),
           HoldsRowsRead(Indexes[t], row[t], indexMap[t])
    PROVE  HoldsRowsRead(Indexes[t], RowAfter(t),
                         Put(indexMap[t], RowIndex(t), RowColumn(t)))
<1> DEFINE ix == Indexes[t]
           map == indexMap[t]
           i == row[t].index
           k == row[t].seq
           n == ix[i].name
           map2 == Put(map, RowIndex(t), RowColumn(t))
<1>1. /\ i \in DOMAIN ix /\ i \in Nat /\ k \in Nat \ {0}
      /\ RowIndex(t) = ix[i] /\ RowColumn(t) = ix[i].columns[k] /\ k <= Len(ix[i].columns)
      /\ ix[i] \in IndexInfo /\ ix[i].columns \in Seq(ColumnNames \cup {NoColumn})
  BY RowAfterFacts, IndexFacts DEF InRange, RowIndex, RowColumn, HasRow
<1>2. Begun(ix, RowAfter(t)) = Begun(ix, row[t]) \cup {i}
  BY RowAfterFacts
<1>3. DOMAIN map2 = DOMAIN map \cup {n}
  BY <1>1 DEF Put
<1>4. map2[n] = Shortened(ix[i], k)
  <2>1. map2[n] = [ix[i] EXCEPT !.columns =
                     Append(SubSeq(ix[i].columns, 1, k - 1), ix[i].columns[k])]
    BY <1>1, KnownColumns DEF Put
  <2> QED
    BY <1>1, <2>1, OneMore DEF Shortened
<1>5. ASSUME NEW j \in Begun(ix, row[t]), j # i
      PROVE  j < i /\ map2[ix[j].name] = ix[j]
  <2>1. j \in DOMAIN ix /\ j < i
    BY <1>5 DEF Begun
  <2>2. ix[j].name # n
    BY <1>1, <1>5, <2>1, IndexFacts
  <2>3. ix[j].name \in DOMAIN map /\ map[ix[j].name] = ix[j]
    BY <1>5, <2>1 DEF HoldsRowsRead
  <2> QED
    BY <1>1, <2>1, <2>2, <2>3 DEF Put
<1>6. ASSUME NEW j \in Begun(ix, RowAfter(t))
      PROVE  map2[ix[j].name] = IF j < RowAfter(t).index THEN ix[j]
                                ELSE Shortened(ix[j], RowAfter(t).seq - 1)
  <2>1. CASE j # i
    <3>1. j < i /\ map2[ix[j].name] = ix[j]
      BY <1>2, <1>5, <1>6, <2>1
    <3>2. RowAfter(t).index \in {i, i + 1}
      <4>1. [row[t] EXCEPT !.seq = @ + 1].index = i
        BY DEF InRange
      <4> QED
        BY <4>1 DEF RowAfter
    <3>3. j \in Int
      BY <1>6, IndexFacts DEF Begun
    <3> QED
      BY <1>1, <3>1, <3>2, <3>3
  <2>2. CASE j = i /\ k < Len(ix[i].columns)
    <3>1. RowAfter(t).index = i /\ RowAfter(t).seq = k + 1
      BY <1>1, <2>2 DEF RowAfter, InRange
    <3> QED
      BY <1>1, <1>4, <2>2, <3>1
  <2>3. CASE j = i /\ k = Len(ix[i].columns)
    <3>1. RowAfter(t).index = i + 1
      BY <1>1, <2>3 DEF RowAfter
    <3>2. Shortened(ix[i], k) = ix[i]
      BY <1>1, <2>3, NothingShortened
    <3> QED
      BY <1>1, <1>4, <2>3, <3>1, <3>2
  <2>4. j # i \/ (j = i /\ k < Len(ix[i].columns)) \/ (j = i /\ k = Len(ix[i].columns))
    <3>1. Len(ix[i].columns) \in Nat
      BY <1>1, IndexFacts
    <3> QED
      BY <1>1, <3>1
  <2> QED
    BY <2>1, <2>2, <2>3, <2>4
<1>7. DOMAIN map2 = {ix[j].name : j \in Begun(ix, RowAfter(t))}
  BY <1>2, <1>3 DEF HoldsRowsRead
<1> QED
  BY <1>6, <1>7 DEF HoldsRowsRead

-----------------------------------------------------------------------------
(* ReaderInv is inductive.                                                 *)

LEMMA ReaderInit == Init => ReaderInv
<1> SUFFICES ASSUME Init PROVE ReaderInv
  OBVIOUS
<1>1. ASSUME NEW t \in Tables
      PROVE  /\ InRange(Indexes[t], row[t])
             /\ HoldsRowsRead(Indexes[t], row[t], indexMap[t])
             /\ LeftForAReason(t)
  <2>1. row[t] = [index |-> 1, seq |-> 1] /\ indexMap[t] = EmptyMap /\ pc[t] = "columns"
    BY DEF Init
  <2>2. \A i \in DOMAIN Indexes[t] : i \in Nat \ {0} /\ Len(Indexes[t][i].columns) \in Nat \ {0}
    BY IndexFacts
  <2>3. InRange(Indexes[t], row[t])
    BY <2>1, <2>2, IndexFacts DEF InRange
  <2>4. Begun(Indexes[t], row[t]) = {}
    BY <2>1, <2>2 DEF Begun
  <2>5. HoldsRowsRead(Indexes[t], row[t], indexMap[t])
    BY <2>1, <2>4 DEF HoldsRowsRead, EmptyMap
  <2> QED
    BY <2>1, <2>3, <2>5 DEF LeftForAReason
<1> QED
  BY <1>1 DEF ReaderInv, Init

\* A step of the load of t that reads no index part.
LEMMA OtherStep ==
    ASSUME ReaderInv, NEW t \in Tables, UNCHANGED <<row, indexMap>>,
           pc' = [pc EXCEPT ![t] = pc'[t]], erred' = [erred EXCEPT ![t] = erred'[t]],
           LeftForAReason(t)'
    PROVE  ReaderInv'
<1>1. ASSUME NEW u \in Tables, u # t
      PROVE  LeftForAReason(u)'
  <2>1. pc'[u] = pc[u] /\ erred'[u] = erred[u] /\ LeftForAReason(u)
    BY <1>1 DEF ReaderInv
  <2> QED
    BY <2>1 DEF LeftForAReason, HasRow, RowColumn, RowIndex
<1>2. \A u \in Tables : LeftForAReason(u)'
  BY <1>1
<1>3. pc' = [u \in Tables |-> pc'[u]] /\ erred' = [u \in Tables |-> erred'[u]]
  BY DEF ReaderInv
<1> QED
  BY <1>2, <1>3 DEF ReaderInv

LEMMA ReaderStep == ReaderInv /\ [Next]_vars => ReaderInv'
<1> SUFFICES ASSUME ReaderInv, [Next]_vars PROVE ReaderInv'
  OBVIOUS
<1>1. CASE UNCHANGED vars
  BY <1>1 DEF vars, ReaderInv, LeftForAReason, HasRow, RowColumn, RowIndex
<1>2. ASSUME NEW t \in Tables, Load(t) PROVE ReaderInv'
  <2>1. pc = [u \in Tables |-> pc[u]] /\ erred = [u \in Tables |-> erred[u]] /\ LeftForAReason(t)
    BY <1>2 DEF ReaderInv
  <2>2. CASE QueryColumns(t)
    BY <2>1, <2>2, OtherStep DEF QueryColumns, Query, LeftForAReason
  <2>3. CASE ReadColumns(t)
    BY <2>1, <2>3, OtherStep DEF ReadColumns, LeftForAReason
  <2>4. CASE ColumnsFail(t)
    BY <2>1, <2>4, OtherStep DEF ColumnsFail, LeftForAReason
  <2>5. CASE QueryIndexes(t)
    BY <2>1, <2>5, OtherStep DEF QueryIndexes, Query, LeftForAReason
  <2>6. CASE BreakOnNull(t)
    BY <2>1, <2>6, OtherStep DEF BreakOnNull, LeftForAReason, RowColumn, RowIndex
  <2>7. CASE EndIndexes(t)
    <3>1. erred'[t] = HasRow(t) /\ pc' = [pc EXCEPT ![t] = "auto"]
      BY <1>2, <2>1, <2>7 DEF EndIndexes
    <3>2. LeftForAReason(t)'
      BY <2>7, <3>1 DEF LeftForAReason, EndIndexes, HasRow
    <3> QED
      BY <1>2, <2>1, <2>7, <3>1, <3>2, OtherStep DEF EndIndexes
  <2>8. CASE QueryAutoIncrement(t)
    BY <2>1, <2>8, OtherStep
    DEF QueryAutoIncrement, Query, LeftForAReason, HasRow, RowColumn, RowIndex
  <2>9. CASE Return(t)
    BY <2>1, <2>9, OtherStep DEF Return, LeftForAReason, HasRow, RowColumn, RowIndex
  <2>10. CASE ReadIndexPart(t)
    <3>1. /\ row' = [row EXCEPT ![t] = RowAfter(t)]
          /\ indexMap' = [indexMap EXCEPT ![t] = Put(@, RowIndex(t), RowColumn(t))]
          /\ HasRow(t) /\ pc[t] = "indexRows" /\ UNCHANGED <<pc, erred>>
      BY <2>10 DEF ReadIndexPart
    <3>2. ASSUME NEW u \in Tables
          PROVE  /\ InRange(Indexes[u], row'[u])
                 /\ HoldsRowsRead(Indexes[u], row'[u], indexMap'[u])
                 /\ LeftForAReason(u)'
      <4>1. CASE u # t
        <5>1. row'[u] = row[u] /\ indexMap'[u] = indexMap[u]
          BY <3>1, <4>1 DEF ReaderInv
        <5> QED
          BY <3>1, <3>2, <5>1 DEF ReaderInv, LeftForAReason, HasRow, RowColumn, RowIndex
      <4>2. CASE u = t
        <5>1. row'[t] = RowAfter(t)
          BY <1>2, <3>1 DEF ReaderInv
        <5>2. indexMap'[t] = Put(indexMap[t], RowIndex(t), RowColumn(t))
          BY <1>2, <3>1 DEF ReaderInv
        <5>3. InRange(Indexes[t], row'[t])
          BY <1>2, <3>1, <5>1, RowAfterFacts DEF ReaderInv
        <5>4. HoldsRowsRead(Indexes[t], row'[t], indexMap'[t])
          BY <1>2, <3>1, <5>1, <5>2, PutHoldsRow DEF ReaderInv
        <5> QED
          BY <3>1, <4>2, <5>3, <5>4 DEF LeftForAReason
      <4> QED
        BY <4>1, <4>2
    <3> QED
      BY <3>1, <3>2 DEF ReaderInv
  <2> QED
    BY <1>2, <2>2, <2>3, <2>4, <2>5, <2>6, <2>7, <2>8, <2>9, <2>10 DEF Load
<1> QED
  BY <1>1, <1>2 DEF Next

LEMMA ReaderInvariant == Spec => []ReaderInv
BY ReaderInit, ReaderStep, PTL DEF Spec

-----------------------------------------------------------------------------
(* The indexes that are created.                                           *)

\* Every IndexInfo is an index of MySQL, or the one at the row, shortened.
LEMMA WhatIsRead ==
    ASSUME ReaderInv, NEW t \in Tables, NEW x \in MetaIndexes(t)
    PROVE  \/ x \in MySQLIndexes(t)
           \/ row[t].index \in DOMAIN Indexes[t] /\ x = Shortened(RowIndex(t), row[t].seq - 1)
<1>1. HoldsRowsRead(Indexes[t], row[t], indexMap[t])
  BY DEF ReaderInv
<1>2. PICK n \in DOMAIN indexMap[t] : x = indexMap[t][n]
  BY DEF MetaIndexes
<1>3. PICK i \in Begun(Indexes[t], row[t]) : n = Indexes[t][i].name
  BY <1>1, <1>2 DEF HoldsRowsRead
<1>4. x = (IF i < row[t].index THEN Indexes[t][i] ELSE Shortened(Indexes[t][i], row[t].seq - 1))
  BY <1>1, <1>2, <1>3 DEF HoldsRowsRead
<1>5. i \in DOMAIN Indexes[t] /\ (i < row[t].index \/ i = row[t].index)
  BY <1>3 DEF Begun
<1>6. CASE i < row[t].index
  BY <1>4, <1>5, <1>6 DEF MySQLIndexes
<1>7. CASE ~(i < row[t].index)
  BY <1>4, <1>5, <1>7 DEF RowIndex
<1> QED
  BY <1>6, <1>7

\* What is left of an index has its name and kind and begins like it.
LEMMA ShortenedFacts ==
    ASSUME NEW x \in IndexInfo, NEW k \in Nat, k <= Len(x.columns)
    PROVE  LET y == Shortened(x, k)
           IN  y.name = x.name /\ y.unique = x.unique /\ IsPrefix(y.columns, x.columns)
<1>1. x.columns \in Seq(ColumnNames \cup {NoColumn})
  BY DEF IndexInfo
<1>2. IsPrefix(SubSeq(x.columns, 1, k), x.columns)
  BY <1>1 DEF IsPrefix
<1> QED
  BY <1>2 DEF Shortened, IndexInfo

\* At most one element.
LEMMA AtMostOne ==
    ASSUME NEW S, NEW x, S \subseteq {x}
    PROVE  Cardinality(S) <= 1
<1>1. CASE S = {}
  <2>1. Cardinality(S) = 0
    BY <1>1, FS_EmptySet
  <2> QED
    BY <2>1
<1>2. CASE S = {x}
  <2>1. Cardinality({x}) = 1
    BY FS_Singleton
  <2> QED
    BY <1>2, <2>1
<1> QED
  BY <1>1, <1>2

\* Whatever errors LoadTableMeta swallows and wherever its loop breaks off: a
\* table's indexes are created as MySQL has them, but for one at most that
\* has only the first of its columns.
THEOREM CutShortTheorem == Spec => []OneIndexCutShort
<1>1. ReaderInv => OneIndexCutShort
  <2> SUFFICES ASSUME ReaderInv, NEW t \in Tables
               PROVE  /\ \A i \in Created(t) : \E j \in MySQLIndexes(t) :
                            i.name = j.name /\ i.unique = j.unique /\ IsPrefix(i.columns, j.columns)
                      /\ Cardinality(Created(t) \ MySQLIndexes(t)) <= 1
    BY DEF OneIndexCutShort
  <2>1. \A x \in Created(t) \ MySQLIndexes(t) :
           row[t].index \in DOMAIN Indexes[t] /\ x = Shortened(RowIndex(t), row[t].seq - 1)
    BY WhatIsRead DEF Created
  <2>2. Cardinality(Created(t) \ MySQLIndexes(t)) <= 1
    <3>1. Created(t) \ MySQLIndexes(t) \subseteq {Shortened(RowIndex(t), row[t].seq - 1)}
      BY <2>1
    <3> QED
      BY <3>1, AtMostOne
  <2>3. ASSUME NEW x \in MySQLIndexes(t) PROVE IsPrefix(x.columns, x.columns)
    <3>1. PICK i \in DOMAIN Indexes[t] : x = Indexes[t][i]
      BY <2>3 DEF MySQLIndexes
    <3>2. x.columns \in Seq(ColumnNames \cup {NoColumn})
      BY <3>1, IndexFacts
    <3> QED
      BY <3>2 DEF IsPrefix
  <2>4. ASSUME row[t].index \in DOMAIN Indexes[t]
        PROVE  /\ RowIndex(t) \in MySQLIndexes(t) /\ RowIndex(t) \in IndexInfo
               /\ row[t].seq - 1 \in Nat /\ row[t].seq - 1 <= Len(RowIndex(t).columns)
    <3>1. RowIndex(t) \in MySQLIndexes(t) /\ RowIndex(t) \in IndexInfo
      BY <2>4, IndexFacts DEF MySQLIndexes, RowIndex
    <3>2. row[t].seq \in Nat \ {0} /\ row[t].seq <= Len(RowIndex(t).columns)
      BY <2>4, IndexFacts DEF ReaderInv, InRange, RowIndex
    <3>3. Len(RowIndex(t).columns) \in Nat
      BY <2>4, IndexFacts DEF RowIndex
    <3> QED
      BY <3>1, <3>2, <3>3
  <2>5. ASSUME NEW x \in Created(t)
        PROVE  \E j \in MySQLIndexes(t) :
                  x.name = j.name /\ x.unique = j.unique /\ IsPrefix(x.columns, j.columns)
    <3>1. CASE x \in MySQLIndexes(t)
      BY <2>3, <3>1
    <3>2. CASE x \notin MySQLIndexes(t)
      <4>1. row[t].index \in DOMAIN Indexes[t] /\ x = Shortened(RowIndex(t), row[t].seq - 1)
        BY <2>1, <2>5, <3>2
      <4> QED
        BY <2>4, <4>1, ShortenedFacts
    <3> QED
      BY <3>1, <3>2
  <2> QED
    BY <2>2, <2>5
<1> QED
  BY <1>1, ReaderInvariant, PTL

\* A table without an index on an expression gets all its indexes, but for one
\* on the primary key's columns, unless MySQL reported an error.
THEOREM CompleteTheorem == Spec => []IndexesComplete
<1>1. ReaderInv => IndexesComplete
  <2> SUFFICES ASSUME ReaderInv, NEW t \in Tables,
                      pc[t] = "done", ~erred[t], OnlyColumns(t)
               PROVE  Created(t) = {i \in MySQLIndexes(t) : i.columns # PKCols[t]}
    BY DEF IndexesComplete
  <2>1. /\ InRange(Indexes[t], row[t]) /\ LeftForAReason(t)
        /\ HoldsRowsRead(Indexes[t], row[t], indexMap[t])
    BY DEF ReaderInv
  <2>2. ~HasRow(t)
    <3> SUFFICES ASSUME HasRow(t) PROVE FALSE
      OBVIOUS
    <3>1. RowColumn(t) = NoColumn
      BY <2>1 DEF LeftForAReason
    <3>2. row[t].index \in DOMAIN Indexes[t]
      BY <2>1, RowAfterFacts
    <3>3. RowIndex(t).columns \in Seq(ColumnNames \cup {NoColumn})
      BY <3>2, IndexFacts DEF RowIndex
    <3>4. row[t].seq \in DOMAIN RowIndex(t).columns
      BY <2>1, <3>3 DEF InRange, HasRow, RowIndex
    <3> QED
      BY <3>1, <3>2, <3>4 DEF OnlyColumns, RowColumn, RowIndex
  <2>3. \A i \in DOMAIN Indexes[t] : i < row[t].index
    BY <2>1, <2>2, IndexFacts DEF InRange, HasRow
  <2>4. Begun(Indexes[t], row[t]) = DOMAIN Indexes[t]
    BY <2>3 DEF Begun
  <2>5. MetaIndexes(t) = MySQLIndexes(t)
    BY <2>1, <2>3, <2>4 DEF MetaIndexes, MySQLIndexes, HoldsRowsRead
  <2> QED
    BY <2>5 DEF Created, indexEqualsPK
<1> QED
  BY <1>1, ReaderInvariant, PTL
=============================================================================
