---------------------------- MODULE SchemaReader ----------------------------
(***************************************************************************)
(* LoadTableMeta: what is read of a MySQL table before it is created in    *)
(* YDB, and again before it is copied.  Three queries on information_schema*)
(* follow one another: the columns, the parts of the secondary indexes and *)
(* the AUTO_INCREMENT value.  Only the first may fail the load; an error   *)
(* of the others is swallowed, so that the table is created without some   *)
(* indexes or without its sequence.                                        *)
(*                                                                         *)
(* Every result set holds a connection of the pool until it is read to the *)
(* end or closed.  The schema is created table by table; with              *)
(* -parallel-tables above 1 the transfers of all pending tables load their *)
(* tables at once, on a pool of MaxOpenConns connections.                  *)
(***************************************************************************)
EXTENDS Integers, FiniteSets, SequencesExt

CONSTANTS
    Tables,       \* the tables that are loaded at the same time
    PKCols,       \* PKCols[t]: its primary key columns, in column order
    Indexes,      \* Indexes[t]: its secondary indexes, in the order of their names
    ColumnNames,  \* names of columns
    NoColumn,     \* COLUMN_NAME NULL: an index part that is an expression
    MaxOpenConns  \* SetMaxOpenConns: 2 per parallel table, 8 at least

ASSUME PoolAssumption == MaxOpenConns \in Nat \ {0}

\* An IndexInfo.
IndexInfo == [name : STRING, unique : BOOLEAN, columns : Seq(ColumnNames \cup {NoColumn})]

\* The names of a table's indexes are different, and an index has a part.
ASSUME IndexesAssumption ==
    /\ NoColumn \notin ColumnNames
    /\ \A t \in Tables :
         /\ Indexes[t] \in Seq(IndexInfo)
         /\ \A i, j \in DOMAIN Indexes[t] :
              /\ Indexes[t][i].columns # <<>>
              /\ Indexes[t][i].name = Indexes[t][j].name => i = j

\* Mutant of indexEqualsPK: the lengths are not compared.
indexStartsPK(cols, pk) == IsPrefix(cols, pk)

\* An index on exactly the primary key's columns is not created again.
indexEqualsPK(cols, pk) == cols = pk

VARIABLES
    pc,        \* pc[t]: where LoadTableMeta(t) is
    open,      \* open[t]: its result sets that hold a connection
    row,       \* row[t]: the next row of STATISTICS, a part of an index
    indexMap,  \* indexMap[t]: the IndexInfo read so far, by name
    erred      \* history, erred[t]: MySQL reported an error on the index rows

vars == <<pc, open, row, indexMap, erred>>

EmptyMap == [n \in {} |-> <<>>]

Init ==
    /\ pc = [t \in Tables |-> "columns"]
    /\ open = [t \in Tables |-> {}]
    /\ row = [t \in Tables |-> [index |-> 1, seq |-> 1]]
    /\ indexMap = [t \in Tables |-> EmptyMap]
    /\ erred = [t \in Tables |-> FALSE]

-----------------------------------------------------------------------------
(* The pool of database/sql.                                               *)

InUse == Cardinality(UNION {{t} \X open[t] : t \in Tables})

\* A query waits for a connection; its rows hold it.
Query(t, from, rows) ==
    /\ pc[t] = from
    /\ InUse < MaxOpenConns
    /\ open' = [open EXCEPT ![t] = @ \cup {rows}]
    /\ pc' = [pc EXCEPT ![t] = rows]

\* The rows are closed, by Next returning false or by a deferred Close.
Closed(t, rows) == open' = [open EXCEPT ![t] = @ \ rows]

-----------------------------------------------------------------------------
(* LoadTableMeta.                                                          *)

QueryColumns(t) == Query(t, "columns", "columnRows") /\ UNCHANGED <<row, indexMap, erred>>

\* Mutant of ReadColumns: the rows are left open after the last one.
ReadColumnsOpen(t) ==
    /\ pc[t] = "columnRows"
    /\ pc' = [pc EXCEPT ![t] = "index"]
    /\ UNCHANGED <<open, row, indexMap, erred>>

\* All columns are read; COLUMN_KEY PRI makes them primary key columns.
ReadColumns(t) ==
    /\ pc[t] = "columnRows"
    /\ pc' = [pc EXCEPT ![t] = "index"]
    /\ Closed(t, {"columnRows"})
    /\ UNCHANGED <<row, indexMap, erred>>

\* The query, Scan or rows.Err reports an error, which is returned.
ColumnsFail(t) ==
    /\ pc[t] = "columnRows"
    /\ pc' = [pc EXCEPT ![t] = "failed"]
    /\ Closed(t, {"columnRows"})
    /\ UNCHANGED <<row, indexMap, erred>>

QueryIndexes(t) == Query(t, "index", "indexRows") /\ UNCHANGED <<row, indexMap, erred>>

\* The rows come ORDER BY INDEX_NAME, SEQ_IN_INDEX.
HasRow(t) == row[t].index <= Len(Indexes[t])
RowIndex(t) == Indexes[t][row[t].index]
RowColumn(t) == RowIndex(t).columns[row[t].seq]
RowAfter(t) ==
    IF row[t].seq < Len(RowIndex(t).columns)
    THEN [row[t] EXCEPT !.seq = @ + 1]
    ELSE [index |-> row[t].index + 1, seq |-> 1]

\* The first part of an index makes an IndexInfo, every part adds its column.
Put(map, index, col) ==
    LET n == index.name
        known == IF n \in DOMAIN map THEN map[n].columns ELSE <<>>
    IN  [m \in DOMAIN map \cup {n} |->
            IF m = n THEN [index EXCEPT !.columns = Append(known, col)] ELSE map[m]]

\* One part is read and put into indexMap.
ReadIndexPart(t) ==
    /\ pc[t] = "indexRows"
    /\ HasRow(t) /\ RowColumn(t) # NoColumn
    /\ indexMap' = [indexMap EXCEPT ![t] = Put(@, RowIndex(t), RowColumn(t))]
    /\ row' = [row EXCEPT ![t] = RowAfter(t)]
    /\ UNCHANGED <<pc, open, erred>>

\* Mutant of BreakOnNull: the error of Scan is ignored, colName stays empty.
ScanErrorIgnored(t) ==
    /\ pc[t] = "indexRows"
    /\ HasRow(t) /\ RowColumn(t) = NoColumn
    /\ indexMap' = [indexMap EXCEPT ![t] = Put(@, RowIndex(t), "")]
    /\ row' = [row EXCEPT ![t] = RowAfter(t)]
    /\ UNCHANGED <<pc, open, erred>>

\* NULL cannot be scanned into a string: the loop breaks with the rows, and
\* their connection, still open until LoadTableMeta returns.
BreakOnNull(t) ==
    /\ pc[t] = "indexRows"
    /\ HasRow(t) /\ RowColumn(t) = NoColumn
    /\ pc' = [pc EXCEPT ![t] = "auto"]
    /\ UNCHANGED <<open, row, indexMap, erred>>

\* idxRows.Next returns false: after the last row, or because of an error,
\* for idxRows.Err is not consulted.  An error of the query itself, which is
\* ignored too, is an error before the first row.
EndIndexes(t) ==
    /\ pc[t] = "indexRows"
    /\ pc' = [pc EXCEPT ![t] = "auto"]
    /\ erred' = [erred EXCEPT ![t] = HasRow(t)]
    /\ Closed(t, {"indexRows"})
    /\ UNCHANGED <<row, indexMap>>

\* QueryRow for AUTO_INCREMENT; its error only leaves the value unknown.
QueryAutoIncrement(t) == Query(t, "auto", "autoRow") /\ UNCHANGED <<row, indexMap, erred>>

\* LoadTableMeta returns, and its deferred calls close what is still open.
Return(t) ==
    /\ pc[t] = "autoRow"
    /\ pc' = [pc EXCEPT ![t] = "done"]
    /\ Closed(t, open[t])
    /\ UNCHANGED <<row, indexMap, erred>>

Load(t) ==
    \/ QueryColumns(t) \/ ReadColumns(t) \/ ColumnsFail(t)
    \/ QueryIndexes(t) \/ ReadIndexPart(t) \/ BreakOnNull(t) \/ EndIndexes(t)
    \/ QueryAutoIncrement(t) \/ Return(t)

Next == \E t \in Tables : Load(t)

\* MySQL answers every query and the pool serves every request in the end.
Spec == Init /\ [][Next]_vars /\ \A t \in Tables : WF_vars(Load(t))

-----------------------------------------------------------------------------
(* The indexes in the CREATE TABLE statement.                              *)

\* meta.Indexes: a set, because Go ranges over a map in no fixed order.
MetaIndexes(t) == {indexMap[t][n] : n \in DOMAIN indexMap[t]}

\* What buildCreateTableDDL creates, GLOBAL ASYNC or GLOBAL UNIQUE SYNC.
Created(t) == {i \in MetaIndexes(t) : ~indexEqualsPK(i.columns, PKCols[t])}

-----------------------------------------------------------------------------
(* Properties.                                                             *)

\* MySQL's indexes of the table.
MySQLIndexes(t) == {Indexes[t][i] : i \in DOMAIN Indexes[t]}

\* No part of an index of the table is an expression.
OnlyColumns(t) ==
    \A i \in DOMAIN Indexes[t] : \A k \in DOMAIN Indexes[t][i].columns :
        Indexes[t][i].columns[k] # NoColumn

\* Whatever is swallowed, no index is created that MySQL does not have under
\* that name, except that at most one per table ends too early: a UNIQUE one
\* cut short is stricter than MySQL's and will refuse rows of the table.
OneIndexCutShort ==
    \A t \in Tables : pc[t] = "done" =>
        /\ \A i \in Created(t) : \E j \in MySQLIndexes(t) :
              i.name = j.name /\ i.unique = j.unique /\ IsPrefix(i.columns, j.columns)
        /\ Cardinality(Created(t) \ MySQLIndexes(t)) <= 1

\* "Secondary `KEY` / `UNIQUE KEY`", README on what is recreated: all of them,
\* of a table without index expressions and when MySQL reported no error, but
\* for one on the primary key's columns.
IndexesComplete ==
    \A t \in Tables :
        pc[t] = "done" /\ ~erred[t] /\ OnlyColumns(t)
        => Created(t) = {i \in MySQLIndexes(t) : i.columns # PKCols[t]}

\* Every connection belongs to a load whose index loop broke off, and which
\* needs a second connection to return.
PoolExhausted ==
    Cardinality({t \in Tables : pc[t] = "auto" /\ "indexRows" \in open[t]}) = MaxOpenConns

\* Every load comes to an end, unless as many tables with index expressions
\* as there are connections are loaded at once: then all wait for each other
\* (main.go: "Allow concurrent reads when transferring multiple tables in
\* parallel").
LoadsEnd ==
    \A t \in Tables : <>(pc[t] \in {"done", "failed"} \/ PoolExhausted)
=============================================================================
