---------------------------- MODULE ValueMapping ----------------------------
(***************************************************************************)
(* One column on its way from MySQL to YDB: normalizeMySQLType reduces     *)
(* COLUMN_TYPE to a short type, mysqlDataTypeToYQL chooses the type of the *)
(* YDB column, and mysqlValueToYDBForBulkUpsert converts each value to the *)
(* type the YDB column has, which need not be the one the importer chooses *)
(* (-data-only into a table made by hand).                                 *)
(*                                                                         *)
(* All payloads are integers: numbers themselves; days since 1970-01-01    *)
(* for dates; a label for strings.  Machine integers have scaled widths.   *)
(***************************************************************************)
EXTENDS Integers, Sequences

CONSTANTS
    Half,       \* Half[w]: values below 0 of a signed w-bit integer, 2^(w-1)
                \* in Go, for w = 8, 16, 24, 32, 64
    Columns,    \* the MySQL columns looked at
    HandMade,   \* types of YDB columns that somebody created by hand
    MaxRows     \* bound: rows written per column

ASSUME HalfAssumption ==
    /\ Half \in [{8, 16, 24, 32, 64} -> Nat \ {0}]
    /\ Half[8] <= Half[16] /\ Half[16] <= Half[24]
    /\ 2 * Half[24] <= Half[32] /\ 2 * Half[32] <= Half[64]
ASSUME MaxRowsAssumption == MaxRows \in Nat

MaxSigned(w) == Half[w] - 1
MinSigned(w) == -Half[w]
MaxUnsigned(w) == 2 * Half[w] - 1

\* int32(v) and uint16(v), uint32(v), uint64(v) in Go.
Signed(v, w) == ((v + Half[w]) % (2 * Half[w])) - Half[w]
Unsigned(v, w) == v % (2 * Half[w])

-----------------------------------------------------------------------------
(* The MySQL column.                                                       *)

Widths == [tinyint |-> 8, smallint |-> 16, mediumint |-> 24, int |-> 32, bigint |-> 64]
IntBases == DOMAIN Widths
DateBases == {"date", "datetime", "timestamp"}
BinaryBases == {"binary", "varbinary", "blob", "tinyblob", "mediumblob", "longblob"}
OtherBases == {"float", "double", "real", "year", "char", "varchar", "text", "json",
               "enum", "set", "tinytext", "mediumtext", "longtext", "time", "bit",
               "decimal", "numeric"}

\* COLUMN_TYPE: the type's name, UNSIGNED, the display width in parentheses
\* (servers before 8.0.19 report one for every integer: int(10) unsigned),
\* IS_NULLABLE and the auto_increment of EXTRA.
ColumnTypes == [base : IntBases \cup DateBases \cup BinaryBases \cup OtherBases,
                unsigned : BOOLEAN, width : {"", "(1)", "(10)"},
                nullable : BOOLEAN, autoIncrement : BOOLEAN]
\* MySQL allows AUTO_INCREMENT on numbers, and makes the column NOT NULL.
FloatBases == {"float", "double", "real"}
ASSUME ColumnsAssumption ==
    /\ Columns \subseteq ColumnTypes
    /\ \A c \in Columns :
         c.autoIncrement => c.base \in IntBases \cup FloatBases /\ ~c.nullable

\* Dates: 0 is 1970-01-01, -1 a day before, -2 is 0000-00-00.  A date with
\* one zero part, such as 2020-00-00, is one no layout of time.Parse accepts.
PartialDate == -3
\* Strings from this label on are not valid UTF-8.
FirstInvalidUTF8 == 2

\* The values the column can hold.
Domain(c) ==
    CASE c.base \in IntBases ->
           LET w == Widths[c.base] IN
           IF c.unsigned THEN 0..MaxUnsigned(w) ELSE MinSigned(w)..MaxSigned(w)
      [] c.base = "year" -> 0..MaxUnsigned(16)
      [] c.base \in DateBases -> PartialDate..2
      [] c.base \in BinaryBases -> 0..(FirstInvalidUTF8 + 1)
      [] OTHER -> 0..1

Nullable(vals) == [null : {FALSE}, val : vals] \cup {[null |-> TRUE, val |-> 0]}
MySQLValues(c) == IF c.nullable THEN Nullable(Domain(c)) ELSE [null : {FALSE}, val : Domain(c)]

\* What the MySQL driver scans into an interface{}.  An unsigned BIGINT is a
\* uint64, or an int64 when it fits; dates are time.Time with parseTime=true.
RawKinds(c, v) ==
    IF v.null THEN {"nil"}
    ELSE CASE c.base \in IntBases \cup {"year"} ->
                IF c.base = "bigint" /\ c.unsigned
                THEN {"uint64"} \cup (IF v.val <= MaxSigned(64) THEN {"int64"} ELSE {})
                ELSE {"int64"}
           [] c.base = "float" -> {"float32"}
           [] c.base \in {"double", "real"} -> {"float64"}
           [] c.base \in DateBases /\ v.val # PartialDate -> {"[]byte", "time.Time"}
           [] OTHER -> {"[]byte"}

-----------------------------------------------------------------------------
(* Types: normalizeMySQLType and mysqlTypeToYQLBase.                       *)

\* COLUMN_TYPE contains "int unsigned": no display width in between.
BareUnsigned(c) == c.unsigned /\ c.width = ""

normalizeMySQLType(c) ==
    CASE c.base = "bigint" -> IF BareUnsigned(c) THEN "bigint unsigned" ELSE "bigint"
      [] c.base \in IntBases \ {"bigint"} ->
           IF BareUnsigned(c) THEN "int unsigned"
           ELSE IF c.base = "tinyint" /\ c.width = "(1)" THEN "bool" ELSE "int"
      [] c.base \in {"double", "real"} -> "double"
      [] c.base \in DateBases \cup {"float", "year", "bit"} -> c.base
      [] c.base \in {"binary", "varbinary", "blob"} -> "bytes"
      [] c.base \in {"decimal", "numeric"} -> "decimal"
      [] OTHER -> "text"

mysqlTypeToYQLBase(dataType) ==
    CASE dataType = "bool" -> "Bool"
      [] dataType = "int" -> "Int32"
      [] dataType = "bigint" -> "Int64"
      [] dataType = "int unsigned" -> "Uint32"
      [] dataType \in {"bigint unsigned", "bit"} -> "Uint64"
      [] dataType = "float" -> "Float"
      [] dataType = "double" -> "Double"
      [] dataType = "date" -> "Date"
      [] dataType \in {"datetime", "timestamp"} -> "Timestamp"
      [] dataType = "year" -> "Uint16"
      [] dataType = "bytes" -> "String"
      [] dataType = "decimal" -> "Decimal"
      [] OTHER -> "Text"

YDBTypes == {"Bool", "Int32", "Int64", "Uint16", "Uint32", "Uint64", "Float", "Double",
             "Date", "Datetime", "Timestamp", "Text", "String", "Decimal"}
YDBColumns == [type : YDBTypes, optional : BOOLEAN]
ASSUME HandMadeAssumption == HandMade \subseteq YDBColumns

\* The column of buildCreateTableDDL.  BigSerial is an Int64 with a sequence,
\* and the only type to which the DDL adds NOT NULL: YDB takes every other
\* column for nullable, whether its type is written T or Optional<T>.
OwnColumn(c) ==
    IF c.autoIncrement
    THEN [type |-> "Int64", optional |-> FALSE]
    ELSE [type |-> mysqlTypeToYQLBase(normalizeMySQLType(c)), optional |-> TRUE]

-----------------------------------------------------------------------------
(* Values: mysqlValueToYDBForBulkUpsert.                                   *)

\* A YDB value of a type: bare, in an Optional, or the NULL of that type.
Value(type, val) == [type |-> type, form |-> "bare", val |-> val]
Null(type) == [type |-> type, form |-> "null", val |-> 0]
NoValue == [type |-> "none", form |-> "error", val |-> 0]

\* Mutant of Wrap: only NULLs are sent as Optional.
WrapNever(v, col) == v

\* wrapOptionalIfYDBOptional.
Wrap(v, col) == IF col.optional THEN [v EXCEPT !.form = "optional"] ELSE v

\* Mutant of Clamp: the value is cut to the width of the column.
ClampByWrapping(v, w) == Unsigned(v, w)

\* The saturation of coerceIntToYDBType and coerceUintToYDBType.
Clamp(v, w) ==
    IF v < 0 THEN 0 ELSE IF v > MaxUnsigned(w) THEN MaxUnsigned(w) ELSE v

\* Mutant of int64ToYDB: saturates like coerceIntToYDBType.
int64ToYDBSaturating(v, dataType) ==
    IF dataType = "int"
    THEN Value("Int32", IF v > MaxSigned(32) THEN MaxSigned(32) ELSE v)
    ELSE Value("Int64", v)

\* int64ToYDB and uint64ToYDB.
int64ToYDB(v, dataType) ==
    CASE dataType = "int" -> Value("Int32", Signed(v, 32))
      [] dataType = "year" -> Value("Uint16", Unsigned(v, 16))
      [] OTHER -> Value("Int64", v)

uint64ToYDB(v, dataType) ==
    CASE dataType = "int unsigned" -> Value("Uint32", Unsigned(v, 32))
      [] dataType = "year" -> Value("Uint16", Unsigned(v, 16))
      [] OTHER -> Value("Uint64", v)

\* Mutant of SignedFits: Int32 columns take every int64.
SignedFitsAlways(type, v) == type \in {"Int64", "Int32"}

\* The column is signed and can hold v.
SignedFits(type, v) ==
    \/ type = "Int64" /\ v <= MaxSigned(64)
    \/ type = "Int32" /\ v \in MinSigned(32)..MaxSigned(32)

\* The type of the column decides, when it can hold the value; otherwise the
\* MySQL type does.
Integer(v, kind, dataType, type) ==
    CASE type = "Uint64" -> Value(type, Clamp(v, 64))
      [] type = "Uint32" -> Value(type, Clamp(v, 32))
      [] type = "Uint16" /\ v \in 0..MaxUnsigned(16) -> Value(type, v)
      [] SignedFits(type, v) -> Value(type, v)
      [] OTHER -> IF kind = "int64" THEN int64ToYDB(v, dataType)
                                    ELSE uint64ToYDB(v, dataType)

\* Mutant of isInvalidDate: the epoch itself is taken for an invalid date.
EpochIsInvalid(t) == t <= 0

\* Zero, or before 1970.
isInvalidDate(t) == t < 0

isYDBDateType(type) == type \in {"Date", "Datetime", "Timestamp"}
IsDate(dataType) == dataType \in {"date", "datetime", "timestamp"}

\* dateTimeToYDBForBulkUpsert.
DateTime(t, nullable, col) ==
    IF isInvalidDate(t) /\ (nullable \/ col.optional)
    THEN Null(col.type)
    ELSE Wrap(Value(col.type, IF isInvalidDate(t) THEN 0 ELSE t), col)

\* A date for a column of another type gets the type of the MySQL column.
ForeignDate(t, dataType, col) ==
    Wrap(Value(mysqlTypeToYQLBase(dataType), IF isInvalidDate(t) THEN 0 ELSE t), col)

\* textOrBytesValueWithHint and textOrBytesValue: in Text every invalid
\* sequence becomes U+FFFD.
Replaced == -1
TextOrBytes(s, text) ==
    IF text THEN Value("Text", IF s >= FirstInvalidUTF8 THEN Replaced ELSE s)
            ELSE Value("String", s)

\* A NULL: the type of the column for dates and strings, else of the MySQL
\* type; an error in a NOT NULL column.
NullFor(dataType, nullable, col) ==
    IF ~nullable THEN NoValue
    ELSE CASE IsDate(dataType) /\ isYDBDateType(col.type) -> Null(col.type)
           [] dataType \in {"text", "bytes"} ->
                Null(IF col.type = "Text" THEN "Text" ELSE "String")
           [] OTHER -> Null(mysqlTypeToYQLBase(dataType))

\* Any other value, by the Go type the driver delivered.
Scalar(kind, v, dataType, type) ==
    CASE kind = "[]byte" ->
           TextOrBytes(v, dataType \in {"text", "bytes"} => type = "Text")
      [] kind \in {"int64", "uint64"} -> Integer(v, kind, dataType, type)
      [] kind = "float32" -> Value("Float", v)
      [] OTHER -> Value("Double", v)

Convert(kind, v, dataType, nullable, col) ==
    IF kind = "nil" THEN NullFor(dataType, nullable, col)
    ELSE IF dataType = "bool" THEN Wrap(Value("Bool", IF v # 0 THEN 1 ELSE 0), col)
    ELSE IF IsDate(dataType) /\ v # PartialDate
         THEN IF isYDBDateType(col.type) THEN DateTime(v, nullable, col)
                                         ELSE ForeignDate(v, dataType, col)
    ELSE Wrap(Scalar(kind, v, dataType, col.type), col)

\* YDB takes a value only if it has the type of the column.
Accepts(col, y) == y.type = col.type /\ (y.form # "bare") = col.optional

-----------------------------------------------------------------------------
VARIABLES
    column,   \* the MySQL column
    target,   \* the YDB column
    own,      \* the importer created it
    rows      \* rows sent: the MySQL value, the YDB value, and its fate

vars == <<column, target, own, rows>>

NoColumn == [type |-> "none", optional |-> FALSE]

Init ==
    /\ column \in Columns
    /\ target = NoColumn /\ own = FALSE /\ rows = <<>>

CreateTable ==
    /\ target = NoColumn
    /\ target' = OwnColumn(column) /\ own' = TRUE
    /\ UNCHANGED <<column, rows>>

\* -data-only: "schema must already exist".
UseExisting(t) ==
    /\ target = NoColumn
    /\ target' = t
    /\ UNCHANGED <<column, own, rows>>

\* A row with the value v of the column is converted and sent.
WriteRow(v, kind) ==
    /\ target # NoColumn /\ Len(rows) < MaxRows
    /\ LET y == Convert(kind, v.val, normalizeMySQLType(column), column.nullable, target)
       IN  rows' = Append(rows, [mysql |-> v, ydb |-> y, stored |-> Accepts(target, y)])
    /\ UNCHANGED <<column, target, own>>

Next ==
    \/ CreateTable
    \/ \E t \in HandMade : UseExisting(t)
    \/ \E v \in MySQLValues(column) : \E kind \in RawKinds(column, v) : WriteRow(v, kind)

Spec == Init /\ [][Next]_vars

-----------------------------------------------------------------------------
(* Properties.                                                             *)

\* What a type can hold.
RangeOf(type) ==
    CASE type \in {"Uint16", "Uint32", "Uint64"} ->
           0..MaxUnsigned(CASE type = "Uint16" -> 16 [] type = "Uint32" -> 32 [] OTHER -> 64)
      [] type = "Int32" -> MinSigned(32)..MaxSigned(32)
      [] type = "Int64" -> MinSigned(64)..MaxSigned(64)
      [] type = "Bool" -> 0..1
      [] OTHER -> Int

TypeOK ==
    /\ column \in Columns
    /\ target \in YDBColumns \cup {NoColumn}
    /\ own \in BOOLEAN
    /\ Len(rows) <= MaxRows
    /\ \A i \in 1..Len(rows) :
         /\ rows[i].mysql \in MySQLValues(column)
         /\ rows[i].ydb.type \in YDBTypes \cup {"none"}
         /\ rows[i].ydb.val \in RangeOf(rows[i].ydb.type)
         /\ rows[i].stored \in BOOLEAN

Stored == {rows[i] : i \in {j \in 1..Len(rows) : rows[j].stored}}
NotNull(r) == r.ydb.form # "null"

IsInteger(c) == c.base \in IntBases /\ normalizeMySQLType(c) # "bool"
\* UNSIGNED with a display width, which normalizeMySQLType takes for signed.
SignLost(c) == c.base \in IntBases /\ c.unsigned /\ c.width # ""

\* Whatever integer type the YDB column has, conversion never reorders two
\* integers: too large a value saturates or is refused, it does not wrap
\* (coerceIntToYDBType and the fallback to int64ToYDB together).
IntegersKeepOrder ==
    IsInteger(column) /\ ~SignLost(column) =>
      \A r, s \in Stored :
        NotNull(r) /\ NotNull(s) /\ r.mysql.val <= s.mysql.val => r.ydb.val <= s.ydb.val

\* In a table the importer created, two different integers stay different,
\* so that rows with different integer keys do not overwrite each other;
\* not even where the sign is lost.
IntegersStayDistinct ==
    own /\ IsInteger(column) =>
      \A r, s \in Stored :
        NotNull(r) /\ NotNull(s) /\ r.ydb.val = s.ydb.val => r.mysql.val = s.mysql.val

\* A date in a date column is the MySQL date, and NULL only for a NULL or an
\* invalid date.  What is stored for an invalid date is decided by the YDB
\* column alone: NULL where it takes NULLs, as every date column that the
\* importer creates does, even for a NOT NULL column of MySQL; 1970-01-01 in
\* a NOT NULL column of a table made by hand.
DatesKeptOrReplaced ==
    column.base \in DateBases /\ isYDBDateType(target.type) =>
      \A r \in Stored :
        IF r.mysql.null \/ (r.mysql.val < 0 /\ (target.optional \/ own))
        THEN r.ydb.form = "null"
        ELSE NotNull(r) /\ r.ydb.val = (IF r.mysql.val < 0 THEN 0 ELSE r.mysql.val)

\* A table the importer created takes every value of its columns except
\* those of DECIMAL and BIT, partial dates, unsigned BIGINTs beyond int64 in
\* a column that became signed, and a TINYINT(1), FLOAT or DOUBLE with
\* AUTO_INCREMENT, whose column is an Int64.
OnlyKnownRefusals ==
    own => \A i \in 1..Len(rows) : ~rows[i].stored =>
             \/ normalizeMySQLType(column) \in {"decimal", "bit"}
             \/ rows[i].mysql.val = PartialDate
             \/ rows[i].mysql.val > MaxSigned(64) /\ target.type = "Int64"
             \/ normalizeMySQLType(column) \in {"bool", "float", "double"} /\ column.autoIncrement
=============================================================================
