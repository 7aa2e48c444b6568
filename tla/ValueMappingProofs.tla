------------------------- MODULE ValueMappingProofs -------------------------
(***************************************************************************)
(* Proofs about ValueMapping: the conversion of one value is a function of *)
(* the column, the value and the type of the YDB column, so each property  *)
(* is first a lemma about Convert and then, with the invariant that every  *)
(* row sent was converted for the column it went to, a theorem.            *)
(***************************************************************************)
EXTENDS ValueMapping, TLAPS

-----------------------------------------------------------------------------
(* Machine integers.                                                       *)

WordSizes == {8, 16, 24, 32, 64}

\* The bounds of the machine integers, and how they are ordered.
LEMMA HalfFacts ==
    /\ \A w \in WordSizes : Half[w] \in Nat /\ Half[w] > 0
    /\ Half[8] <= Half[16] /\ Half[16] <= Half[24]
    /\ 2 * Half[24] <= Half[32] /\ 2 * Half[32] <= Half[64]
BY HalfAssumption DEF WordSizes

\* The remainder is below the modulus.
LEMMA ModRange ==
    ASSUME NEW x \in Int, NEW m \in Nat, m > 0
    PROVE  x % m \in 0..(m - 1)
OBVIOUS

\* Quotient and remainder are unique.
LEMMA ModUnique ==
    ASSUME NEW m \in Nat, m > 0, NEW q \in Int, NEW r \in 0..(m - 1)
    PROVE  (m * q + r) % m = r
<1> DEFINE x == m * q + r
<1>1. x \in Int
  OBVIOUS
<1> DEFINE k == x \div m
           s == x % m
<1> HIDE DEF x
<1>2. k \in Int /\ s \in 0..(m - 1) /\ x = m * k + s
  BY <1>1
<1> HIDE DEF k, s
<1>3. m * (q - k) = s - r
  BY <1>2 DEF x
<1>4. q - k = 0
  <2> DEFINE d == q - k
  <2>1. d \in Int /\ m * d < m /\ m * d > -m
    BY <1>2, <1>3
  <2> HIDE DEF d
  <2>2. d >= 1 => m * d >= m
    BY <2>1
  <2>3. d <= -1 => m * d <= -m
    BY <2>1
  <2>4. d < 1 /\ d > -1
    BY <2>1, <2>2, <2>3
  <2> QED
    BY <2>1, <2>4 DEF d
<1>5. s = r
  BY <1>2, <1>4 DEF x
<1> QED
  BY <1>5 DEF s, x

\* What is below the modulus is its own remainder.
LEMMA ModLow ==
    ASSUME NEW m \in Nat, NEW x \in 0..(m - 1)
    PROVE  x % m = x
<1>1. m > 0 /\ m * 0 + x = x
  OBVIOUS
<1> QED
  BY <1>1, ModUnique

\* A remainder from the second period.
LEMMA ModHigh ==
    ASSUME NEW m \in Nat, NEW x \in m..(2 * m - 1)
    PROVE  x % m = x - m
<1>1. m > 0 /\ x - m \in 0..(m - 1) /\ m * 1 + (x - m) = x
  OBVIOUS
<1> QED
  BY <1>1, ModUnique

\* int32(v), uint16(v) and the like yield a machine integer.
LEMMA ConversionRange ==
    ASSUME NEW v \in Int, NEW w \in WordSizes
    PROVE  Signed(v, w) \in MinSigned(w)..MaxSigned(w) /\ Unsigned(v, w) \in 0..MaxUnsigned(w)
<1> DEFINE h == Half[w]
<1>1. h \in Nat /\ h > 0
  BY HalfFacts
<1> HIDE DEF h
<1>2. (v + h) % (2 * h) \in 0..(2 * h - 1) /\ v % (2 * h) \in 0..(2 * h - 1)
  BY <1>1, ModRange
<1> QED
  BY <1>1, <1>2 DEF h, Signed, Unsigned, MinSigned, MaxSigned, MaxUnsigned

\* A machine integer that needs no conversion is kept, and an unsigned one
\* too large for the signed type of its size becomes negative.
LEMMA ConversionValue ==
    ASSUME NEW w \in WordSizes, NEW v \in MinSigned(w)..MaxUnsigned(w)
    PROVE  /\ v <= MaxSigned(w) => Signed(v, w) = v
           /\ v > MaxSigned(w) => Signed(v, w) = v - 2 * Half[w]
           /\ v >= 0 => Unsigned(v, w) = v
<1> DEFINE h == Half[w]
<1>1. h \in Nat /\ h > 0 /\ v \in Int /\ -h <= v /\ v <= 2 * h - 1
  BY HalfFacts DEF MinSigned, MaxUnsigned
<1> HIDE DEF h
<1>2. ASSUME v <= h - 1 PROVE (v + h) % (2 * h) = v + h
  BY <1>1, <1>2, ModLow
<1>3. ASSUME v > h - 1 PROVE (v + h) % (2 * h) = v - h
  <2>1. v + h \in (2 * h)..(2 * (2 * h) - 1) /\ 2 * h \in Nat
    BY <1>1, <1>3
  <2>2. (v + h) % (2 * h) = (v + h) - 2 * h
    BY <2>1, ModHigh
  <2> QED
    BY <1>1, <2>2
<1>4. ASSUME v >= 0 PROVE v % (2 * h) = v
  BY <1>1, <1>4, ModLow
<1>5. v <= MaxSigned(w) => Signed(v, w) = v
  BY <1>1, <1>2 DEF h, Signed, MaxSigned
<1>6. v > MaxSigned(w) => Signed(v, w) = v - 2 * Half[w]
  BY <1>1, <1>3 DEF h, Signed, MaxSigned
<1>7. v >= 0 => Unsigned(v, w) = v
  BY <1>1, <1>4 DEF h, Unsigned
<1> QED
  BY <1>5, <1>6, <1>7

-----------------------------------------------------------------------------
(* What a column holds.                                                    *)

\* The values of a column are integers, and NULL only where it may be.
LEMMA ValueFacts ==
    ASSUME NEW c \in Columns, NEW m \in MySQLValues(c)
    PROVE  /\ m.null \in BOOLEAN /\ m.val \in Int
           /\ m.null => c.nullable
           /\ ~m.null => m.val \in Domain(c)
<1>1. c.base \in IntBases => Widths[c.base] \in WordSizes
  BY DEF IntBases, Widths, WordSizes
<1>2. Domain(c) \subseteq Int
  <2>1. \A w \in WordSizes :
           0..MaxUnsigned(w) \subseteq Int /\ MinSigned(w)..MaxSigned(w) \subseteq Int
    BY HalfFacts DEF MaxUnsigned, MinSigned, MaxSigned
  <2>2. /\ 16 \in WordSizes /\ PartialDate..2 \subseteq Int
        /\ 0..(FirstInvalidUTF8 + 1) \subseteq Int /\ 0..1 \subseteq Int
    BY DEF WordSizes, PartialDate, FirstInvalidUTF8
  <2> QED
    BY <1>1, <2>1, <2>2 DEF Domain
<1>3. \/ m \in [null : {FALSE}, val : Domain(c)]
      \/ c.nullable /\ m = [null |-> TRUE, val |-> 0]
  BY Zenon DEF MySQLValues, Nullable
<1>4. CASE m \in [null : {FALSE}, val : Domain(c)]
  <2>1. m.null = FALSE /\ m.val \in Domain(c)
    BY <1>4
  <2> QED
    BY <1>2, <2>1, Zenon
<1>5. CASE c.nullable /\ m = [null |-> TRUE, val |-> 0]
  <2>1. m.null = TRUE /\ m.val = 0
    BY <1>5, Zenon
  <2>2. m.val \in Int
    BY <2>1
  <2> QED
    BY <1>5, <2>1, <2>2, Zenon
<1> QED
  BY <1>3, <1>4, <1>5, Zenon

\* The integer types and their widths.
LEMMA WidthFacts ==
    /\ IntBases = {"tinyint", "smallint", "mediumint", "int", "bigint"}
    /\ Widths["tinyint"] = 8 /\ Widths["smallint"] = 16 /\ Widths["mediumint"] = 24
    /\ Widths["int"] = 32 /\ Widths["bigint"] = 64
BY DEF IntBases, Widths

\* The values of an integer column; those of the types narrower than INT are
\* values of INT.
LEMMA IntegerValues ==
    ASSUME NEW c \in Columns, NEW m \in MySQLValues(c), ~m.null, c.base \in IntBases
    PROVE  /\ c.base = "bigint" /\ c.unsigned => m.val \in 0..MaxUnsigned(64)
           /\ c.base = "bigint" /\ ~c.unsigned => m.val \in MinSigned(64)..MaxSigned(64)
           /\ c.base # "bigint" /\ c.unsigned => m.val \in 0..MaxUnsigned(32)
           /\ c.base # "bigint" /\ ~c.unsigned => m.val \in MinSigned(32)..MaxSigned(32)
<1> DEFINE w == Widths[c.base]
<1>1. /\ c.unsigned => m.val \in 0..MaxUnsigned(w)
      /\ ~c.unsigned => m.val \in MinSigned(w)..MaxSigned(w)
  <2>1. m.val \in Domain(c)
    BY ValueFacts
  <2> QED
    BY <2>1, WidthFacts DEF Domain, DateBases, BinaryBases
<1>2. c.base # "bigint" => w \in {8, 16, 24, 32}
  BY WidthFacts
<1>3. c.base = "bigint" => w = 64
  BY WidthFacts
<1> HIDE DEF w
<1>4. \A u \in {8, 16, 24, 32} :
         /\ 0..MaxUnsigned(u) \subseteq 0..MaxUnsigned(32)
         /\ MinSigned(u)..MaxSigned(u) \subseteq MinSigned(32)..MaxSigned(32)
  <2>1. \A u \in {8, 16, 24, 32} : Half[u] \in Nat /\ Half[u] <= Half[32] /\ Half[32] \in Nat
    BY HalfFacts DEF WordSizes
  <2> QED
    BY <2>1 DEF MaxUnsigned, MinSigned, MaxSigned
<1>5. CASE c.base = "bigint"
  BY <1>1, <1>3, <1>5
<1>6. CASE c.base # "bigint"
  BY <1>1, <1>2, <1>4, <1>6
<1> QED
  BY <1>5, <1>6

-----------------------------------------------------------------------------
(* Conversions.                                                            *)

Values == [type : YDBTypes \cup {"none"}, form : {"bare", "optional", "null", "error"}, val : Int]

\* A value of a type is one that the type can hold.
InRange(y) == y \in Values /\ y.val \in RangeOf(y.type)

\* Wrapping changes the form only.
LEMMA WrapFacts ==
    ASSUME NEW y \in Values, NEW col \in YDBColumns
    PROVE  /\ Wrap(y, col).type = y.type /\ Wrap(y, col).val = y.val
           /\ Wrap(y, col).form = IF col.optional THEN "optional" ELSE y.form
           /\ Wrap(y, col) \in Values
BY DEF Values, Wrap, YDBColumns

\* What each type can hold.
LEMMA RangeFacts ==
    /\ RangeOf("Uint16") = 0..MaxUnsigned(16) /\ RangeOf("Uint32") = 0..MaxUnsigned(32)
    /\ RangeOf("Uint64") = 0..MaxUnsigned(64) /\ RangeOf("Int32") = MinSigned(32)..MaxSigned(32)
    /\ RangeOf("Int64") = MinSigned(64)..MaxSigned(64) /\ RangeOf("Bool") = 0..1
    /\ \A type \in YDBTypes \cup {"none"} :
         type \notin {"Uint16", "Uint32", "Uint64", "Int32", "Int64", "Bool"}
           => RangeOf(type) = Int
BY DEF RangeOf, YDBTypes

\* A bare value is as its definition says.
LEMMA BareFacts ==
    ASSUME NEW type \in YDBTypes, NEW val \in Int
    PROVE  /\ Value(type, val) \in Values
           /\ Value(type, val).type = type /\ Value(type, val).val = val
           /\ Value(type, val).form = "bare"
           /\ val \in RangeOf(type) => InRange(Value(type, val))
BY DEF Value, Values, InRange

LEMMA ValueFields ==
    ASSUME NEW type, NEW val
    PROVE  Value(type, val).type = type /\ Value(type, val).val = val
BY DEF Value

\* So is a NULL; every type can hold the 0 that stands for its payload.
LEMMA NullFacts ==
    ASSUME NEW type \in YDBTypes
    PROVE  /\ Null(type) \in Values
           /\ Null(type).type = type /\ Null(type).val = 0 /\ Null(type).form = "null"
           /\ InRange(Null(type))
<1>1. /\ Half[16] \in Nat /\ Half[32] \in Nat /\ Half[64] \in Nat
      /\ Half[16] > 0 /\ Half[32] > 0 /\ Half[64] > 0
  BY HalfFacts DEF WordSizes
<1>2. 0 \in RangeOf(type)
  <2>1. /\ 0 \in 0..MaxUnsigned(16) /\ 0 \in 0..MaxUnsigned(32) /\ 0 \in 0..MaxUnsigned(64)
        /\ 0 \in MinSigned(32)..MaxSigned(32) /\ 0 \in MinSigned(64)..MaxSigned(64)
        /\ 0 \in 0..1 /\ 0 \in Int
    BY <1>1 DEF MaxUnsigned, MinSigned, MaxSigned
  <2> QED
    BY <2>1, RangeFacts
<1> QED
  BY <1>2 DEF Null, Values, InRange

\* Saturation stays within the unsigned type.
LEMMA ClampFacts ==
    ASSUME NEW v \in Int, NEW w \in WordSizes
    PROVE  /\ Clamp(v, w) \in 0..MaxUnsigned(w)
           /\ v \in 0..MaxUnsigned(w) => Clamp(v, w) = v
BY HalfFacts DEF Clamp, MaxUnsigned

\* int64ToYDB and uint64ToYDB choose among the integer types by the MySQL type.
LEMMA FallbackFacts ==
    ASSUME NEW v \in Int, NEW dataType
    PROVE  /\ v \in MinSigned(64)..MaxSigned(64) => InRange(int64ToYDB(v, dataType))
           /\ v \in 0..MaxUnsigned(64) => InRange(uint64ToYDB(v, dataType))
<1>1. 16 \in WordSizes /\ 32 \in WordSizes
  BY DEF WordSizes
<1>2. /\ Signed(v, 32) \in MinSigned(32)..MaxSigned(32)
      /\ Unsigned(v, 16) \in 0..MaxUnsigned(16) /\ Unsigned(v, 32) \in 0..MaxUnsigned(32)
  BY <1>1, ConversionRange
<1>3. /\ Half[16] \in Nat /\ Half[32] \in Nat
  BY <1>1, HalfFacts
<1>4. /\ Signed(v, 32) \in Int /\ Unsigned(v, 16) \in Int /\ Unsigned(v, 32) \in Int
  BY <1>2, <1>3 DEF MinSigned, MaxSigned, MaxUnsigned
<1>5. /\ InRange(Value("Int32", Signed(v, 32)))
      /\ v \in MinSigned(64)..MaxSigned(64) => InRange(Value("Int64", v))
      /\ InRange(Value("Uint16", Unsigned(v, 16))) /\ InRange(Value("Uint32", Unsigned(v, 32)))
  <2>1. {"Int32", "Int64", "Uint16", "Uint32"} \subseteq YDBTypes
    BY DEF YDBTypes
  <2> QED
    BY <1>2, <1>4, <2>1, RangeFacts, BareFacts
<1>6. v \in 0..MaxUnsigned(64) => InRange(Value("Uint64", v))
  BY RangeFacts, BareFacts DEF YDBTypes
<1> QED
  BY <1>5, <1>6 DEF int64ToYDB, uint64ToYDB

\* Integers: the value is one the type it is sent as can hold.
LEMMA IntegerInRange ==
    ASSUME NEW v \in Int, NEW kind, NEW dataType, NEW type \in YDBTypes,
           kind = "int64" => v \in MinSigned(64)..MaxSigned(64),
           kind # "int64" => v \in 0..MaxUnsigned(64)
    PROVE  InRange(Integer(v, kind, dataType, type))
<1>1. 16 \in WordSizes /\ 32 \in WordSizes /\ 64 \in WordSizes
  BY DEF WordSizes
<1>2. CASE type \in {"Uint64", "Uint32"}
  <2>1. Clamp(v, 64) \in 0..MaxUnsigned(64) /\ Clamp(v, 32) \in 0..MaxUnsigned(32)
    BY <1>1, ClampFacts
  <2>2. Clamp(v, 64) \in Int /\ Clamp(v, 32) \in Int
    BY <1>1, <2>1, HalfFacts DEF MaxUnsigned
  <2>3. "Uint64" \in YDBTypes /\ "Uint32" \in YDBTypes
    BY DEF YDBTypes
  <2>4. InRange(Value("Uint64", Clamp(v, 64))) /\ InRange(Value("Uint32", Clamp(v, 32)))
    <3>1. Clamp(v, 64) \in RangeOf("Uint64") /\ Clamp(v, 32) \in RangeOf("Uint32")
      BY <2>1, RangeFacts, Zenon
    <3>2. InRange(Value("Uint64", Clamp(v, 64)))
      BY <2>2, <2>3, <3>1, BareFacts, Zenon
    <3>3. InRange(Value("Uint32", Clamp(v, 32)))
      BY <2>2, <2>3, <3>1, BareFacts, Zenon
    <3> QED
      BY <3>2, <3>3
  <2> QED
    BY <1>2, <2>4 DEF Integer, SignedFits
<1>3. CASE type = "Uint16" /\ v \in 0..MaxUnsigned(16)
  <2>1. v \in RangeOf(type)
    BY <1>3, RangeFacts
  <2>2. InRange(Value(type, v))
    BY <2>1, BareFacts
  <2> QED
    BY <1>3, <2>2 DEF Integer, SignedFits
<1>4. CASE SignedFits(type, v) /\ type \notin {"Uint64", "Uint32", "Uint16"}
  <2>1. v >= MinSigned(64)
    BY <1>1, HalfFacts DEF MinSigned, MaxUnsigned
  <2>2. v \in RangeOf(type)
    <3>1. CASE type = "Int64" /\ v <= MaxSigned(64)
      <4>1. v \in MinSigned(64)..MaxSigned(64)
        BY <1>1, <2>1, <3>1, HalfFacts DEF MinSigned, MaxSigned
      <4> QED
        BY <3>1, <4>1, RangeFacts
    <3>2. CASE type = "Int32" /\ v \in MinSigned(32)..MaxSigned(32)
      BY <3>2, RangeFacts
    <3> QED
      BY <1>4, <3>1, <3>2 DEF SignedFits
  <2>3. InRange(Value(type, v))
    BY <2>2, BareFacts
  <2> QED
    BY <1>4, <2>3 DEF Integer
<1>5. CASE /\ type \notin {"Uint64", "Uint32"} /\ ~(type = "Uint16" /\ v \in 0..MaxUnsigned(16))
           /\ ~SignedFits(type, v)
  <2>1. Integer(v, kind, dataType, type) =
          IF kind = "int64" THEN int64ToYDB(v, dataType) ELSE uint64ToYDB(v, dataType)
    BY <1>5 DEF Integer
  <2> QED
    BY <2>1, FallbackFacts
<1> QED
  BY <1>2, <1>3, <1>4, <1>5 DEF SignedFits

\* The YDB type of a MySQL type is a YDB type.
LEMMA YQLType ==
    ASSUME NEW dataType
    PROVE  mysqlTypeToYQLBase(dataType) \in YDBTypes
BY DEF mysqlTypeToYQLBase, YDBTypes

\* Whatever is converted for whatever column, the value is one its type can
\* hold.
LEMMA ConvertInRange ==
    ASSUME NEW v \in Int, NEW kind, NEW dataType, NEW nullable, NEW col \in YDBColumns,
           kind = "int64" => v \in MinSigned(64)..MaxSigned(64),
           kind = "uint64" => v \in 0..MaxUnsigned(64)
    PROVE  InRange(Convert(kind, v, dataType, nullable, col))
<1>1. col.type \in YDBTypes
  BY DEF YDBColumns
<1>2. ASSUME NEW z, InRange(z) PROVE InRange(Wrap(z, col))
  BY <1>2, WrapFacts DEF InRange
<1>3. InRange(NoValue)
  BY RangeFacts DEF InRange, NoValue, Values, YDBTypes
<1>4. CASE kind = "nil"
  <2>1. InRange(NullFor(dataType, nullable, col))
    <3>1. InRange(Null("Text")) /\ InRange(Null("String"))
      BY NullFacts DEF YDBTypes
    <3>2. InRange(Null(col.type)) /\ InRange(Null(mysqlTypeToYQLBase(dataType)))
      BY <1>1, YQLType, NullFacts
    <3> QED
      BY <1>3, <3>1, <3>2 DEF NullFor
  <2> QED
    BY <1>4, <2>1 DEF Convert
<1>5. ASSUME IsDate(dataType)
      PROVE  /\ isYDBDateType(col.type) => InRange(DateTime(v, nullable, col))
             /\ InRange(ForeignDate(v, dataType, col))
  <2>1. ASSUME NEW type \in {"Date", "Datetime", "Timestamp"}, NEW t \in Int
        PROVE  InRange(Value(type, t))
    BY RangeFacts, BareFacts DEF YDBTypes
  <2> DEFINE t == IF isInvalidDate(v) THEN 0 ELSE v
  <2>2. t \in Int
    OBVIOUS
  <2> HIDE DEF t
  <2>3. mysqlTypeToYQLBase(dataType) \in {"Date", "Datetime", "Timestamp"}
    BY <1>5 DEF IsDate, mysqlTypeToYQLBase
  <2>4. InRange(ForeignDate(v, dataType, col))
    BY <1>2, <2>1, <2>2, <2>3 DEF ForeignDate, t
  <2>5. ASSUME isYDBDateType(col.type) PROVE InRange(DateTime(v, nullable, col))
    <3>1. InRange(Null(col.type))
      BY <1>1, NullFacts
    <3>2. InRange(Wrap(Value(col.type, t), col))
      BY <1>2, <2>1, <2>2, <2>5 DEF isYDBDateType
    <3> QED
      BY <3>1, <3>2 DEF DateTime, t
  <2> QED
    BY <2>4, <2>5
<1>6. InRange(TextOrBytes(v, TRUE)) /\ InRange(TextOrBytes(v, FALSE))
  <2>1. InRange(Value("Text", v)) /\ InRange(Value("Text", Replaced)) /\ InRange(Value("String", v))
    BY RangeFacts, BareFacts DEF YDBTypes, Replaced
  <2> QED
    BY <2>1 DEF TextOrBytes
<1>7. InRange(Scalar(kind, v, dataType, col.type))
  <2>1. kind \in {"int64", "uint64"} => InRange(Integer(v, kind, dataType, col.type))
    BY <1>1, IntegerInRange
  <2>2. InRange(Value("Float", v)) /\ InRange(Value("Double", v))
    BY RangeFacts, BareFacts DEF YDBTypes
  <2>3. InRange(TextOrBytes(v, dataType \in {"text", "bytes"} => col.type = "Text"))
    BY <1>6 DEF TextOrBytes
  <2> QED
    BY <2>1, <2>2, <2>3 DEF Scalar
<1>8. InRange(Value("Bool", IF v # 0 THEN 1 ELSE 0))
  BY RangeFacts, BareFacts DEF YDBTypes
<1>9. CASE kind # "nil"
  BY <1>2, <1>5, <1>7, <1>8, <1>9 DEF Convert
<1> QED
  BY <1>4, <1>9

-----------------------------------------------------------------------------
(* The rows sent.                                                          *)

\* What is converted for a column c and a YDB column t, and its fate.
Row(c, t, m, k) ==
    LET y == Convert(k, m.val, normalizeMySQLType(c), c.nullable, t)
    IN  [mysql |-> m, ydb |-> y, stored |-> Accepts(t, y)]
Sent(c, t) == UNION {{Row(c, t, m, k) : k \in RawKinds(c, m)} : m \in MySQLValues(c)}

\* What a row says.
LEMMA RowFields ==
    ASSUME NEW c, NEW t, NEW m, NEW k
    PROVE  LET y == Convert(k, m.val, normalizeMySQLType(c), c.nullable, t)
               r == Row(c, t, m, k)
           IN  r.mysql = m /\ r.ydb = y /\ r.stored = Accepts(t, y)
BY DEF Row

LEMMA RowIsSent ==
    ASSUME NEW c, NEW t, NEW m \in MySQLValues(c), NEW k \in RawKinds(c, m)
    PROVE  Row(c, t, m, k) \in Sent(c, t)
<1>1. Row(c, t, m, k) \in {Row(c, t, m, kk) : kk \in RawKinds(c, m)}
  OBVIOUS
<1> QED
  BY <1>1 DEF Sent

\* The inductive invariant: the YDB column, once there, does not change, and
\* every row is one converted for it.
ValueInv ==
    /\ column \in Columns
    /\ target \in YDBColumns \cup {NoColumn}
    /\ own \in BOOLEAN /\ (own => target = OwnColumn(column))
    /\ rows \in Seq(Sent(column, target)) /\ Len(rows) <= MaxRows
    /\ target = NoColumn => rows = <<>>

\* A type is there or not.
LEMMA TargetFacts ==
    /\ NoColumn \notin YDBColumns
    /\ \A c \in Columns : OwnColumn(c) \in YDBColumns
<1>1. NoColumn \notin YDBColumns
  BY DEF NoColumn, YDBColumns, YDBTypes
<1>2. ASSUME NEW c \in Columns PROVE OwnColumn(c) \in YDBColumns
  <2>1. c.nullable \in BOOLEAN
    BY ColumnsAssumption DEF ColumnTypes
  <2>2. "Int64" \in YDBTypes /\ mysqlTypeToYQLBase(normalizeMySQLType(c)) \in YDBTypes
    BY YQLType DEF YDBTypes
  <2>3. ASSUME NEW t \in YDBTypes, NEW b \in BOOLEAN
        PROVE  [type |-> t, optional |-> b] \in YDBColumns
    BY DEF YDBColumns
  <2> QED
    BY <2>1, <2>2, <2>3, Zenon DEF OwnColumn
<1> QED
  BY <1>1, <1>2

LEMMA ValueInit == Init => ValueInv
<1> SUFFICES ASSUME Init PROVE ValueInv
  OBVIOUS
<1>1. column \in Columns /\ target = NoColumn /\ own = FALSE /\ rows = <<>>
  BY Zenon DEF Init
<1>2. rows \in Seq(Sent(column, target)) /\ Len(rows) <= MaxRows
  BY <1>1, MaxRowsAssumption
<1> QED
  BY <1>1, <1>2, Zenon DEF ValueInv

LEMMA ValueStep == ValueInv /\ [Next]_vars => ValueInv'
<1> SUFFICES ASSUME ValueInv, [Next]_vars PROVE ValueInv'
  OBVIOUS
<1>1. CASE CreateTable
  <2>1. target = NoColumn /\ rows = <<>> /\ target' = OwnColumn(column) /\ own' = TRUE
        /\ column' = column /\ rows' = rows /\ column \in Columns /\ Len(rows) <= MaxRows
    BY <1>1, Zenon DEF CreateTable, ValueInv
  <2>2. target' \in YDBColumns
    BY <2>1, TargetFacts
  <2>3. rows' \in Seq(Sent(column', target'))
    BY <2>1
  <2> QED
    BY <2>1, <2>2, <2>3, Zenon DEF ValueInv
<1>2. ASSUME NEW t \in HandMade, UseExisting(t) PROVE ValueInv'
  <2>1. target = NoColumn /\ rows = <<>> /\ target' = t /\ own' = own
        /\ column' = column /\ rows' = rows /\ column \in Columns /\ Len(rows) <= MaxRows
    BY <1>2, Zenon DEF UseExisting, ValueInv
  <2>2. ~own
    BY <2>1, TargetFacts DEF ValueInv
  <2>3. rows' \in Seq(Sent(column', target'))
    BY <2>1
  <2>4. target' \in YDBColumns
    BY <2>1, HandMadeAssumption
  <2> QED
    BY <2>1, <2>2, <2>3, <2>4, Zenon DEF ValueInv
<1>3. ASSUME NEW m \in MySQLValues(column), NEW k \in RawKinds(column, m), WriteRow(m, k)
      PROVE  ValueInv'
  <2>1. rows' = Append(rows, Row(column, target, m, k)) /\ Len(rows) < MaxRows
        /\ UNCHANGED <<column, target, own>> /\ target # NoColumn
    BY <1>3, Zenon DEF WriteRow, Row
  <2>2. Row(column, target, m, k) \in Sent(column, target)
    BY <1>3, RowIsSent, Zenon
  <2>3. rows \in Seq(Sent(column, target))
    BY Zenon DEF ValueInv
  <2>4. rows' \in Seq(Sent(column, target)) /\ Len(rows') = Len(rows) + 1
    BY <2>1, <2>2, <2>3
  <2>5. Len(rows') <= MaxRows
    <3>1. Len(rows) \in Nat
      BY <2>3
    <3> QED
      BY <2>1, <2>4, <3>1, MaxRowsAssumption
  <2> QED
    BY <2>1, <2>4, <2>5, Zenon DEF ValueInv
<1>4. CASE UNCHANGED vars
  BY <1>4, Zenon DEF vars, ValueInv
<1> QED
  BY <1>1, <1>2, <1>3, <1>4, Zenon DEF Next

\* The rows of a state satisfying the invariant.
LEMMA RowFacts ==
    ASSUME ValueInv, NEW i \in 1..Len(rows)
    PROVE  /\ target \in YDBColumns
           /\ rows[i].mysql \in MySQLValues(column)
           /\ rows[i].stored = Accepts(target, rows[i].ydb)
           /\ \E k \in RawKinds(column, rows[i].mysql) :
                rows[i].ydb = Convert(k, rows[i].mysql.val, normalizeMySQLType(column),
                                      column.nullable, target)
<1>1. rows \in Seq(Sent(column, target)) /\ (target = NoColumn => rows = <<>>)
      /\ target \in YDBColumns \cup {NoColumn}
  BY Zenon DEF ValueInv
<1>2. rows[i] \in Sent(column, target) /\ rows # <<>>
  BY <1>1
<1>3. PICK m \in MySQLValues(column) :
        \E k \in RawKinds(column, m) : rows[i] = Row(column, target, m, k)
  BY <1>2, Zenon DEF Sent
<1>4. PICK k \in RawKinds(column, m) : rows[i] = Row(column, target, m, k)
  BY <1>3, Zenon
<1> DEFINE r == Row(column, target, m, k)
           y == Convert(k, m.val, normalizeMySQLType(column), column.nullable, target)
<1>5. r.mysql = m /\ r.ydb = y /\ r.stored = Accepts(target, y)
  BY RowFields
<1>6. rows[i] = r
  BY <1>4, Zenon
<1> HIDE DEF r
<1>7. rows[i].mysql = m /\ rows[i].ydb = y /\ rows[i].stored = Accepts(target, y)
  BY <1>5, <1>6, Zenon
<1> QED
  BY <1>1, <1>2, <1>7, Zenon

\* In particular those that YDB took.
LEMMA StoredFacts ==
    ASSUME ValueInv, NEW r \in Stored
    PROVE  /\ target \in YDBColumns
           /\ r.mysql \in MySQLValues(column)
           /\ r.ydb.type = target.type
           /\ (r.ydb.form # "bare") = target.optional
           /\ \E k \in RawKinds(column, r.mysql) :
                r.ydb = Convert(k, r.mysql.val, normalizeMySQLType(column),
                                column.nullable, target)
<1>1. PICK i \in 1..Len(rows) : r = rows[i] /\ rows[i].stored
  BY Zenon DEF Stored
<1>2. Accepts(target, rows[i].ydb)
  BY <1>1, RowFacts, Zenon
<1>3. r.ydb.type = target.type /\ (r.ydb.form # "bare") = target.optional
  BY <1>1, <1>2, Zenon DEF Accepts
<1> QED
  BY <1>1, <1>3, RowFacts, Zenon

\* What the driver delivers for a column.
LEMMA KindFacts ==
    ASSUME NEW c \in Columns, NEW m \in MySQLValues(c), NEW k \in RawKinds(c, m)
    PROVE  /\ m.null => k = "nil"
           /\ ~m.null => k # "nil"
           /\ k = "uint64" => c.base = "bigint" /\ c.unsigned
           /\ k = "int64" => c.base \in IntBases \cup {"year"}
           /\ k = "int64" /\ c.base = "bigint" /\ c.unsigned => m.val <= MaxSigned(64)
           /\ ~m.null /\ c.base \in IntBases \cup {"year"} => k \in {"int64", "uint64"}
           /\ ~m.null /\ c.base = "float" => k = "float32"
           /\ ~m.null /\ c.base \in {"double", "real"} => k = "float64"
           /\ ~m.null /\ c.base \notin IntBases \cup FloatBases \cup {"year"} =>
                k \in {"[]byte", "time.Time"}
BY DEF RawKinds, IntBases, Widths, FloatBases, DateBases

\* An int64 is one.
LEMMA Int64Values ==
    ASSUME NEW c \in Columns, NEW m \in MySQLValues(c), NEW k \in RawKinds(c, m), k = "int64"
    PROVE  m.val \in MinSigned(64)..MaxSigned(64)
<1>1. ~m.null /\ c.base \in IntBases \cup {"year"} /\ m.val \in Int
  BY KindFacts, ValueFacts
<1>2. /\ Half[16] \in Nat /\ Half[32] \in Nat /\ Half[64] \in Nat
      /\ 2 * Half[16] <= Half[32] /\ 2 * Half[32] <= Half[64]
  <2>1. Half[16] \in Nat /\ Half[24] \in Nat /\ Half[32] \in Nat /\ Half[64] \in Nat
    BY HalfFacts DEF WordSizes
  <2> QED
    BY <2>1, HalfFacts
<1>3. CASE c.base = "year"
  <2>1. m.val \in Domain(c) /\ c.base \notin IntBases
    BY <1>1, <1>3, ValueFacts, WidthFacts
  <2>2. m.val \in 0..MaxUnsigned(16)
    BY <1>3, <2>1 DEF Domain, DateBases, BinaryBases
  <2> QED
    BY <1>2, <2>2 DEF MaxUnsigned, MinSigned, MaxSigned
<1>4. CASE c.base = "bigint"
  <2>1. /\ c.unsigned => m.val \in 0..MaxUnsigned(64) /\ m.val <= MaxSigned(64)
        /\ ~c.unsigned => m.val \in MinSigned(64)..MaxSigned(64)
    BY <1>1, <1>4, IntegerValues, KindFacts, WidthFacts
  <2> QED
    BY <1>2, <2>1 DEF MaxUnsigned, MinSigned, MaxSigned
<1>5. CASE c.base \in IntBases /\ c.base # "bigint"
  <2>1. m.val \in 0..MaxUnsigned(32) \/ m.val \in MinSigned(32)..MaxSigned(32)
    BY <1>1, <1>5, IntegerValues
  <2> QED
    BY <1>2, <2>1 DEF MaxUnsigned, MinSigned, MaxSigned
<1> QED
  BY <1>1, <1>3, <1>4, <1>5

\* Type correctness: in particular a value sent as a type is one that type
\* can hold, whatever the YDB column is.
THEOREM ValueTypes == Spec => []TypeOK
<1>1. ValueInv => TypeOK
  <2> SUFFICES ASSUME ValueInv PROVE TypeOK
    OBVIOUS
  <2>1. ASSUME NEW i \in 1..Len(rows)
        PROVE  /\ rows[i].mysql \in MySQLValues(column)
               /\ rows[i].ydb.type \in YDBTypes \cup {"none"}
               /\ rows[i].ydb.val \in RangeOf(rows[i].ydb.type)
               /\ rows[i].stored \in BOOLEAN
    <3>1. target \in YDBColumns /\ column \in Columns
      BY <2>1, RowFacts, Zenon DEF ValueInv
    <3> DEFINE m == rows[i].mysql
               y == rows[i].ydb
    <3>2. PICK k \in RawKinds(column, m) :
            y = Convert(k, m.val, normalizeMySQLType(column), column.nullable, target)
      BY <2>1, RowFacts, Zenon
    <3>3. m \in MySQLValues(column) /\ rows[i].stored = Accepts(target, y)
      BY <2>1, RowFacts, Zenon
    <3> HIDE DEF m
    <3>4. m.val \in Int
      BY <3>1, <3>3, ValueFacts
    <3>5. /\ k = "uint64" => m.val \in 0..MaxUnsigned(64)
          /\ k = "int64" => m.val \in MinSigned(64)..MaxSigned(64)
      BY <3>1, <3>3, KindFacts, IntegerValues, Int64Values, WidthFacts
    <3>6. InRange(y)
      <4> HIDE DEF y
      <4> QED
        BY <3>1, <3>2, <3>4, <3>5, ConvertInRange
    <3>7. y.type \in YDBTypes \cup {"none"} /\ y.val \in RangeOf(y.type)
      BY <3>6 DEF InRange, Values
    <3>8. Accepts(target, y) \in BOOLEAN
      BY Zenon DEF Accepts
    <3> QED
      BY <3>3, <3>7, <3>8, Zenon DEF m
  <2> QED
    BY <2>1, Zenon DEF ValueInv, TypeOK
<1> QED
  BY <1>1, ValueInit, ValueStep, PTL DEF Spec

-----------------------------------------------------------------------------
(* Dates.                                                                  *)

\* The column the importer creates for a date.
LEMMA DateColumn ==
    ASSUME NEW c \in Columns, c.base \in DateBases
    PROVE  /\ normalizeMySQLType(c) = c.base /\ IsDate(c.base)
           /\ OwnColumn(c).type \in {"Date", "Timestamp"}
           /\ OwnColumn(c).type = mysqlTypeToYQLBase(c.base)
           /\ OwnColumn(c).optional = TRUE
<1>1. ~c.autoIncrement
  BY ColumnsAssumption, WidthFacts DEF DateBases, FloatBases
<1>2. normalizeMySQLType(c) = c.base
  BY WidthFacts DEF normalizeMySQLType, DateBases, BinaryBases
<1>3. mysqlTypeToYQLBase(c.base) \in {"Date", "Timestamp"}
  BY DEF mysqlTypeToYQLBase, DateBases
<1>4. IsDate(c.base)
  BY DEF IsDate, DateBases
<1>5. OwnColumn(c) = [type |-> mysqlTypeToYQLBase(c.base), optional |-> TRUE]
  BY <1>1, <1>2, Zenon DEF OwnColumn
<1> QED
  BY <1>2, <1>3, <1>4, <1>5

\* What becomes of a date in a date column.
LEMMA DateConversion ==
    ASSUME NEW c \in Columns, c.base \in DateBases,
           NEW m \in MySQLValues(c), NEW k \in RawKinds(c, m),
           NEW t \in YDBColumns, isYDBDateType(t.type),
           NEW y, y = Convert(k, m.val, normalizeMySQLType(c), c.nullable, t)
    PROVE  /\ m.null => y.form = "null"
           /\ ~m.null /\ m.val < 0 /\ (c.nullable \/ t.optional) =>
                y.form = "null" \/ m.val = PartialDate
           /\ ~m.null /\ m.val < 0 /\ ~(c.nullable \/ t.optional) =>
                (y.form # "null" /\ y.val = 0) \/ m.val = PartialDate
           /\ ~m.null /\ m.val >= 0 => y.form # "null" /\ y.val = m.val
           /\ ~m.null /\ m.val = PartialDate => y.type = "Text"
<1> DEFINE v == m.val
           lenient == c.nullable \/ t.optional
<1>1. /\ normalizeMySQLType(c) = c.base /\ IsDate(c.base)
      /\ t.type \in {"Date", "Datetime", "Timestamp"} /\ t \in YDBColumns /\ isYDBDateType(t.type)
      /\ y = Convert(k, v, c.base, c.nullable, t)
  BY DateColumn DEF isYDBDateType
<1>2. v \in Int /\ c.base # "bool" /\ (m.null => k = "nil" /\ c.nullable) /\ (~m.null => k # "nil")
  BY ValueFacts, KindFacts DEF DateBases
<1> HIDE DEF v
<1>3. CASE m.null
  <2>1. y = Null(t.type)
    BY <1>1, <1>2, <1>3 DEF Convert, NullFor, DateBases
  <2> QED
    BY <1>1, <1>3, <2>1 DEF Null, v
<1>4. CASE ~m.null /\ v # PartialDate
  <2>1. y = DateTime(v, c.nullable, t)
    BY <1>1, <1>2, <1>4 DEF Convert
  <2>2. CASE v < 0 /\ lenient
    <3>1. y = Null(t.type)
      BY <2>1, <2>2 DEF DateTime, isInvalidDate
    <3>2. y.form = "null"
      BY <3>1 DEF Null
    <3>3. ~(v >= 0)
      BY <1>2, <2>2
    <3> QED
      BY <1>4, <2>2, <3>2, <3>3, Zenon DEF v
  <2>3. CASE ~(v < 0 /\ lenient)
    <3> DEFINE u == IF v < 0 THEN 0 ELSE v
    <3>1. y = Wrap(Value(t.type, u), t)
      BY <1>1, <2>1, <2>3 DEF DateTime, isInvalidDate
    <3>2. u \in Int /\ t.type \in YDBTypes
      BY <1>1, <1>2 DEF YDBTypes
    <3>3. y.val = u /\ y.form # "null"
      <4> HIDE DEF u
      <4> QED
        BY <1>1, <3>1, <3>2, BareFacts, WrapFacts
    <3> QED
      BY <1>1, <1>2, <1>4, <2>3, <3>3 DEF v
  <2> QED
    BY <2>2, <2>3
<1>5. CASE ~m.null /\ v = PartialDate
  <2>1. k \in {"[]byte", "time.Time"} /\ k # "time.Time"
    BY <1>5, KindFacts, WidthFacts DEF RawKinds, DateBases, FloatBases, v
  <2>2. y = Wrap(TextOrBytes(v, TRUE), t)
    BY <1>1, <1>2, <1>5, <2>1 DEF Convert, Scalar, DateBases
  <2>3. TextOrBytes(v, TRUE) = Value("Text", PartialDate) /\ PartialDate \in Int /\ PartialDate < 0
    BY <1>5 DEF TextOrBytes, PartialDate, FirstInvalidUTF8
  <2>4. y.type = "Text"
    <3> DEFINE z == Value("Text", PartialDate)
    <3>1. z \in Values /\ z.type = "Text"
      BY <2>3, BareFacts DEF YDBTypes
    <3> HIDE DEF z
    <3>2. y = Wrap(z, t)
      BY <2>2, <2>3 DEF z
    <3> QED
      BY <1>1, <3>1, <3>2, WrapFacts
  <2> QED
    BY <1>1, <1>5, <2>3, <2>4 DEF v
<1> QED
  BY <1>3, <1>4, <1>5

\* A date stored in a date column is the MySQL date, NULL for an invalid one
\* where the column takes NULLs, as all of the importer's do, and 1970-01-01
\* where it does not.
THEOREM DatesTheorem == Spec => []DatesKeptOrReplaced
<1>1. ValueInv => DatesKeptOrReplaced
  <2> SUFFICES ASSUME ValueInv, column.base \in DateBases, isYDBDateType(target.type),
                      NEW r \in Stored
               PROVE  IF r.mysql.null \/ (r.mysql.val < 0 /\ (target.optional \/ own))
                      THEN r.ydb.form = "null"
                      ELSE NotNull(r) /\ r.ydb.val = (IF r.mysql.val < 0 THEN 0 ELSE r.mysql.val)
    BY Zenon DEF DatesKeptOrReplaced
  <2> DEFINE m == r.mysql
             y == r.ydb
  <2>1. column \in Columns /\ target \in YDBColumns /\ (own => target = OwnColumn(column))
    BY StoredFacts, Zenon DEF ValueInv
  <2>2. /\ m \in MySQLValues(column) /\ y.type = target.type
        /\ (y.form # "bare") = target.optional
    BY StoredFacts, Zenon
  <2>3. PICK k \in RawKinds(column, m) :
          y = Convert(k, m.val, normalizeMySQLType(column), column.nullable, target)
    BY StoredFacts, Zenon
  <2>4. m.val \in Int /\ m.null \in BOOLEAN
    BY <2>1, <2>2, ValueFacts
  <2>5. target.type # "Text" /\ (own => target.optional = TRUE) /\ "null" # "bare"
    BY <2>1, DateColumn DEF isYDBDateType
  <2> DEFINE lenient == target.optional \/ own
             allowed == column.nullable \/ target.optional
  <2>6. /\ m.null => y.form = "null"
        /\ ~m.null /\ m.val < 0 /\ allowed => y.form = "null" \/ m.val = PartialDate
        /\ ~m.null /\ m.val < 0 /\ ~allowed =>
             (y.form # "null" /\ y.val = 0) \/ m.val = PartialDate
        /\ ~m.null /\ m.val >= 0 => y.form # "null" /\ y.val = m.val
        /\ ~m.null /\ m.val = PartialDate => y.type = "Text"
    <3> HIDE DEF m, y
    <3> QED
      BY <2>1, <2>2, <2>3, DateConversion, Zenon
  <2> HIDE DEF m, y
  <2>7. m.val < 0 \/ (m.val >= 0 /\ ~(m.val < 0))
    BY <2>4
  <2>8. CASE m.null
    BY <2>6, <2>8, Zenon DEF m, y
  <2>9. CASE ~m.null /\ m.val < 0 /\ lenient
    <3>1. allowed /\ m.val # PartialDate
      BY <2>2, <2>5, <2>6, <2>9, Zenon
    <3> QED
      BY <2>6, <2>9, <3>1, Zenon DEF m, y
  <2>10. CASE ~m.null /\ m.val < 0 /\ ~lenient
    <3>1. y.form # "null" /\ m.val # PartialDate
      BY <2>2, <2>5, <2>6, <2>10, Zenon
    <3>2. y.val = 0
      BY <2>6, <2>10, <3>1, Zenon
    <3> QED
      BY <2>10, <3>1, <3>2, Zenon DEF m, y, NotNull
  <2>11. CASE ~m.null /\ m.val >= 0 /\ ~(m.val < 0)
    BY <2>6, <2>11, Zenon DEF m, y, NotNull
  <2> QED
    BY <2>7, <2>8, <2>9, <2>10, <2>11, Zenon
<1> QED
  BY <1>1, ValueInit, ValueStep, PTL DEF Spec

-----------------------------------------------------------------------------
(* Integers.                                                               *)

\* Only a NULL is sent as NULL, where the column is not one of dates.
LEMMA NullIsNull ==
    ASSUME NEW c \in Columns, NEW m \in MySQLValues(c), NEW k \in RawKinds(c, m), NEW t,
           NEW y, y = Convert(k, m.val, normalizeMySQLType(c), c.nullable, t), m.null
    PROVE  y.form = "null"
<1>1. k = "nil" /\ c.nullable
  BY KindFacts, ValueFacts, Zenon
<1>2. y = NullFor(normalizeMySQLType(c), c.nullable, t)
  BY <1>1, Zenon DEF Convert
<1>3. \E type : y = Null(type)
  BY <1>1, <1>2 DEF NullFor
<1> QED
  BY <1>3 DEF Null

\* The short types of the integer columns.
LEMMA IntegerTypes ==
    ASSUME NEW c \in Columns, IsInteger(c)
    PROVE  LET d == normalizeMySQLType(c)
           IN  /\ c.base \in IntBases /\ d \in {"int", "bigint", "int unsigned", "bigint unsigned"}
               /\ d \in {"bigint", "bigint unsigned"} => c.base = "bigint"
               /\ d \in {"int", "int unsigned"} => c.base # "bigint"
               /\ d \in {"int unsigned", "bigint unsigned"} => c.unsigned
               /\ d \in {"int", "bigint"} /\ ~SignLost(c) => ~c.unsigned
<1> DEFINE d == normalizeMySQLType(c)
<1>1. c.base \in IntBases /\ d # "bool"
  BY Zenon DEF IsInteger
<1>2. /\ BareUnsigned(c) => c.unsigned
      /\ ~BareUnsigned(c) /\ ~SignLost(c) => ~c.unsigned
  BY <1>1, Zenon DEF BareUnsigned, SignLost
<1>3. d = IF c.base = "bigint" THEN IF BareUnsigned(c) THEN "bigint unsigned" ELSE "bigint"
          ELSE IF BareUnsigned(c) THEN "int unsigned" ELSE "int"
  <2>1. c.base \notin DateBases \cup {"float", "year", "bit", "double", "real", "binary",
                                     "varbinary", "blob", "decimal", "numeric"}
    BY <1>1, WidthFacts DEF DateBases
  <2>2. CASE c.base = "bigint"
    <3>1. d = IF BareUnsigned(c) THEN "bigint unsigned" ELSE "bigint"
      BY <2>1, <2>2 DEF normalizeMySQLType
    <3> QED
      BY <2>2, <3>1, Zenon
  <2>3. CASE c.base # "bigint"
    <3>1. d = IF BareUnsigned(c) THEN "int unsigned"
              ELSE IF c.base = "tinyint" /\ c.width = "(1)" THEN "bool" ELSE "int"
      BY <1>1, <2>1, <2>3 DEF normalizeMySQLType
    <3> QED
      BY <1>1, <2>3, <3>1, Zenon
  <2> QED
    BY <2>2, <2>3
<1> HIDE DEF d
<1>4. CASE BareUnsigned(c)
  <2>1. d = IF c.base = "bigint" THEN "bigint unsigned" ELSE "int unsigned"
    BY <1>3, <1>4, Zenon
  <2>2. d \notin {"int", "bigint"}
    BY <2>1
  <2>3. /\ d \in {"int", "bigint", "int unsigned", "bigint unsigned"}
        /\ d \in {"bigint", "bigint unsigned"} => c.base = "bigint"
        /\ d \in {"int", "int unsigned"} => c.base # "bigint"
    BY <2>1
  <2> QED
    BY <1>1, <1>2, <1>4, <2>2, <2>3, Zenon DEF d
<1>5. CASE ~BareUnsigned(c)
  <2>1. d = IF c.base = "bigint" THEN "bigint" ELSE "int"
    BY <1>3, <1>5, Zenon
  <2>2. d \notin {"int unsigned", "bigint unsigned"}
    BY <2>1
  <2>3. /\ d \in {"int", "bigint", "int unsigned", "bigint unsigned"}
        /\ d \in {"bigint", "bigint unsigned"} => c.base = "bigint"
        /\ d \in {"int", "int unsigned"} => c.base # "bigint"
    BY <2>1
  <2> QED
    BY <1>1, <1>2, <1>5, <2>2, <2>3, Zenon DEF d
<1> QED
  BY <1>4, <1>5, Zenon

\* What an integer becomes when it is sent as the type of the column: it
\* saturates in an unsigned column, else it is kept, or reduced to int32.
SentAs(v, kind, d, ty, z) ==
    /\ ty = "Uint64" => z.val = Clamp(v, 64)
    /\ ty = "Uint32" => z.val = Clamp(v, 32)
    /\ ty \notin {"Uint32", "Uint64"} =>
         \/ z.val = v
         \/ /\ ty = "Int32" /\ kind = "int64" /\ d = "int" /\ z.val = Signed(v, 32)
            /\ v \notin MinSigned(32)..MaxSigned(32)

LEMMA IntegerSent ==
    ASSUME NEW v \in Int, NEW kind \in {"int64", "uint64"}, NEW ty,
           NEW d \in {"int", "bigint", "int unsigned", "bigint unsigned"},
           NEW z, z = Integer(v, kind, d, ty), z.type = ty
    PROVE  SentAs(v, kind, d, ty, z)
<1> USE DEF SentAs
<1>1. CASE ty = "Uint64" \/ ty = "Uint32"
  BY <1>1 DEF Integer, Value, SignedFits
<1>2. CASE ty = "Uint16" /\ v \in 0..MaxUnsigned(16)
  BY <1>2 DEF Integer, Value, SignedFits
<1>3. CASE SignedFits(ty, v)
  BY <1>3 DEF Integer, Value, SignedFits
<1>4. CASE /\ ty \notin {"Uint32", "Uint64"} /\ ~(ty = "Uint16" /\ v \in 0..MaxUnsigned(16))
           /\ ~SignedFits(ty, v)
  <2>1. z = IF kind = "int64" THEN int64ToYDB(v, d) ELSE uint64ToYDB(v, d)
    BY <1>4 DEF Integer
  <2>2. /\ Value("Int32", Signed(v, 32)).type = "Int32"
        /\ Value("Int32", Signed(v, 32)).val = Signed(v, 32)
        /\ Value("Int64", v).val = v
        /\ Value("Uint32", Unsigned(v, 32)).type = "Uint32"
        /\ Value("Uint64", v).type = "Uint64"
    BY ValueFields
  <2>3. CASE kind = "int64" /\ d = "int"
    <3>1. z = Value("Int32", Signed(v, 32))
      BY <2>1, <2>3 DEF int64ToYDB
    <3>2. ty = "Int32" /\ z.val = Signed(v, 32)
      BY <2>2, <3>1
    <3>3. v \notin MinSigned(32)..MaxSigned(32)
      BY <1>4, <3>2 DEF SignedFits
    <3> QED
      BY <2>3, <3>2, <3>3
  <2>4. CASE kind = "int64" /\ d # "int"
    <3>1. z = Value("Int64", v)
      BY <2>1, <2>4 DEF int64ToYDB
    <3>2. z.val = v
      BY <2>2, <3>1
    <3> QED
      BY <1>4, <3>2
  <2>5. CASE kind = "uint64"
    <3>1. z = Value("Uint32", Unsigned(v, 32)) \/ z = Value("Uint64", v)
      BY <2>1, <2>5 DEF uint64ToYDB
    <3>2. ty = "Uint32" \/ ty = "Uint64"
      BY <2>2, <3>1
    <3> QED
      BY <1>4, <3>2
  <2> QED
    BY <2>3, <2>4, <2>5
<1> QED
  BY <1>1, <1>2, <1>3, <1>4

\* The same of a row: an integer column and any YDB column.
LEMMA IntegerConversion ==
    ASSUME NEW c \in Columns, IsInteger(c), NEW m \in MySQLValues(c), ~m.null,
           NEW k \in RawKinds(c, m), NEW t \in YDBColumns,
           NEW y, y = Convert(k, m.val, normalizeMySQLType(c), c.nullable, t), y.type = t.type
    PROVE  /\ m.val \in Int
           /\ t.type = "Uint64" => y.val = Clamp(m.val, 64)
           /\ t.type = "Uint32" => y.val = Clamp(m.val, 32)
           /\ t.type \notin {"Uint32", "Uint64"} =>
                \/ y.val = m.val
                \/ /\ t.type = "Int32" /\ normalizeMySQLType(c) = "int"
                   /\ y.val = Signed(m.val, 32)
                   /\ m.val \notin MinSigned(32)..MaxSigned(32)
<1> DEFINE v == m.val
           d == normalizeMySQLType(c)
           z == Integer(v, k, d, t.type)
<1>1. v \in Int /\ k \in {"int64", "uint64"}
  BY ValueFacts, KindFacts, IntegerTypes
<1>2. d \in {"int", "bigint", "int unsigned", "bigint unsigned"}
  BY IntegerTypes
<1>3. k = "uint64" => v \in 0..MaxUnsigned(64)
  BY KindFacts, IntegerValues, WidthFacts
<1> HIDE DEF v, d
<1>4. y = Wrap(z, t)
  BY <1>1, <1>2 DEF Convert, Scalar, IsDate, v, d
<1>5. t.type \in YDBTypes
  BY DEF YDBColumns
<1>6. z \in Values
  <2>1. /\ k # "int64" => v \in 0..MaxUnsigned(64)
        /\ k = "int64" => v \in MinSigned(64)..MaxSigned(64)
    BY <1>1, <1>3, Int64Values DEF v
  <2> QED
    BY <1>1, <1>5, <2>1, IntegerInRange DEF InRange
<1> HIDE DEF z
<1>7. y.val = z.val /\ z.type = t.type
  BY <1>4, <1>6, WrapFacts
<1> DEFINE type == t.type
<1> HIDE DEF type
<1>8. SentAs(v, k, d, type, z)
  <2>1. z = Integer(v, k, d, type) /\ z.type = type
    BY <1>7 DEF z, type
  <2> QED
    BY <1>1, <1>2, <2>1, IntegerSent, Zenon
<1> QED
  BY <1>1, <1>7, <1>8 DEF v, d, type, SentAs

\* What the YDB column holds for an integer; what is reduced to int32 is an
\* unsigned integer whose sign was lost.
LEMMA StoredInteger ==
    ASSUME ValueInv, IsInteger(column), NEW r \in Stored, NotNull(r)
    PROVE  /\ r.mysql \in MySQLValues(column) /\ ~r.mysql.null /\ r.mysql.val \in Int
           /\ target.type = "Uint64" => r.ydb.val = Clamp(r.mysql.val, 64)
           /\ target.type = "Uint32" => r.ydb.val = Clamp(r.mysql.val, 32)
           /\ target.type \notin {"Uint32", "Uint64"} =>
                \/ r.ydb.val = r.mysql.val
                \/ /\ target.type = "Int32" /\ SignLost(column)
                   /\ r.mysql.val > MaxSigned(32) /\ r.mysql.val <= MaxUnsigned(32)
                   /\ r.ydb.val = r.mysql.val - 2 * Half[32]
<1> DEFINE m == r.mysql
           y == r.ydb
<1>1. column \in Columns /\ target \in YDBColumns /\ m \in MySQLValues(column)
      /\ y.type = target.type
  BY StoredFacts, Zenon DEF ValueInv
<1>2. PICK k \in RawKinds(column, m) :
        y = Convert(k, m.val, normalizeMySQLType(column), column.nullable, target)
  BY StoredFacts, Zenon
<1>3. y.form # "null"
  BY Zenon DEF NotNull
<1> HIDE DEF m, y
<1>4. ~m.null
  BY <1>1, <1>2, <1>3, NullIsNull, Zenon
<1>5. /\ m.val \in Int
      /\ target.type = "Uint64" => y.val = Clamp(m.val, 64)
      /\ target.type = "Uint32" => y.val = Clamp(m.val, 32)
      /\ target.type \notin {"Uint32", "Uint64"} =>
           \/ y.val = m.val
           \/ /\ target.type = "Int32" /\ normalizeMySQLType(column) = "int"
              /\ y.val = Signed(m.val, 32)
              /\ m.val \notin MinSigned(32)..MaxSigned(32)
  BY <1>1, <1>2, <1>4, IntegerConversion
<1>6. ASSUME normalizeMySQLType(column) = "int", m.val \notin MinSigned(32)..MaxSigned(32)
      PROVE  /\ SignLost(column) /\ m.val > MaxSigned(32) /\ m.val <= MaxUnsigned(32)
             /\ Signed(m.val, 32) = m.val - 2 * Half[32]
  <2>1. column.base \in IntBases /\ column.base # "bigint"
    BY <1>1, <1>6, IntegerTypes
  <2>2. /\ column.unsigned => m.val \in 0..MaxUnsigned(32)
        /\ ~column.unsigned => m.val \in MinSigned(32)..MaxSigned(32)
    BY <1>1, <1>4, <2>1, IntegerValues, Zenon
  <2>3. column.unsigned
    BY <1>6, <2>2, Zenon
  <2>4. SignLost(column)
    <3>1. "int" \in {"int", "bigint"}
      OBVIOUS
    <3>2. normalizeMySQLType(column) \in {"int", "bigint"} /\ ~SignLost(column) => ~column.unsigned
      BY <1>1, IntegerTypes, Zenon
    <3> QED
      BY <1>6, <2>3, <3>1, <3>2, Zenon
  <2>5. m.val \in 0..MaxUnsigned(32)
    BY <2>2, <2>3, Zenon
  <2>6. Half[32] \in Nat /\ 32 \in WordSizes
    BY HalfFacts DEF WordSizes
  <2>7. /\ m.val \in MinSigned(32)..MaxUnsigned(32)
        /\ m.val > MaxSigned(32) /\ m.val <= MaxUnsigned(32)
    BY <1>6, <2>5, <2>6 DEF MinSigned, MaxSigned, MaxUnsigned
  <2>8. Signed(m.val, 32) = m.val - 2 * Half[32]
    BY <2>6, <2>7, ConversionValue
  <2> QED
    BY <2>4, <2>7, <2>8, Zenon
<1> QED
  BY <1>1, <1>4, <1>5, <1>6, Zenon DEF m, y

\* Saturation does not reorder.
LEMMA ClampMonotone ==
    ASSUME NEW v \in Int, NEW u \in Int, v <= u, NEW w \in WordSizes
    PROVE  Clamp(v, w) <= Clamp(u, w)
BY HalfFacts DEF Clamp, MaxUnsigned

\* Conversion never reorders two integers, whatever the YDB column is.
THEOREM IntegerOrderTheorem == Spec => []IntegersKeepOrder
<1>1. ValueInv => IntegersKeepOrder
  <2> SUFFICES ASSUME ValueInv, IsInteger(column), ~SignLost(column),
                      NEW r \in Stored, NEW s \in Stored, NotNull(r), NotNull(s),
                      r.mysql.val <= s.mysql.val
               PROVE  r.ydb.val <= s.ydb.val
    BY Zenon DEF IntegersKeepOrder
  <2>1. r.mysql.val \in Int /\ s.mysql.val \in Int
    BY StoredInteger, Zenon
  <2>2. 32 \in WordSizes /\ 64 \in WordSizes
    BY DEF WordSizes
  <2>3. CASE target.type = "Uint64"
    <3>1. r.ydb.val = Clamp(r.mysql.val, 64) /\ s.ydb.val = Clamp(s.mysql.val, 64)
      BY <2>3, StoredInteger, Zenon
    <3> QED
      BY <2>1, <2>2, <3>1, ClampMonotone
  <2>4. CASE target.type = "Uint32"
    <3>1. r.ydb.val = Clamp(r.mysql.val, 32) /\ s.ydb.val = Clamp(s.mysql.val, 32)
      BY <2>4, StoredInteger, Zenon
    <3> QED
      BY <2>1, <2>2, <3>1, ClampMonotone
  <2>5. CASE target.type \notin {"Uint32", "Uint64"}
    <3>1. r.ydb.val = r.mysql.val /\ s.ydb.val = s.mysql.val
      BY <2>5, StoredInteger, Zenon
    <3> QED
      BY <3>1, Zenon
  <2> QED
    BY <2>3, <2>4, <2>5
<1> QED
  BY <1>1, ValueInit, ValueStep, PTL DEF Spec

\* In the column the importer makes for integers, an integer is kept, or is
\* an unsigned one beyond int32 in a column taken for a signed one.
LEMMA OwnInteger ==
    ASSUME ValueInv, own, IsInteger(column), NEW r \in Stored, NotNull(r)
    PROVE  \/ r.ydb.val = r.mysql.val
           \/ /\ column.unsigned
              /\ r.mysql.val > MaxSigned(32) /\ r.mysql.val <= MaxUnsigned(32)
              /\ r.ydb.val = r.mysql.val - 2 * Half[32]
<1> DEFINE d == normalizeMySQLType(column)
           v == r.mysql.val
<1>1. column \in Columns /\ target = OwnColumn(column)
  BY Zenon DEF ValueInv
<1>2. target.type = "Int64" \/ target.type = mysqlTypeToYQLBase(d)
  BY <1>1 DEF OwnColumn
<1>3. v \in Int /\ r.mysql \in MySQLValues(column) /\ ~r.mysql.null
  BY StoredInteger, Zenon
<1>4. 32 \in WordSizes /\ 64 \in WordSizes
  BY DEF WordSizes
<1>5. column.base \in IntBases
  BY <1>1, IntegerTypes
<1>6. ASSUME target.type = "Uint32" PROVE r.ydb.val = v
  <2>1. d = "int unsigned"
    BY <1>1, <1>2, <1>6, IntegerTypes DEF mysqlTypeToYQLBase
  <2>2. column.base # "bigint" /\ column.unsigned
    BY <1>1, <2>1, IntegerTypes
  <2>3. v \in 0..MaxUnsigned(32)
    BY <1>1, <1>3, <1>5, <2>2, IntegerValues, Zenon
  <2>4. r.ydb.val = Clamp(v, 32)
    BY <1>6, StoredInteger, Zenon
  <2> QED
    BY <1>3, <1>4, <2>3, <2>4, ClampFacts
<1>7. ASSUME target.type = "Uint64" PROVE r.ydb.val = v
  <2>1. d = "bigint unsigned"
    BY <1>1, <1>2, <1>7, IntegerTypes DEF mysqlTypeToYQLBase
  <2>2. column.base = "bigint" /\ column.unsigned
    BY <1>1, <2>1, IntegerTypes
  <2>3. v \in 0..MaxUnsigned(64)
    BY <1>1, <1>3, <1>5, <2>2, IntegerValues, Zenon
  <2>4. r.ydb.val = Clamp(v, 64)
    BY <1>7, StoredInteger, Zenon
  <2> QED
    BY <1>3, <1>4, <2>3, <2>4, ClampFacts
<1>8. CASE target.type \notin {"Uint32", "Uint64"}
  BY <1>8, StoredInteger, Zenon DEF SignLost
<1> QED
  BY <1>6, <1>7, <1>8

\* Two different integers stay different in a table the importer made.
THEOREM DistinctTheorem == Spec => []IntegersStayDistinct
<1>1. ValueInv => IntegersStayDistinct
  <2> SUFFICES ASSUME ValueInv, own, IsInteger(column),
                      NEW r \in Stored, NEW s \in Stored, NotNull(r), NotNull(s),
                      r.ydb.val = s.ydb.val
               PROVE  r.mysql.val = s.mysql.val
    BY Zenon DEF IntegersStayDistinct
  <2>1. Half[32] \in Nat
    BY HalfFacts DEF WordSizes
  <2>2. ASSUME NEW x \in Stored, NotNull(x)
        PROVE  /\ x.mysql.val \in Int
               /\ column.unsigned => x.mysql.val >= 0
               /\ \/ x.ydb.val = x.mysql.val
                  \/ /\ column.unsigned /\ x.mysql.val <= 2 * Half[32] - 1
                     /\ x.ydb.val = x.mysql.val - 2 * Half[32]
    <3>1. column \in Columns /\ column.base \in IntBases
      BY IntegerTypes DEF ValueInv
    <3>2. x.mysql \in MySQLValues(column) /\ ~x.mysql.null /\ x.mysql.val \in Int
      BY <2>2, StoredInteger, Zenon
    <3>3. column.unsigned =>
             x.mysql.val \in 0..MaxUnsigned(64) \/ x.mysql.val \in 0..MaxUnsigned(32)
      BY <3>1, <3>2, IntegerValues, Zenon
    <3>4. column.unsigned => x.mysql.val >= 0
      BY <3>2, <3>3, HalfFacts DEF MaxUnsigned, WordSizes
    <3> QED
      BY <2>2, <3>2, <3>4, OwnInteger, Zenon DEF MaxUnsigned
  <2> DEFINE a == r.mysql.val
             b == s.mysql.val
             y == r.ydb.val
  <2>3. /\ a \in Int /\ (column.unsigned => a >= 0)
        /\ y = a \/ (column.unsigned /\ a <= 2 * Half[32] - 1 /\ y = a - 2 * Half[32])
    BY <2>2
  <2>4. /\ b \in Int /\ (column.unsigned => b >= 0)
        /\ y = b \/ (column.unsigned /\ b <= 2 * Half[32] - 1 /\ y = b - 2 * Half[32])
    BY <2>2
  <2> HIDE DEF a, b, y
  <2>5. a = b
    BY <2>1, <2>3, <2>4
  <2> QED
    BY <2>5 DEF a, b
<1> QED
  BY <1>1, ValueInit, ValueStep, PTL DEF Spec

-----------------------------------------------------------------------------
(* Refusals.                                                               *)

\* The kinds of columns.
LEMMA ColumnKinds ==
    ASSUME NEW c \in Columns
    PROVE  LET d == normalizeMySQLType(c)
           IN  \/ IsInteger(c)
               \/ c.base \in IntBases /\ d = "bool"
               \/ c.base = "float" /\ d = "float"
               \/ c.base \in {"double", "real"} /\ d = "double"
               \/ c.base = "year" /\ d = "year"
               \/ c.base \in DateBases /\ d = c.base
               \/ /\ c.base \notin IntBases \cup FloatBases \cup DateBases \cup {"year"}
                  /\ d \in {"bytes", "decimal", "bit", "text"}
<1>1. CASE c.base \in IntBases
  BY <1>1, Zenon DEF IsInteger
<1>2. CASE c.base \in DateBases
  BY <1>2, DateColumn
<1>3. CASE c.base \notin IntBases \cup DateBases
  <2> DEFINE d == normalizeMySQLType(c)
  <2>1. /\ c.base = "float" => d = "float"
        /\ c.base \in {"double", "real"} => d = "double"
        /\ c.base = "year" => d = "year"
        /\ c.base \notin {"float", "double", "real", "year"} =>
             d \in {"bytes", "decimal", "bit", "text"}
    BY <1>3, WidthFacts DEF normalizeMySQLType, DateBases
  <2> QED
    BY <1>3, <2>1 DEF FloatBases
<1> QED
  BY <1>1, <1>2, <1>3

\* A bare value of the type of the column, wrapped, is taken.
LEMMA WrappedAccepted ==
    ASSUME NEW t \in YDBColumns, NEW z \in Values, z.type = t.type, z.form = "bare"
    PROVE  Accepts(t, Wrap(z, t))
<1>1. /\ Wrap(z, t).type = t.type
      /\ Wrap(z, t).form = IF t.optional THEN "optional" ELSE "bare"
  BY WrapFacts
<1>2. t.optional \in BOOLEAN
  BY DEF YDBColumns
<1>3. CASE t.optional
  <2>1. Wrap(z, t).form # "bare" /\ t.optional = TRUE
    BY <1>1, <1>2, <1>3
  <2> QED
    BY <1>1, <2>1, Zenon DEF Accepts
<1>4. CASE ~t.optional
  <2>1. ~(Wrap(z, t).form # "bare") /\ t.optional = FALSE
    BY <1>1, <1>2, <1>4
  <2> QED
    BY <1>1, <2>1, Zenon DEF Accepts
<1> QED
  BY <1>3, <1>4

\* So is a NULL of that type, where the column is Optional.
LEMMA NullAccepted ==
    ASSUME NEW t \in YDBColumns, t.optional
    PROVE  Accepts(t, Null(t.type))
<1>1. t.type \in YDBTypes /\ t.optional \in BOOLEAN
  BY DEF YDBColumns
<1>2. Null(t.type).type = t.type /\ Null(t.type).form # "bare"
  BY <1>1, NullFacts
<1>3. t.optional = TRUE
  BY <1>1, Zenon
<1> QED
  BY <1>2, <1>3, Zenon DEF Accepts

\* The column the importer makes.
LEMMA OwnFacts ==
    ASSUME NEW c \in Columns
    PROVE  /\ OwnColumn(c) \in YDBColumns
           /\ c.autoIncrement => /\ OwnColumn(c).type = "Int64" /\ ~OwnColumn(c).optional
                                 /\ c.base \in IntBases \cup FloatBases /\ ~c.nullable
           /\ ~c.autoIncrement => /\ OwnColumn(c).type = mysqlTypeToYQLBase(normalizeMySQLType(c))
                                  /\ OwnColumn(c).optional
<1>1. OwnColumn(c) \in YDBColumns
  BY TargetFacts
<1>2. ASSUME c.autoIncrement
      PROVE  /\ OwnColumn(c).type = "Int64" /\ ~OwnColumn(c).optional
             /\ c.base \in IntBases \cup FloatBases /\ ~c.nullable
  <2>1. OwnColumn(c) = [type |-> "Int64", optional |-> FALSE]
    BY <1>2, Zenon DEF OwnColumn
  <2>2. OwnColumn(c).type = "Int64" /\ ~OwnColumn(c).optional
    BY <2>1
  <2> QED
    BY <1>2, <2>2, ColumnsAssumption, Zenon
<1>3. ASSUME ~c.autoIncrement
      PROVE  /\ OwnColumn(c).type = mysqlTypeToYQLBase(normalizeMySQLType(c))
             /\ OwnColumn(c).optional
  <2>1. OwnColumn(c) = [type |-> mysqlTypeToYQLBase(normalizeMySQLType(c)), optional |-> TRUE]
    BY <1>3, Zenon DEF OwnColumn
  <2> QED
    BY <2>1
<1> QED
  BY <1>1, <1>2, <1>3, Zenon

\* A NULL goes into the column made for it.
LEMMA NullTaken ==
    ASSUME NEW c \in Columns, NEW m \in MySQLValues(c), NEW k \in RawKinds(c, m), m.null,
           NEW y, y = Convert(k, m.val, normalizeMySQLType(c), c.nullable, OwnColumn(c))
    PROVE  Accepts(OwnColumn(c), y)
<1> DEFINE t == OwnColumn(c)
           d == normalizeMySQLType(c)
<1>1. k = "nil" /\ c.nullable
  BY KindFacts, ValueFacts, Zenon
<1>2. t \in YDBColumns /\ t.type = mysqlTypeToYQLBase(d) /\ t.optional
  BY <1>1, OwnFacts, Zenon
<1>3. y = NullFor(d, c.nullable, t)
  BY <1>1, Zenon DEF Convert
<1> HIDE DEF t, d
<1>4. y = Null(t.type)
  BY <1>1, <1>2, <1>3 DEF NullFor, mysqlTypeToYQLBase
<1> QED
  BY <1>2, <1>4, NullAccepted, Zenon DEF t

\* So does an integer, unless it is beyond int64 and the column is signed.
LEMMA IntegerTaken ==
    ASSUME NEW c \in Columns, IsInteger(c), NEW m \in MySQLValues(c), ~m.null,
           NEW k \in RawKinds(c, m),
           NEW y, y = Convert(k, m.val, normalizeMySQLType(c), c.nullable, OwnColumn(c)),
           OwnColumn(c).type = "Int64" => m.val <= MaxSigned(64)
    PROVE  Accepts(OwnColumn(c), y)
<1> DEFINE t == OwnColumn(c)
           d == normalizeMySQLType(c)
           v == m.val
           z == Integer(v, k, d, t.type)
<1>1. v \in Int /\ k \in {"int64", "uint64"} /\ t \in YDBColumns
  BY ValueFacts, KindFacts, IntegerTypes, OwnFacts
<1>2. d \in {"int", "bigint", "int unsigned", "bigint unsigned"}
  BY IntegerTypes
<1>3. k = "uint64" => v \in 0..MaxUnsigned(64) /\ d # "int"
  BY KindFacts, IntegerValues, IntegerTypes, WidthFacts
<1>4. t.type = "Int64" \/ t.type = mysqlTypeToYQLBase(d)
  BY OwnFacts, Zenon
<1>5. t.type = "Int64" => v <= MaxSigned(64)
  OBVIOUS
<1> HIDE DEF t, d, v
<1>6. y = Wrap(z, t)
  BY <1>1, <1>2 DEF Convert, Scalar, IsDate, v, d, t
<1>7. t.type \in YDBTypes
  BY <1>1 DEF YDBColumns
<1>8. z \in Values
  <2>1. /\ k # "int64" => v \in 0..MaxUnsigned(64)
        /\ k = "int64" => v \in MinSigned(64)..MaxSigned(64)
    BY <1>1, <1>3, Int64Values DEF v
  <2> QED
    BY <1>1, <1>7, <2>1, IntegerInRange DEF InRange
<1>9. \E ty \in YDBTypes, u \in Int : ty = t.type /\ z = Value(ty, u)
  <2>1. /\ Signed(v, 32) \in Int /\ Clamp(v, 32) \in Int /\ Clamp(v, 64) \in Int
    <3>1. 32 \in WordSizes /\ 64 \in WordSizes
      BY DEF WordSizes
    <3> QED
      BY <1>1, <3>1, ConversionRange, ClampFacts, HalfFacts DEF MaxUnsigned, MinSigned, MaxSigned
  <2>2. CASE t.type = "Int64"
    <3>1. z = Value("Int64", v)
      BY <1>5, <2>2 DEF Integer, SignedFits
    <3> QED
      BY <1>1, <1>7, <2>2, <3>1
  <2>3. CASE t.type = mysqlTypeToYQLBase(d) /\ d = "int"
    <3>1. t.type = "Int32" /\ k = "int64"
      BY <1>1, <1>3, <2>3 DEF mysqlTypeToYQLBase
    <3>2. z = Value("Int32", v) \/ z = Value("Int32", Signed(v, 32))
      BY <2>3, <3>1 DEF Integer, SignedFits, int64ToYDB
    <3> QED
      BY <1>1, <1>7, <2>1, <3>1, <3>2
  <2>4. CASE t.type = mysqlTypeToYQLBase(d) /\ d = "bigint"
    BY <2>2, <2>4 DEF mysqlTypeToYQLBase
  <2>5. CASE t.type = mysqlTypeToYQLBase(d) /\ d = "int unsigned"
    <3>1. t.type = "Uint32"
      BY <2>5 DEF mysqlTypeToYQLBase
    <3>2. z = Value("Uint32", Clamp(v, 32))
      BY <3>1 DEF Integer, SignedFits
    <3> QED
      BY <1>7, <2>1, <3>1, <3>2
  <2>6. CASE t.type = mysqlTypeToYQLBase(d) /\ d = "bigint unsigned"
    <3>1. t.type = "Uint64"
      BY <2>6 DEF mysqlTypeToYQLBase
    <3>2. z = Value("Uint64", Clamp(v, 64))
      BY <3>1 DEF Integer, SignedFits
    <3> QED
      BY <1>7, <2>1, <3>1, <3>2
  <2> QED
    BY <1>2, <1>4, <2>2, <2>3, <2>4, <2>5, <2>6
<1> HIDE DEF z
<1>10. z.type = t.type /\ z.form = "bare"
  BY <1>9, BareFacts
<1>11. Accepts(t, Wrap(z, t))
  BY <1>1, <1>8, <1>10, WrappedAccepted
<1> QED
  BY <1>6, <1>11, Zenon DEF t

\* A date does, unless no layout accepts it.
LEMMA DateTaken ==
    ASSUME NEW c \in Columns, c.base \in DateBases, NEW m \in MySQLValues(c), ~m.null,
           NEW k \in RawKinds(c, m), m.val # PartialDate,
           NEW y, y = Convert(k, m.val, normalizeMySQLType(c), c.nullable, OwnColumn(c))
    PROVE  Accepts(OwnColumn(c), y)
<1> DEFINE t == OwnColumn(c)
           v == m.val
           u == IF isInvalidDate(v) THEN 0 ELSE v
<1>1. /\ normalizeMySQLType(c) = c.base /\ IsDate(c.base) /\ t.type \in {"Date", "Timestamp"}
      /\ t.optional /\ t \in YDBColumns /\ isYDBDateType(t.type)
  BY DateColumn, TargetFacts DEF isYDBDateType
<1>2. v \in Int /\ k # "nil" /\ c.base # "bool"
  BY ValueFacts, KindFacts DEF DateBases
<1> HIDE DEF t, v
<1>3. y = DateTime(v, c.nullable, t)
  BY <1>1, <1>2 DEF Convert, v, t
<1>4. u \in Int
  BY <1>2
<1> HIDE DEF u
<1>5. CASE isInvalidDate(v)
  <2>1. y = Null(t.type)
    BY <1>1, <1>3, <1>5 DEF DateTime
  <2> QED
    BY <1>1, <2>1, NullAccepted, Zenon DEF t
<1>6. CASE ~isInvalidDate(v)
  <2> DEFINE z == Value(t.type, u)
  <2>1. y = Wrap(z, t)
    BY <1>1, <1>3, <1>6 DEF DateTime, u
  <2>2. z \in Values /\ z.type = t.type /\ z.form = "bare"
    <3>1. t.type \in YDBTypes
      BY <1>1 DEF YDBTypes
    <3> QED
      BY <1>4, <3>1, BareFacts, Zenon
  <2> HIDE DEF z
  <2>3. Accepts(t, Wrap(z, t))
    BY <1>1, <2>2, WrappedAccepted
  <2> QED
    BY <2>1, <2>3, Zenon DEF t
<1> QED
  BY <1>5, <1>6

\* So does every other value, but those of DECIMAL, BIT and AUTO_INCREMENT.
LEMMA OtherTaken ==
    ASSUME NEW c \in Columns, ~IsInteger(c), c.base \notin DateBases, ~c.autoIncrement,
           normalizeMySQLType(c) \notin {"decimal", "bit"},
           NEW m \in MySQLValues(c), ~m.null, NEW k \in RawKinds(c, m),
           NEW y, y = Convert(k, m.val, normalizeMySQLType(c), c.nullable, OwnColumn(c))
    PROVE  Accepts(OwnColumn(c), y)
<1> DEFINE t == OwnColumn(c)
           d == normalizeMySQLType(c)
           v == m.val
<1>1. t \in YDBColumns /\ t.type = mysqlTypeToYQLBase(d)
  BY OwnFacts
<1>2. v \in Int /\ k # "nil" /\ v \in Domain(c)
  BY ValueFacts, KindFacts
<1>3. y = Convert(k, v, d, c.nullable, t)
  OBVIOUS
<1> HIDE DEF t, v
<1>4. ASSUME NEW u \in Int, y = Wrap(Value(t.type, u), t) PROVE Accepts(t, y)
  <2> DEFINE z == Value(t.type, u)
  <2>1. t.type \in YDBTypes
    BY <1>1 DEF YDBColumns
  <2>2. z \in Values /\ z.type = t.type /\ z.form = "bare"
    BY <1>4, <2>1, BareFacts, Zenon
  <2>3. y = Wrap(z, t)
    BY <1>4
  <2> HIDE DEF z
  <2>4. Accepts(t, Wrap(z, t))
    BY <1>1, <2>2, WrappedAccepted
  <2> QED
    BY <2>3, <2>4, Zenon
<1>5. \/ c.base \in IntBases /\ d = "bool"
      \/ c.base = "float" /\ d = "float"
      \/ c.base \in {"double", "real"} /\ d = "double"
      \/ c.base = "year" /\ d = "year"
      \/ /\ c.base \notin IntBases \cup FloatBases \cup DateBases \cup {"year"}
         /\ d \in {"bytes", "text"}
  BY ColumnKinds
<1> HIDE DEF d
<1>6. \E u \in Int : y = Wrap(Value(t.type, u), t)
  <2>1. CASE d = "bool"
    <3> DEFINE u == IF v # 0 THEN 1 ELSE 0
    <3>1. u \in Int
      OBVIOUS
    <3>2. y = Wrap(Value("Bool", u), t) /\ t.type = "Bool"
      BY <1>1, <1>2, <1>3, <2>1 DEF Convert, mysqlTypeToYQLBase
    <3> QED
      BY <3>1, <3>2
  <2>2. CASE c.base = "float" /\ d = "float"
    <3>1. k = "float32"
      BY <2>2, KindFacts
    <3>2. y = Wrap(Value("Float", v), t) /\ t.type = "Float"
      BY <1>1, <1>2, <1>3, <2>2, <3>1 DEF Convert, Scalar, IsDate, mysqlTypeToYQLBase
    <3> QED
      BY <1>2, <3>2
  <2>3. CASE c.base \in {"double", "real"} /\ d = "double"
    <3>1. k = "float64"
      BY <2>3, KindFacts
    <3>2. y = Wrap(Value("Double", v), t) /\ t.type = "Double"
      BY <1>1, <1>2, <1>3, <2>3, <3>1 DEF Convert, Scalar, IsDate, mysqlTypeToYQLBase
    <3> QED
      BY <1>2, <3>2
  <2>4. CASE c.base = "year" /\ d = "year"
    <3>1. k \in {"int64", "uint64"}
      BY <2>4, KindFacts
    <3>2. v \in 0..MaxUnsigned(16)
      BY <1>2, <2>4, WidthFacts DEF Domain, DateBases, BinaryBases
    <3>3. t.type = "Uint16"
      BY <1>1, <2>4 DEF mysqlTypeToYQLBase
    <3>4. y = Wrap(Integer(v, k, d, t.type), t)
      BY <1>2, <1>3, <2>4, <3>1 DEF Convert, Scalar, IsDate
    <3>5. Integer(v, k, d, t.type) = Value(t.type, v)
      BY <3>2, <3>3 DEF Integer, SignedFits
    <3> QED
      BY <1>2, <3>4, <3>5
  <2>5. CASE /\ c.base \notin IntBases \cup FloatBases \cup DateBases \cup {"year"}
             /\ d \in {"bytes", "text"}
    <3>1. k = "[]byte"
      BY <2>5 DEF RawKinds, FloatBases
    <3>2. y = Wrap(TextOrBytes(v, t.type = "Text"), t)
      BY <1>2, <1>3, <2>5, <3>1 DEF Convert, Scalar, IsDate
    <3>3. t.type = (IF d = "text" THEN "Text" ELSE "String")
      BY <1>1, <2>5 DEF mysqlTypeToYQLBase
    <3>4. \E u \in Int : TextOrBytes(v, t.type = "Text") = Value(t.type, u)
      BY <1>2, <3>3 DEF TextOrBytes, Replaced
    <3> QED
      BY <3>2, <3>4
  <2> QED
    BY <1>5, <2>1, <2>2, <2>3, <2>4, <2>5
<1> QED
  BY <1>4, <1>6 DEF t

\* A table the importer made refuses only what is listed.
THEOREM RefusalsTheorem == Spec => []OnlyKnownRefusals
<1>1. ValueInv => OnlyKnownRefusals
  <2> DEFINE d == normalizeMySQLType(column)
  <2> SUFFICES ASSUME ValueInv, own, NEW i \in 1..Len(rows),
                      d \notin {"decimal", "bit"},
                      rows[i].mysql.val # PartialDate,
                      ~(rows[i].mysql.val > MaxSigned(64) /\ target.type = "Int64"),
                      ~(d \in {"bool", "float", "double"} /\ column.autoIncrement)
               PROVE  rows[i].stored
    BY Zenon DEF OnlyKnownRefusals
  <2> DEFINE m == rows[i].mysql
             y == rows[i].ydb
  <2>1. column \in Columns /\ target = OwnColumn(column)
    BY Zenon DEF ValueInv
  <2>2. m \in MySQLValues(column) /\ rows[i].stored = Accepts(OwnColumn(column), y)
    BY <2>1, RowFacts, Zenon
  <2>3. PICK k \in RawKinds(column, m) :
          y = Convert(k, m.val, d, column.nullable, OwnColumn(column))
    BY <2>1, RowFacts, Zenon
  <2>4. m.val # PartialDate /\ m.val \in Int
    BY <2>1, <2>2, ValueFacts
  <2>5. OwnColumn(column).type = "Int64" => m.val <= MaxSigned(64)
    BY <2>1, <2>4, HalfFacts DEF MaxSigned, WordSizes
  <2>6. ~(d \in {"bool", "float", "double"} /\ column.autoIncrement)
    OBVIOUS
  <2>7. d \notin {"decimal", "bit"}
    OBVIOUS
  <2> HIDE DEF m, y
  <2>8. CASE m.null
    BY <2>1, <2>2, <2>3, <2>8, NullTaken, Zenon
  <2>9. CASE ~m.null /\ IsInteger(column)
    BY <2>1, <2>2, <2>3, <2>5, <2>9, IntegerTaken, Zenon
  <2>10. CASE ~m.null /\ column.base \in DateBases
    BY <2>1, <2>2, <2>3, <2>4, <2>10, DateTaken, Zenon
  <2>11. CASE ~m.null /\ ~IsInteger(column) /\ column.base \notin DateBases
    <3>1. ~column.autoIncrement
      <4>1. \/ column.base \in IntBases /\ d = "bool"
            \/ column.base = "float" /\ d = "float"
            \/ column.base \in {"double", "real"} /\ d = "double"
            \/ column.base \notin IntBases \cup FloatBases
        BY <2>1, <2>11, ColumnKinds, WidthFacts DEF FloatBases
      <4>2. column.autoIncrement => column.base \in IntBases \cup FloatBases
        BY <2>1, OwnFacts, Zenon
      <4>3. \/ column.base \notin IntBases \cup FloatBases
            \/ d \in {"bool", "float", "double"}
        BY <4>1
      <4> QED
        BY <2>6, <4>2, <4>3, Zenon
    <3> QED
      BY <2>1, <2>2, <2>3, <2>7, <2>11, <3>1, OtherTaken, Zenon
  <2> QED
    BY <2>8, <2>9, <2>10, <2>11, Zenon
<1> QED
  BY <1>1, ValueInit, ValueStep, PTL DEF Spec
=============================================================================
