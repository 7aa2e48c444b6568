---------------------------- MODULE CursorCodec ----------------------------
(***************************************************************************)
(* How a page cursor survives a restart.  SaveProgress writes the cursor   *)
(* as JSON after cursorToJSON turned every integer into a float64, and     *)
(* GetProgress reads it back with jsonToCursor, which turns every JSON     *)
(* number into an int64.                                                   *)
(*                                                                         *)
(* Rows are named by their rank 1..Rows in primary-key order (or in the    *)
(* order the server returns them when the table has no primary key); a     *)
(* cursor is the rank of a row, 0 being the empty cursor [].  The key      *)
(* values matter only here, where they are encoded.  Text keys are encoded *)
(* as they are; a key of bytes becomes a JSON string, in which a byte that *)
(* is not UTF-8 cannot be written.                                         *)
(***************************************************************************)
EXTENDS Integers, FiniteSets

CONSTANTS
    Rows,       \* number of rows of the MySQL table
    NumPK,      \* number of primary-key columns (0: LIMIT/OFFSET pagination)
    KeyKind,    \* type of the leading key column: "integer" or "bytes"
    Key,        \* Key[r]: its value in row r, for "bytes" one byte
    FloatExact  \* integers up to this one are float64 exactly (2^53 in Go)

ASSUME RowsAssumption == Rows \in Nat
ASSUME NumPKAssumption == NumPK \in Nat
ASSUME KeyKindAssumption == KeyKind \in {"integer", "bytes"}
ASSUME KeyAssumption ==
    /\ Key \in [1..Rows -> IF KeyKind = "bytes" THEN 0..255 ELSE Int]
    /\ \A r, s \in 1..Rows : r < s => Key[r] < Key[s]
\* A table never has 2^53 rows, so a row offset is always encoded exactly.
ASSUME FloatAssumption == FloatExact \in Nat \ {0} /\ Rows <= FloatExact

-----------------------------------------------------------------------------
\* The distance between neighbouring float64 values around v > FloatExact.
\* 11 doublings reach the largest uint64, as 53 + 11 = 64.
Ulp(v) == CHOOSE u \in {2^e : e \in 1..11} :
             FloatExact * (u \div 2) < v /\ v <= FloatExact * u

\* v rounded to a multiple of u, ties to the even multiple (IEEE 754).
RoundHalfEven(v, u) ==
    LET q == v \div u
        r == 2 * (v % u)
    IN  u * (IF r < u \/ (r = u /\ q % 2 = 0) THEN q ELSE q + 1)

Rounded(v) == IF v <= FloatExact THEN v ELSE RoundHalfEven(v, Ulp(v))

\* cursorToJSON: float64(x), of either sign.  The JSON text of a float64
\* parses back to it.
ToFloat(v) == IF v < 0 THEN -Rounded(-v) ELSE Rounded(v)

\* jsonToCursor: int64(x).  Out of the range of int64 the Go conversion is
\* implementation-defined: amd64 gives the least int64, arm64 the greatest.
MaxInt64 == FloatExact * 1024 - 1
MinInt64 == -MaxInt64 - 1
ToInt64(x) == IF x \in MinInt64..MaxInt64 THEN {x} ELSE {MinInt64, MaxInt64}

\* json.Marshal replaces a byte that is not UTF-8 by U+FFFD, whose three
\* bytes EF BF BD sort after the one-byte key EF and before F0.
Utf8Byte(v) == v < 128
Replacement == 239
ToText(v) == IF Utf8Byte(v) THEN v ELSE Replacement

\* The rank of the last row that "WHERE key > v" excludes.
PositionOf(v) == Cardinality({r \in 1..Rows : Key[r] <= v})

\* The values the key v may have after json.Unmarshal and jsonToCursor.
Decoded(v) == IF KeyKind = "integer" THEN ToInt64(ToFloat(v)) ELSE {ToText(v)}

\* The positions at which a pass may resume from the saved cursor c.
Restored(c) == IF c = 0 \/ NumPK = 0
               THEN {c}
               ELSE {PositionOf(v) : v \in Decoded(Key[c])}

\* Rows a run may jump over because the key of an earlier row came back
\* from the state table larger than it was.
Jumpable ==
    {r \in 1..Rows : \E s \in 1..(r - 1) : \E p \in Restored(s) : r <= p}

\* Every key of the table comes back from the state table as it went there.
KeysExact == NumPK = 0 \/ \A r \in 1..Rows : Decoded(Key[r]) = {Key[r]}
=============================================================================
