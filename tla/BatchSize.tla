----------------------------- MODULE BatchSize -----------------------------
(***************************************************************************)
(* batchSizeForTable: how many rows a chunk of a table may have, given the *)
(* flags, the free memory found when the importer started and what         *)
(* information_schema estimates of the table's size.                       *)
(***************************************************************************)
EXTENDS Integers

CONSTANTS
    ConfigBatch,    \* -batch-size
    MaxChunkRows,   \* -max-chunk-rows
    NetworkBytes,   \* maxChunkBytes: 125 MB, fetched in 10 s at 100 Mbit/s
    MinBatch,       \* minBatch: 1000 rows
    DefaultRowBytes \* 256 bytes, when the average row size is not known

\* config.Parse replaces values below 1 by its defaults.
ASSUME FlagsAssumption == ConfigBatch \in Nat \ {0} /\ MaxChunkRows \in Nat \ {0}
ASSUME SizesAssumption ==
    /\ NetworkBytes \in Nat /\ MinBatch \in Nat \ {0} /\ DefaultRowBytes \in Nat \ {0}

\* What a transfer knows when it chooses its chunk size: the free memory, 0
\* when memory.FreeRAM failed, and DATA_LENGTH and TABLE_ROWS, 0 when
\* schema.TableSize failed or they are NULL.
Sizing == [freeRAM : Nat, dataLen : Nat, rowCount : Nat]

\* ramFraction and overheadFactor: a chunk may take a quarter of the free
\* memory, at three times its size in MySQL.
RAMShare == 4
Overhead == 3

AtMost(limit, rows) == IF limit < rows THEN limit ELSE rows

SizeKnown(z) == z.dataLen > 0 /\ z.rowCount > 0
AvgRowBytes(z) ==
    IF SizeKnown(z) /\ z.dataLen >= z.rowCount THEN z.dataLen \div z.rowCount
    ELSE DefaultRowBytes

\* maxChunkBytes / avgRowBytes caps the batch unless it is 0: rows that are
\* larger than the whole budget escape it.
NetworkCap(z, batch) ==
    LET networkBatch == NetworkBytes \div AvgRowBytes(z) IN
    IF SizeKnown(z) /\ networkBatch > 0 THEN AtMost(networkBatch, batch) ELSE batch

\* Mutant of MemSafeBatch: the overhead factor is forgotten.
MemSafeBatchBare(z) ==
    LET rows == (z.freeRAM \div RAMShare) \div AvgRowBytes(z) IN
    IF rows < MinBatch THEN MinBatch ELSE rows

\* memSafeBatch, never below the floor of minBatch rows.
MemSafeBatch(z) ==
    LET rows == (z.freeRAM \div RAMShare) \div (AvgRowBytes(z) * Overhead) IN
    IF rows < MinBatch THEN MinBatch ELSE rows

MemoryCap(z, batch) == IF z.freeRAM = 0 THEN batch ELSE AtMost(MemSafeBatch(z), batch)

batchSizeForTable(z) == MemoryCap(z, NetworkCap(z, AtMost(MaxChunkRows, ConfigBatch)))
=============================================================================
