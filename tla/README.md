# mysql2ydb in TLA+

A model of [mysql2ydb](../src/README.md), the importer that copies MySQL
tables to YDB: TLA+ modules translated from its Go source, TLC runs that check
them on small instances, and theorems that TLAPS checks for every value of the
constants. Line numbers are those of the repository at the modelled commit;
`PROJECT.json` maps every definition to the lines it stands for.

    tlc -config MCTransfer_keyed.cfg MCTransfer      # one run
    tlapm TransferProofs.tla                         # the proofs about Transfer

## 1. Inventory

| Component | Source | State | Operations |
|---|---|---|---|
| `transferTable` | `cmd/mysql2ydb/main.go:194-266` | page cursor, channel of 2 chunks, row count, error group | reader and writer goroutine, join, mark as completed |
| `ChunkReader` | `internal/mysql/reader.go` | none (the cursor is passed in) | `ReadChunk`, by primary key or by LIMIT/OFFSET |
| Migration state table | `internal/ydb/migration_status.go` | table `_mysql2ydb_state`: cursor, rows so far, completed at | `GetProgress`, `SaveProgress`, `MarkTableCompleted`, `GetCompletedTables`, `StateTableExists`, `CreateStateTable`, the JSON cursor |
| `main` | `cmd/mysql2ydb/main.go`, `internal/config/config.go` | flags, list of tables, `stateTableExists` | drops, DDL, list of pending tables, sequential or parallel transfers |
| `BulkUpsertWriter` | `internal/ydb/writer.go:32-365` | caches `checkedTables`, `txOnlyTables`, column types | `WriteChunk`: lookup, BulkUpsert, fallback to a transaction |
| `partitionRowsBySize` | `internal/ydb/writer.go:236-282` | call stack | split a chunk into statements |
| Types and values | `internal/schema/columns.go:153`, `internal/ydb/schema.go:108`, `internal/ydb/writer.go:367-1001` | none | type of a column, conversion of a value |
| Schema reader | `internal/schema/columns.go:34-131` | result sets, each on a connection of the pool | `LoadTableMeta`: columns, indexes, AUTO_INCREMENT; `TableSize` |
| CREATE TABLE text | `internal/ydb/schema.go` | none | DDL and `ALTER SEQUENCE` |
| `batchSizeForTable` | `cmd/mysql2ydb/main.go:310-356` | none | chunk size from RAM, row size and network |
| Configuration | `internal/config` | none | flags, `~/.my.cnf` |
| Free memory | `internal/memory` | none | `/proc/meminfo`, `sysctl` |
| Progress display | `internal/progress` | rows per table, stopped | redraw loop, `Stop` |
| Connection, issue log | `internal/ydb/connect.go`, `issues.go` | none | credentials, error texts |

How they interact. `main` decides which tables are pending and calls
`transferTable` for each. There a reader goroutine calls `ReadChunk` and sends
each chunk, with the cursor of the next one, over a channel; a writer
goroutine calls `WriteChunk` (which may call `partitionRowsBySize` and always
converts values) and then `SaveProgress`. Reader and writer share nothing but
the channel and the context of their error group. Across runs everything goes
through YDB: the tables, the state rows, and the mere existence of the state
table, which `main` takes as a sign that the schema is complete. Two importers
started at the same time share all this without a lock. Both `main` (for the DDL)
and `transferTable` call `LoadTableMeta` on one pool of MySQL connections; writers
report to the display, which a goroutine of its own redraws.

What is hard: the reader runs ahead of the checkpoints; either goroutine may
fail while the other is blocked; the process may die between any two calls
and be started again, with other flags and another chunk size; a call may
fail after it took effect; BulkUpsert stores part of a chunk when it fails; the
SDK repeats transactions; a cursor changes representation on its way through
JSON; parallel loads of metadata wait for connections; errors of some queries are
swallowed; a frame is drawn outside the lock. `PROJECT.json` lists these hazards at the lines where they bite.

What makes each component correct: a checkpoint never runs ahead of the data and
never moves back; a completed table is complete; rows are counted once; the
goroutines end (`transferTable`, reader, state table). State rows describe the
data through every sequence of runs; "Done." is only said of completed tables;
every run ends (`main`). A chunk acknowledged is stored and a transaction is
atomic (`BulkUpsertWriter`). Batches are the rows in order, and splitting ends unless a
row by itself is over the limit, which is never sent (`partitionRowsBySize`). Chunks in flight fit into the free memory
(`batchSizeForTable`). Every index is created as it is in MySQL, and loads end
(schema reader). The last frame is true, also of resumed tables (display). Values that are stored are the
MySQL values, in the same order, or a replacement that the YDB column alone decides
(types and values).

## 2. Modules

**`CursorCodec`** - the cursor's trip through `cursorToJSON` and `jsonToCursor`.
Rows are ranks `1..Rows` in key order; `Key[r]` is the key of rank r, or its
leading column, an integer or a string of bytes (`KeyKind`). `Restored(c)` is the set of positions a saved cursor may
resume at: integers of either sign become float64 (`ToFloat`, with IEEE rounding beyond
`FloatExact`, 2^53 in Go) and int64 on return (`ToInt64`; out of range the Go
conversion depends on the machine, so there are two outcomes); a byte that is not
UTF-8 becomes U+FFFD (`ToText`), a key that may be greater or smaller.

**`BatchSize`** - `batchSizeForTable`, all caps in the order of the code: flags,
network budget, memory with its floor of 1000 rows. A `Sizing` is what the free
memory and `TableSize` were found to be, 0 standing for a failed query.

**`Transfer`** - one table, over several runs of the importer.

| Variable | Code |
|---|---|
| `target` | rows in the YDB table |
| `state` | the row of `_mysql2ydb_state`: no row, in progress, completed |
| `main`, `runs`, `forced` | where `transferTable` is, number of starts, `-force` |
| `sizing`, `batch` | what this run found for free memory and table size, and its chunk size |
| `readerPC`, `cursor`, `pending` | reader goroutine: `cursor`, the chunk it is about to send |
| `ch`, `closed` | `ch := make(chan chunkMsg, 2)` |
| `writerPC`, `current`, `total` | writer goroutine: `msg`, `total` |
| `pass`, `claim` | history: what the reader left out, whether the count is exact |

A chunk is `[first, last, next]`, an interval of ranks and the cursor that travels
with it. The actions are the calls and channel operations: `Start`, `Load`,
`Read`, `Send`, `SendCancelled`, `Close`, `Receive`, `Write`, `Save`, `Finish`,
`WaitOk`, `WaitError`, `Mark`; the failures `LoadFail`, `ReadFail`, `WriteFail` (any
part stored), `SaveFail` (stored or not), `MarkFail`; and `Crash` anywhere. A read
does not see writes, so a whole `ReadChunk` is one action. History variables are
read by no guard and feed nothing but themselves.

**`TableCopy`** - the abstract specification of a copy, in three actions: pieces
of the table are copied in any order and any number of times (`Copy`); a record
says up to where all pieces are copied, and only moves on (`Advance`); or it says
that all are (`Finish`). Pieces may be left out only if they are in one of the sets
`Excuses`. Two modules implement it:

- `Transfer`, as `CopiesTable`: pieces are rows, `copied` is `target`, the record is
  `state`, `excused` is `claim.gaps`, and `Excuses` the sets without the first row and
  without two neighbours. Channel, goroutines and runs are hidden.
- `Migration`, as `TablesCopiedAsPromised`: pieces are chunks, nothing is excused, one
  instance per table. This is what allows `Migration` to treat a transfer as it does.
  Only the drops of `-force-recreate`, which start a new copy, are excepted.

**`TwoImporters`** - two instances of `Transfer` that share `target`, `state` and
`claim` and nothing else, each with its own free memory and chunk size. Every call on
YDB is one step: `GetProgress` is a snapshot read, `SaveProgress` and
`MarkTableCompleted` are upserts of one row without a condition.

**`Migration`** - `main` over all tables and several runs, each with a command
line out of `Modes`. `pc` follows the statements of `main`; `worker[t]` and
`pos[t]` are a `transferTable` seen from outside: chunks written and checkpointed,
an error, or the hang described in section 5. The loss of rows inside a transfer
is `Transfer`'s business: a chunk stands here for the rows the reader delivers.
A call that took effect and then failed is the same call followed by `Kill`.
`CreateTable` may or may not know the AUTO_INCREMENT value, as `LoadTableMeta`
swallows the error. `orphaned` (tables dropped while their record survives),
`unread` (tables whose AUTO_INCREMENT was not known) and `whole` (all runs so far
were plain ones) are history.

**`Writer`** - `BulkUpsertWriter` for one table: the caches, the choice of path, a
BulkUpsert that stores any part when it fails, the refusal by a table with a
synchronous index, the transaction with one statement per batch, `Retry` by
`DoTx`, and `CommitUnknown`, a commit carried out whose answer is lost. Parallel
transfers share the writer, but only through mutex-protected maps with one entry
per table, so one table shows all there is.

**`PartitionRows`** - the recursion of `partitionRowsBySize` on an explicit stack.
A chunk is its prefix sums `upto`, so that `Total` needs no recursion.

**`ValueMapping`** - `normalizeMySQLType`, `mysqlTypeToYQLBase` and
`mysqlValueToYDBForBulkUpsert`. A column is a MySQL type name with UNSIGNED,
display width, nullability and AUTO_INCREMENT; its YDB column is the importer's
own, which takes NULLs unless it is a BigSerial, or any hand-made one (`-data-only`); up to two rows are converted and
YDB takes a value exactly when type and optionality are those of the column.
Strings and dates are labels in order (-2 zero date, -1 before 1970, 0 the
epoch; strings from `FirstInvalidUTF8` on are not UTF-8). A machine integer of w bits
has `Half[w]` values below 0, 2^(w-1) in Go; the theorems need only the order of the
widths.

**`SchemaReader`** - `LoadTableMeta` for several tables at once. `pc[t]` follows its
three queries, `open[t]` holds its result sets, each on a connection of the pool:
`Query` waits while `MaxOpenConns` are in use. `Indexes[t]` are MySQL's indexes in the
order of their names, `row[t]` the next row of `STATISTICS`, a part of one of them, and
`indexMap[t]` the Go map of that name. `ReadIndexPart` is one iteration of the loop;
`BreakOnNull` leaves it at a NULL `COLUMN_NAME`, with the rows open until the function
returns; `EndIndexes` stands for the end of the rows and for their error, which nobody
asks for. `Created` is what `buildCreateTableDDL` makes of the map.

**`Display`** - `transferTable` as far as it reports, `main` up to `Stop`, and the
goroutine of `Run`. A table may be resumed: `initial[t]` is what its checkpoint counts, and a
transfer may be completed after any number of chunks. Rows are counted in chunks. `frame` holds the copies that `redraw` takes under the lock and
prints after it; `screen` is the frame printed last.

**`MyCnf`** - the merge of `[mysql]` and `[client]` in `~/.my.cnf`, one option at a time
in any order, as Go ranges over maps: `section` is the loop that runs, `left` its keys not
yet reached, `opts` the options so far.

**`MCTransfer`, `MCTwoImporters`, `MCMigration`, `MCPartitionRows`, `MCValueMapping`,
`MCSchemaReader`** - constants for TLC. **`TransferProofs`, `TwoImportersProofs`,
`PartitionRowsProofs`, `MigrationProofs`, `WriterProofs`, `DisplayProofs`,
`ValueMappingProofs`, `InputProofs`** - the theorems; `TransferProofs` also has those about
`BatchSize` and `TableCopy`, `InputProofs` those about `MyCnf` and `SchemaReader`, what the
importer reads before it copies.

Definitions headed "Mutant of" are no part of the model: each is a plausible
bug in the definition it names, and checking its run with it must fail.

## 3. Runs

| Run | Module, cfg | Shows |
|---|---|---|
| `transfer_keyed` | `MCTransfer_keyed` | 14 rows, chunk sizes 1-3 from the free memory, changing between 3 runs, all failures and kills: the copy implements `TableCopy`, counts are exact, the pipeline stays in order and in memory |
| `transfer_offset` | `MCTransfer_offset` | 6 rows by LIMIT/OFFSET, 3 runs, chunk sizes from flags and network budget, fair: the copy is one-to-one; no goroutine stays blocked unless a read fails |
| `two_importers` | `MCTwoImporters` | 6 rows with a BINARY key, two importers with chunks of 1 or 2 rows: a completed table lacks only what paging and key encoding leave out, although checkpoints are overwritten |
| `migration_flags` | `MCMigration_flags` | 2 tables, 9 command lines, 3 runs in any order, fair: records match data, tables are copied as `TableCopy` promises, "Done." is truthful, `-force-recreate` starts clean, the state table implies the schema, runs end |
| `schema_reader` | `MCSchemaReader` | 3 tables on 2 connections, two of them with an index on an expression: indexes created, loads that end or wait for each other |
| `writer_paths` | `MCWriter` | 3 chunks of 3 rows, 3 processes: what is acknowledged is stored, transactions are atomic, one refusal per process |
| `partition_rows` | `MCPartitionRows_split` | all chunks of up to 5 rows of size 1-5, limit 4: batches are the rows in order; the function never returns with an oversized row, and always without one |
| `value_types` | `MCValueMapping_types` | every column type, every value, every YDB column, two rows: order and identity of integers, invalid dates, refusals |
| `display` | `MCDisplay` | 3 tables of up to 2 chunks, new or resumed, sequential or parallel: at most one frame after the final one; the final one is true |
| `transfer_onetoone`, `transfer_returns`, `migration_recreate` | violations | section 5 |

Bounds. `MaxRuns = 3` lets a run be interrupted, resumed, interrupted in its turn
and finished. Fourteen rows are the least with which five chunks of two rows exist,
one more than may be in flight: four fill the channel (capacity 2) and both
goroutines and exhaust the free memory exactly. Every alignment of a resume position
to another chunk size occurs. Of two importers either may be killed in the middle of
the other's copy; their keys are three that survive the trip through JSON, two
that come back greater and one that comes back smaller. Two tables, one with
AUTO_INCREMENT, two chunks each, show a record before, between and after checkpoints
and one table failing while the other runs; three runs make each pair of command
lines follow each other after a third. Two connections and two tables that each need
a second one are the least that can exhaust a pool, the third table waits or
finishes. Three rows per chunk give transactions of one, two and three
statements. Integer widths are scaled (2, 3 and 4 bits for the up to 24, 32 and 64
bit types): sign bits, wrap-around and the order of the widths are kept.
`FloatExact` is scaled the same way, with keys of either sign up to and beyond it, and byte
counts (`NetworkBytes`, free memory, `MinBatch`) so that each cap is the one that decides in
some state. Resumed tables of `Display` start with no row counted, as new ones, or with one. Deadlock
checking is off where the program stops.

Fairness. Weak fairness of `main`, of each goroutine, and of nothing else: the Go
scheduler runs every goroutine that can run, and the calls on MySQL and YDB return,
with or without an error. Nobody has to start a run, or to kill one. Which branch a
call takes is never assumed: a call may fail every time. In `SchemaReader` each load is
fair by itself: `database/sql` queues requests for a connection in order.

## 4. Theorems

| Theorem | Property | For every |
|---|---|---|
| `TypeCorrect` | `TypeOK` | table, key, chunk sizes, number of runs |
| `OrderTheorem` | `PipelineInOrder` | " |
| `ForcedTheorem` | `OnlyForcedUncompletes` | " |
| `CheckpointTheorem` | `CheckpointCoversPrefix` | " |
| `CompletedTheorem` | `CompletedCoversTable` | " |
| `RowsTheorem` | `RowsExact` | " |
| `ChunksFitTheorem` | `ChunksFit` | " and estimates of memory and table size |
| `AdvanceTheorem` | `CheckpointAdvances` | table whose keys come back as they were saved |
| `CopiesTheorem` | `CopiesTable` | " |
| `ExactKeysTheorem` | (`KeysExact`) | integer keys from -2^53 to 2^53, keys of ASCII bytes |
| `OffsetOneToOne` | `OneToOneCopy` | table paged by LIMIT/OFFSET |
| `BatchTheorem`, `MemoryTheorem`, `NetworkTheorem` | (operators) | flags and estimates |
| `SharedCheckpointTheorem` | `CheckpointCoversPrefix` | table and key, with two importers |
| `SharedCompletedTheorem` | `CompletedCoversTable` | " |
| `SharedLossTheorem` | `LossExplained` | " |
| `SharedCopyTheorem` | (no loss but single rows) | ", keys coming back as they were saved |
| `MigrationTypes` | `TypeOK` | set of tables, chunks, command lines, number of runs |
| `RecordsTheorem` | `RecordsMatchData` | " |
| `DoneTheorem` | `DoneMeansCompleted` | " |
| `RecreateTheorem` | `RecreateStartsClean` | " |
| `SchemaTheorem` | `StateImpliesSchema` | " |
| `KeptTheorem` | `CompletedIsKept` | " |
| `OrphansTheorem` | `OrphansGone` (in `MigrationProofs`) | " |
| `PromiseTheorem` | `TablesCopiedAsPromised` | " |
| `WriterTypes` | `TypeOK` | number of chunks, rows and processes |
| `AckedTheorem` | `AckedIsStored` | " |
| `AtomicTheorem` | `TxAllOrNothing` | " |
| `RefusalTheorem` | `OneRefusal` | " |
| `PartitionTypes` | `TypeOK` | rows, sizes and limit |
| `PartitionLossless` | `Lossless` | " |
| `ModestTheorem` | `ReturnsOnlyModest` | " |
| `ValueTypes` | `TypeOK` | column, value, YDB column and widths of integers |
| `IntegerOrderTheorem` | `IntegersKeepOrder` | " |
| `DistinctTheorem` | `IntegersStayDistinct` | " |
| `DatesTheorem` | `DatesKeptOrReplaced` | " |
| `RefusalsTheorem` | `OnlyKnownRefusals` | " |
| `CutShortTheorem` | `OneIndexCutShort` | tables, indexes, size of the pool |
| `CompleteTheorem` | `IndexesComplete` | " |
| `LateTheorem` | `OneLateFrame` | tables and chunks |
| `FinalTheorem` | `FinalScreen` | " |
| `PrecedenceTheorem` | `ClientFirst` | `~/.my.cnf`, order of its options |

Every safety invariant and every action property that a passing run checks is so proved;
`ClientFirst` is proved without a run of its own. The parts of the inductive invariants that are not properties of a run were
checked by TLC on the instances of section 3 before they were proved.

The argument for `Transfer`. `CheckpointCoversPrefix` is not inductive: whether a
checkpoint is right when it is saved depends on what was written before, and that
on the order of the chunks in the channel. `CoverInv` adds what is needed:
`PipelineInOrder` (writer, channel and reader hold consecutive chunks from
`pass.done` to the reader's cursor), `GapsRecorded` (rows between two chunks are in
`pass.gaps`), `DoneCovered` (all rows up to `pass.done` are written, gaps aside),
`WrittenBeforeSave` (at the save, the chunk in hand is in YDB), and the same of the
two kinds of state row. Every step that ends a process discards the pipeline and
leaves only the durable parts, so a crash is no special case; `Load` rebuilds the
pipeline conditions from the checkpoint. Where a key comes back greater than it was
saved, the rows in between are gaps from then on; so these theorems need no
assumption on the keys.

`CopiesTheorem` and `AdvanceTheorem` do need one, `KeysExact`: every key comes back as it
was saved (`ExactKeysTheorem` says of which keys this is true), so that the saved cursor is
never ahead of the writer (`CursorBehind`). The refinement adds `SparseInv`: the gaps of a pass, and those of a claim, never hold the
first row or two neighbours, because a gap follows a chunk of at least one row
(`BatchTheorem`) and a resumed pass continues right behind the checkpoint. Then a step of
`Transfer` that stores rows is a `Copy`, one that stores a state row an `Advance` or a
`Finish`, and all others stutter.

`RowsTheorem` is about cardinalities. `GapsBehind` says that the gaps of a pass lie between
its start and `pass.done`, `Counted` that the writer's `total` is what it resumed with plus
the rows of the pass up to `pass.done` without the gaps. A chunk that is written adds an
interval behind all that, disjoint from it, and so its length to both sides.

`ChunksFitTheorem` combines three facts: four chunks at most (`FourInFlight`), a chunk
size that takes a quarter of the memory at most (`MemoryTheorem`, unless the floor
applies), and a `batch` that was computed from `sizing` (`SizingStep`).

Two importers. `BothInv` is `CoverInv` of each. What has to be shown beyond the two
inductive steps is that a step of one importer does not disturb the invariant of the
other (`CoverBystander`): rows are only ever added to `target` (`TargetGrows`), and a state
row comes with a claim that is true of `target`, whoever wrote it. For `LossExplained`
`BothSparse` adds `SparseInv` of each: leaving aside the rows of `Jumpable`, gaps are
sparse, and they stay so when one importer goes on from the other's checkpoint.

`Migration`. None of its invariants is inductive alone; `MigrationInv` joins them.
`ControlOK` says what has been decided where `main` is, `WorkersTrue` what a transfer may
rely on (what it counts as written is there, its record is not ahead of it, and only
`-force` works on a completed table), `PendingKnown` that every table asked for is pending,
started or recorded as completed, so that "Done." is true when none is pending.
`OrphansGone` is the key to `-force-recreate`: a table dropped while its record survived
(section 5) is not in the schema as long as the record is there, so no later run writes to
it, and the exception that `RecordsMatchData` makes for such tables cannot spread.
`DropsEmpty` and `CreatesSoFar` follow the loops over drops and DDL. `PromiseTheorem` maps
every step to one of `TableCopy`, or to a stutter, table by table.

`Writer`. `WriterInv` adds that a transaction has staged the rows before its next statement
(`StagedPrefix`), so that the last one makes the chunk whole however often the SDK started
over; that a call works on a chunk there is (`CallHasChunk`); and that a refusal is
remembered in `txOnlyTables` (`RefusalKept`).

`ValueMapping`. The conversion of a value depends on nothing but the column, the value and
the YDB column. `ValueInv` says that every row sent was converted for the column it went
to; what is left are lemmas about `Convert`: its result is in the range of its type, it is
monotone on integers whose sign is not lost, and in the importer's own column it is
injective on the values of the MySQL type, even where it wraps. They rest on facts about
remainders (`ModUnique`, `ModLow`, `ModHigh`). `DatesTheorem` is about every YDB column of a
date type: of all columns that take NULLs, the importer's among them, an invalid date becomes
NULL, whatever MySQL's column is.

`SchemaReader`. `ReaderInv`: `indexMap` holds the indexes before the row the loop is at, and
of that row's index the parts before it; rows are left over only because of an error or an
expression. So only the index of that row can be short.

`Display`. `DisplayInv`: between a transfer and its bar there is only the call about to be
made (`BarsTrue`); once `main` stops waiting no transfer runs (`AllSettled`, for sequential
transfers from `OneByOne`), so the frame copied after that is final (`FinalFrame`); and after
a late frame the loop is back at its test of `stopped` (`LateOnce`).

For `PartitionRows` the invariant is that the batches returned and the pending
stack entries, from the top down, are consecutive slices from 1 to n. `ModestTheorem` adds
that no batch is over the limit: at the end every row is in one of them, and a row takes no
more than its batch. For `MyCnf` the invariant is that a field is what the options applied
so far say of it, or what it was before.

The assumptions are those named in the modules: the ranges of flags and estimates, keys in
ascending order, estimates of at least one byte per row, and a table of at most 2^53 rows.

Model-checked only: the liveness properties `ReturnsUnlessReadFails`,
`WriterFailureUnblocks`, `RunEnds`, `SplitsModestChunks` and `LoadsEnd`, which are out of the
prover's reach, as is ENABLED. So is induction over data and with it what a recursive
definition computes; the modules here use none.

## 5. What the code does against its documentation

Each of these is a run whose property is violated:

- **A row per full chunk is lost** (`transfer_onetoone`). `ReadChunk` takes the next
  cursor from the extra row it fetched and dropped (`reader.go:96`); the next
  page starts after it. README: "a one-to-one copy".
- **A read error hangs** (`transfer_returns`). The reader returns without closing the
  channel (`main.go:217-219`); the writer waits for it forever, and so does `g.Wait`.
- **An interrupted `-force-recreate` leaves completed records of dropped tables**
  (`migration_recreate`, `main.go:106-116`). Until the state table is dropped, no later run
  creates such a table again or writes to it (`OrphansTheorem`).

Met while modelling, without a run of their own:

- Keys above 2^53 are rounded by float64 and may come back greater, so that a resumed run
  skips rows (`migration_status.go:199`); so do BINARY keys with bytes that are not UTF-8
  (195); FLOAT and DOUBLE keys lose their fraction (215). `Jumpable` in `CursorCodec`
  names such rows.
- Composite keys: `buildCursorCondition` writes n(n+1)/2 placeholders and the query gets n
  arguments (`reader.go:52`, `Placeholders`), so the second chunk fails.
- UNSIGNED with a display width becomes signed (`columns.go:159`, `SignLost`):
  `int(10) unsigned` wraps in Int32, a `bigint(20) unsigned` above 2^63-1 is refused.
- Up to four chunks are in flight, not two (README:117): two in the channel and one in
  each goroutine. The quarter of the memory per chunk (`main.go:341`) is just enough for
  one table; parallel tables all count on the same free memory.
- The last chunk's checkpoint is "[]", as that of the start: a kill before
  `MarkTableCompleted` copies the table again and doubles its row count
  (`claim.exact` in `Transfer`). The data is not affected.
- With two importers, one may replace the other's completed record by a checkpoint and
  move a checkpoint back: `OnlyForcedUncompletes` and `CheckpointAdvances` do not hold in
  `TwoImporters`. The work is repeated; the data is not affected.
- The state table stands for the whole schema (`main.go:118`), but a run with `-tables`
  creates only some, and `-data-only` none: a later plain run skips the DDL and fails
  (`whole` in `Migration`).
- Errors of the index and AUTO_INCREMENT queries are swallowed (`columns.go:79`, 104), and
  an index on an expression ends the loop over the indexes (86): indexes are
  missing, and one may be cut short, a UNIQUE one then refusing rows (`OneIndexCutShort`).
  As the rows stay open until `LoadTableMeta` returns, as many such tables as there are
  connections, loaded in parallel, wait for each other for ever (`PoolExhausted`).
- `ALTER SEQUENCE` uses the fixed path `_serial_column_id` (`schema.go:44`), whatever the
  column is called, while YDB names a sequence after its column.
- `-parallel-tables` is no limit (`main.go:276-282`; `config.go:53`, "Max number of tables to
  transfer in parallel"): from 2 on all pending tables start at once.
- A row larger than the statement limit makes `partitionRowsBySize` call itself with
  the same row for ever (`writer.go:278`). It is never sent (`ReturnsOnlyModest`), and the
  import never goes on.
- NOT NULL of MySQL is not carried over: only BigSerial gets it (`schema.go:57`, 109-115), and
  YDB takes every other column for nullable. A zero date, or one before 1970, of a NOT NULL
  column therefore becomes NULL in the importer's own table; 1970-01-01 is stored only in
  a NOT NULL column that somebody made by hand (`writer.go:544`, `DatesKeptOrReplaced`).
- The bar of a resumed table counts from 0 and jumps to the whole count with the first chunk
  of the new run (`main.go:247`, `Reported` in `Display`).
- `tinyblob`, `mediumblob` and `longblob` become Text, where bytes that are not UTF-8
  are replaced; README's MEDIUMBLOB example shows String.
- DECIMAL and BIT values are sent as Text and refused by their columns; so is a
  TINYINT(1), FLOAT or DOUBLE with AUTO_INCREMENT, whose column becomes an Int64
  (`schema.go:52`, `OnlyKnownRefusals`).
- A frame drawn after `Stop` hides the cursor again (`display.go:134`) and may show older
  counts (`late` in `Display`).
- `[client]` does not override `[mysql]` with `ssl-mode=DISABLED` or an invalid port
  (`mycnf.go:113`, 106, against the comment at 25), and `db` and `database`, or `ssl` and
  `ssl-mode`, in one section are applied in random order.

## 6. Not modelled, and assumptions

- The MySQL table is constant and LIMIT/OFFSET pages have a stable order. Tables
  without a primary key reach the pager only with `-data-only` into a hand-made table.
- A composite key in the runs of `Transfer`: its second chunk always fails, see section 5.
- FLOAT and DOUBLE keys in the cursor: keys are integers, text or bytes.
- `Migration` knows one hang, that of the reader. The wait of `LoadTableMeta` for a connection
  is in `SchemaReader` and not in `Migration`, so `RunEnds` is about pools that it does not
  exhaust. Sequential transfers have a pool without a limit, parallel ones 8 connections or
  more (`main.go:49-54`), of which the two tables of the run need four.
- The pool is exhausted by `LoadTableMeta` only: the rows of `ReadChunk` hold one
  connection and need no other.
- go-sql-driver delivers integers as int64, or uint64 for an unsigned BIGINT;
  layouts of `time.Parse` are abstracted to whether a date parses.
- Flags, the lines of `~/.my.cnf`, the DSN, reading free memory, credentials, logging,
  DDL text and terminal escapes: sequential text processing or pure I/O.

## 7. Plan

Written, in this order: `CursorCodec`, `Transfer` and its proofs; `Migration`;
`PartitionRows` and its proofs; `Writer`; `ValueMapping`; `BatchSize`, `TableCopy` and the
refinement; `TwoImporters` and its proofs; `SchemaReader`; `Display`; `MyCnf`.

Then the theorems about `RowsExact`, `TwoImporters`' losses, `Migration`, `Writer`,
`ValueMapping`, `Display` and `SchemaReader`.

Next: what two importers keep of a completed record; a bound on the depth of
`PartitionRows`' recursion; which MySQL types no value of is refused.

Modules that remain possible: a MySQL table that changes during the import; several
tables sharing one `Writer`.
