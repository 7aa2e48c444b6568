-------------------------- MODULE MigrationProofs --------------------------
(* Theorems about Migration, for any number of tables and chunks, any set  *)
(* of command lines and any number of runs.                                *)
EXTENDS Migration, TLAPS

-----------------------------------------------------------------------------
(* The inductive invariant.                                                *)

\* What main and the goroutines it starts have passed when they are where
\* they are.
ControlOK ==
    /\ pc = "down" => todo = {}
    /\ pc # "down" => outcome = "none" /\ cfg \in Modes
    /\ pc \in {"drop", "dropState"} => cfg.forceRecreate
    /\ pc \in {"create", "sequence", "createState"} => ~stateTable
    /\ pc \in {"list", "transfer"} => stateTable
    /\ pc \in {"dropState", "createState"} => todo = {}
    /\ pc = "sequence" => \A t \in todo : IsNext(t) => t \in AutoInc \cap schema
    /\ pc # "transfer" => \A t \in Tables : worker[t] = "idle"
    /\ \A t \in Tables :
         /\ worker[t] # "idle" => t \in cfg.tables \ todo
         /\ worker[t] \in {"write", "save"} => pos[t] < NumChunks
         /\ worker[t] \in {"mark", "returned"} => pos[t] = NumChunks

\* No row of the state table without the state table; a table that was dropped
\* while its row survived stays dropped as long as the row does.
OrphansGone ==
    /\ \A t \in Tables : record[t] # NoRecord => stateTable
    /\ \A t \in orphaned : t \notin schema /\ record[t] # NoRecord

\* What the transfer of a table may rely on: the chunks it counts as written
\* are, the record is not ahead of it, and only -force works on a completed
\* table.
WorkersTrue ==
    \A t \in Tables :
      /\ worker[t] \in {"save", "mark"} => t \notin orphaned
      /\ worker[t] \in {"write", "save", "mark"} /\ t \notin orphaned
            => 1..pos[t] \subseteq data[t]
      /\ worker[t] = "save" => pos[t] + 1 \in data[t]
      /\ worker[t] \in {"write", "save"} /\ record[t].status = "progress"
            => record[t].cursor <= pos[t]
      /\ worker[t] \in {"load", "write", "save", "mark"} /\ ~cfg.force
            => record[t].status # "completed"
      /\ worker[t] = "returned" => record[t].status = "completed"

\* In the loops over the pending tables, a table is still to come, has been
\* started, or was found completed.
PendingKnown ==
    pc = "transfer" =>
      /\ \A t \in cfg.tables :
           t \in todo \/ worker[t] # "idle" \/ record[t].status = "completed"
      /\ ~cfg.force => \A t \in todo : record[t].status # "completed"

\* -force-recreate has emptied the tables it is done with.
DropsEmpty ==
    /\ pc \in {"drop", "dropState"} => \A t \in cfg.tables \ todo : data[t] = {}
    /\ pc \in {"create", "sequence", "createState"} /\ cfg.forceRecreate
          => \A t \in cfg.tables : data[t] = {}

\* A run for all tables, with DDL and without drops, has created the tables it
\* is done with, and finds the state table or creates it.
CreatesSoFar ==
    whole /\ pc # "down" =>
      /\ cfg.tables = Tables /\ ~cfg.dataOnly /\ ~cfg.forceRecreate
      /\ pc \in {"create", "sequence", "createState"} =>
           /\ Tables \ todo \subseteq schema
           /\ AutoInc \ (unread \cup todo) \subseteq sequences
      /\ pc = "ensure" => stateTable

MigrationInv ==
    /\ TypeOK /\ ControlOK
    /\ OrphansGone /\ RecordsMatchData
    /\ WorkersTrue /\ PendingKnown /\ DoneMeansCompleted
    /\ DropsEmpty
    /\ CreatesSoFar /\ StateImpliesSchema

\* The command line of any run, or of none.
LEMMA ConfigType ==
    ASSUME NEW c \in Modes \cup {NoConfig}
    PROVE  /\ c.tables \subseteq Tables
           /\ c.dataOnly \in BOOLEAN /\ c.force \in BOOLEAN /\ c.forceRecreate \in BOOLEAN
<1>1. CASE c \in Modes
  BY <1>1, ModesAssumption DEF Config
<1>2. CASE c = NoConfig
  BY <1>2 DEF NoConfig
<1> QED
  BY <1>1, <1>2

\* The type invariant holds initially and is preserved.
LEMMA TypeStep == TypeOK /\ ControlOK /\ [Next]_vars => TypeOK'
<1> SUFFICES ASSUME TypeOK, ControlOK, [Next]_vars PROVE TypeOK'
  OBVIOUS
<1> USE ChunksAssumption, AutoIncAssumption DEF TypeOK, durable, workers, history
<1>0. cfg.tables \subseteq Tables
  BY ConfigType
<1>1. ASSUME NEW how \in {"schema", "done", "fatal", "killed"}, End(how),
             UNCHANGED <<durable, orphaned, history>>
      PROVE  TypeOK'
  <2>1. /\ worker' \in [Tables -> {"idle", "load", "write", "save", "mark", "returned",
                                   "failed", "hung"}]
        /\ pos' \in [Tables -> 0..NumChunks]
    BY <1>1 DEF End
  <2> QED
    BY <1>1, <2>1 DEF End
<1>2. ASSUME Fatal \/ Kill \/ SchemaOnlyExit \/ Done \/ TransferFatal PROVE TypeOK'
  BY <1>1, <1>2 DEF Fatal, Kill, SchemaOnlyExit, Done, TransferFatal
<1>3. ASSUME NEW c \in Modes, Launch(c) PROVE TypeOK'
  BY <1>3, RunsAssumption DEF Launch, ControlOK
<1>4. ASSUME CheckState \/ DropsDone PROVE TypeOK'
  BY <1>4 DEF CheckState, AfterDrops, DropsDone
<1>5. ASSUME DropStateTable PROVE TypeOK'
  <2>1. record' \in [Tables -> [status : {"absent", "progress", "completed"},
                                cursor : 0..(NumChunks - 1)]]
    BY <1>5 DEF DropStateTable, NoRecord
  <2> QED
    BY <1>5, <2>1 DEF DropStateTable, AfterDrops
<1>6. ASSUME NEW t \in Tables, DropTable(t) PROVE TypeOK'
  BY <1>6 DEF DropTable
<1>7. ASSUME NEW t \in Tables, NEW known \in BOOLEAN, CreateTable(t, known) PROVE TypeOK'
  BY <1>7 DEF CreateTable
<1>8. ASSUME NEW t \in Tables, AlterSequence(t) PROVE TypeOK'
  BY <1>8 DEF AlterSequence, ControlOK, IsNext
<1>9. ASSUME CreatesDone \/ CreateStateTable \/ EnsureStateTable PROVE TypeOK'
  BY <1>9 DEF CreatesDone, CreateStateTable, EnsureStateTable
<1>10. ASSUME ListPending PROVE TypeOK'
  <2>1. CASE End("done") /\ UNCHANGED <<durable, orphaned, history>>
    BY <1>1, <2>1
  <2>2. CASE pc' = "transfer"
    BY <1>10, <2>2 DEF ListPending, End
  <2> QED
    BY <1>10, <2>1, <2>2 DEF ListPending
<1>11. ASSUME NEW t \in Tables, Spawn(t) PROVE TypeOK'
  BY <1>11 DEF Spawn
<1>12. ASSUME NEW t \in Tables, LoadProgress(t) PROVE TypeOK'
  BY <1>12 DEF LoadProgress
<1>13. ASSUME NEW t \in Tables, WriteChunk(t) PROVE TypeOK'
  BY <1>13 DEF WriteChunk, ControlOK, AllChunks
<1>14. ASSUME NEW t \in Tables, SaveProgress(t) PROVE TypeOK'
  BY <1>14 DEF SaveProgress, ControlOK
<1>15. ASSUME NEW t \in Tables, MarkTableCompleted(t) PROVE TypeOK'
  BY <1>15 DEF MarkTableCompleted
<1>16. ASSUME NEW t \in Tables, TransferError(t) \/ TransferHangs(t) PROVE TypeOK'
  BY <1>16 DEF TransferError, TransferHangs
<1>17. ASSUME UNCHANGED vars PROVE TypeOK'
  BY <1>17 DEF vars
<1> QED
  BY <1>2, <1>3, <1>4, <1>5, <1>6, <1>7, <1>8, <1>9, <1>10, <1>11, <1>12, <1>13, <1>14,
     <1>15, <1>16, <1>17
  DEF Next, MainStep, Transfers

\* ControlOK is preserved.
LEMMA ControlStep == TypeOK /\ ControlOK /\ [Next]_vars => ControlOK'
<1> SUFFICES ASSUME TypeOK, ControlOK, [Next]_vars PROVE ControlOK'
  OBVIOUS
<1> USE DEF durable, workers, history
<1>0. /\ cfg.tables \subseteq Tables /\ todo \subseteq cfg.tables
      /\ NumChunks \in Nat \ {0}
      /\ worker \in [Tables -> {"idle", "load", "write", "save", "mark", "returned",
                                "failed", "hung"}]
      /\ pos \in [Tables -> 0..NumChunks]
  BY ConfigType, ChunksAssumption DEF TypeOK
<1>1. ASSUME NEW how \in {"schema", "done", "fatal", "killed"}, End(how) PROVE ControlOK'
  <2>1. \A t \in Tables : worker'[t] = "idle"
    BY <1>1 DEF End
  <2> QED
    BY <1>1, <2>1 DEF End, ControlOK
<1>2. ASSUME Fatal \/ Kill \/ SchemaOnlyExit \/ Done \/ TransferFatal PROVE ControlOK'
  BY <1>1, <1>2 DEF Fatal, Kill, SchemaOnlyExit, Done, TransferFatal
<1>3. ASSUME NEW c \in Modes, Launch(c) PROVE ControlOK'
  BY <1>3 DEF Launch, ControlOK
<1>4. ASSUME CheckState \/ DropsDone PROVE ControlOK'
  BY <1>0, <1>4 DEF CheckState, AfterDrops, CreatesSchema, DropsDone, ControlOK
<1>5. ASSUME DropStateTable PROVE ControlOK'
  BY <1>0, <1>5 DEF DropStateTable, AfterDrops, CreatesSchema, ControlOK
<1>6. ASSUME NEW t \in Tables, DropTable(t) PROVE ControlOK'
  BY <1>0, <1>6 DEF DropTable, ControlOK
<1>7. ASSUME NEW t \in Tables, NEW known \in BOOLEAN, CreateTable(t, known) PROVE ControlOK'
  <2>1. t \in todo /\ \A u \in todo : IsNext(u) => u = t
    BY <1>7, <1>0, TablesAssumption DEF CreateTable, IsNext, Tables
  <2>2. pc' = "sequence" => t \in AutoInc /\ t \in schema' /\ todo' = todo
    BY <1>7 DEF CreateTable
  <2> QED
    BY <1>0, <1>7, <2>1, <2>2 DEF CreateTable, ControlOK, IsNext
<1>8. ASSUME NEW t \in Tables, AlterSequence(t) PROVE ControlOK'
  BY <1>0, <1>8 DEF AlterSequence, ControlOK
<1>9. ASSUME CreatesDone \/ CreateStateTable \/ EnsureStateTable PROVE ControlOK'
  BY <1>0, <1>9 DEF CreatesDone, CreateStateTable, EnsureStateTable, ControlOK
<1>10. ASSUME ListPending PROVE ControlOK'
  <2>1. CASE End("done")
    BY <1>1, <2>1
  <2>2. CASE pc' = "transfer"
    BY <1>0, <1>10, <2>2 DEF ListPending, End, ControlOK
  <2> QED
    BY <1>10, <2>1, <2>2 DEF ListPending
<1>11. ASSUME NEW t \in Tables, Spawn(t) PROVE ControlOK'
  BY <1>0, <1>11 DEF Spawn, IsNext, ControlOK
<1>12. ASSUME NEW t \in Tables, LoadProgress(t) PROVE ControlOK'
  BY <1>0, <1>12 DEF LoadProgress, ControlOK, TypeOK
<1>13. ASSUME NEW t \in Tables, WriteChunk(t) PROVE ControlOK'
  BY <1>0, <1>13 DEF WriteChunk, ControlOK
<1>14. ASSUME NEW t \in Tables, SaveProgress(t) PROVE ControlOK'
  BY <1>0, <1>14 DEF SaveProgress, ControlOK
<1>15. ASSUME NEW t \in Tables, MarkTableCompleted(t) PROVE ControlOK'
  BY <1>0, <1>15 DEF MarkTableCompleted, ControlOK
<1>16. ASSUME NEW t \in Tables, TransferError(t) \/ TransferHangs(t) PROVE ControlOK'
  BY <1>0, <1>16 DEF TransferError, TransferHangs, ControlOK
<1>17. ASSUME UNCHANGED vars PROVE ControlOK'
  BY <1>17 DEF vars, ControlOK, IsNext
<1> QED
  BY <1>1, <1>2, <1>3, <1>4, <1>5, <1>6, <1>7, <1>8, <1>9, <1>10, <1>11, <1>12, <1>13, <1>14,
     <1>15, <1>16, <1>17
  DEF Next, MainStep, Transfers

\* OrphansGone and RecordsMatchData are preserved: records and data change
\* only where they agree.
LEMMA RecordsStep ==
    ASSUME TypeOK, ControlOK, OrphansGone, RecordsMatchData, WorkersTrue, [Next]_vars
    PROVE  OrphansGone' /\ RecordsMatchData'
<1> DEFINE Goal == OrphansGone /\ RecordsMatchData
<1> USE DEF durable, workers, history
<1>0. /\ NumChunks \in Nat \ {0} /\ data \in [Tables -> SUBSET AllChunks]
      /\ record \in [Tables -> [status : {"absent", "progress", "completed"},
                                cursor : 0..(NumChunks - 1)]]
      /\ pos \in [Tables -> 0..NumChunks] /\ orphaned \subseteq Tables
  BY ChunksAssumption DEF TypeOK
<1>1. ASSUME UNCHANGED <<record, data, orphaned>>, stateTable => stateTable',
             schema' = schema \/ orphaned = {}
      PROVE  Goal'
  BY <1>1 DEF OrphansGone, RecordsMatchData
<1>2. ASSUME NEW how \in {"schema", "done", "fatal", "killed"}, End(how),
             UNCHANGED <<durable, orphaned, history>>
      PROVE  Goal'
  BY <1>1, <1>2
<1>3. ASSUME Fatal \/ Kill \/ SchemaOnlyExit \/ Done \/ TransferFatal PROVE Goal'
  BY <1>2, <1>3 DEF Fatal, Kill, SchemaOnlyExit, Done, TransferFatal
<1>4. ASSUME (\E c \in Modes : Launch(c)) \/ CheckState \/ DropsDone \/ CreatesDone
             \/ CreateStateTable \/ EnsureStateTable \/ ListPending \/ UNCHANGED vars
      PROVE  Goal'
  BY <1>1, <1>4
  DEF Launch, CheckState, DropsDone, CreatesDone, CreateStateTable, EnsureStateTable,
      ListPending, vars
<1>5. ASSUME NEW t \in Tables, Spawn(t) \/ AlterSequence(t) \/ LoadProgress(t)
             \/ TransferError(t) \/ TransferHangs(t)
      PROVE  Goal'
  BY <1>1, <1>5 DEF Spawn, AlterSequence, LoadProgress, TransferError, TransferHangs
<1>6. ASSUME NEW t \in Tables, DropTable(t) PROVE Goal'
  BY <1>0, <1>6 DEF DropTable, OrphansGone, RecordsMatchData, NoRecord
<1>7. ASSUME DropStateTable PROVE Goal'
  BY <1>0, <1>7 DEF DropStateTable, OrphansGone, RecordsMatchData, NoRecord
<1>8. ASSUME NEW t \in Tables, NEW known \in BOOLEAN, CreateTable(t, known) PROVE Goal'
  <2>1. orphaned = {}
    BY <1>0, <1>8 DEF CreateTable, ControlOK, OrphansGone
  <2> QED
    BY <1>1, <1>8, <2>1 DEF CreateTable
<1>9. ASSUME NEW t \in Tables, WriteChunk(t) PROVE Goal'
  <2>1. pos[t] + 1 \in AllChunks
    BY <1>0, <1>9 DEF WriteChunk, ControlOK, AllChunks
  <2> QED
    BY <1>0, <1>9, <2>1 DEF WriteChunk, OrphansGone, RecordsMatchData
<1>10. ASSUME NEW t \in Tables, SaveProgress(t) PROVE Goal'
  <2>1. 1..(pos[t] + 1) \subseteq data[t] /\ t \notin orphaned
    <3>1. 1..pos[t] \subseteq data[t] /\ pos[t] + 1 \in data[t] /\ t \notin orphaned
      BY <1>10 DEF SaveProgress, WorkersTrue
    <3> QED
      BY <1>0, <3>1
  <2>2. stateTable
    BY <1>10 DEF SaveProgress, ControlOK
  <2>3. /\ record'[t].status = "progress" /\ record'[t].cursor \in {0, pos[t] + 1}
        /\ \A u \in Tables \ {t} : record'[u] = record[u]
    BY <1>0, <1>10 DEF SaveProgress
  <2> QED
    BY <1>0, <1>10, <2>1, <2>2, <2>3 DEF SaveProgress, OrphansGone, RecordsMatchData
<1>11. ASSUME NEW t \in Tables, MarkTableCompleted(t) PROVE Goal'
  <2>1. data[t] = AllChunks /\ t \notin orphaned
    BY <1>0, <1>11 DEF MarkTableCompleted, ControlOK, WorkersTrue, AllChunks
  <2>2. stateTable
    BY <1>11 DEF MarkTableCompleted, ControlOK
  <2> QED
    BY <1>0, <1>11, <2>1, <2>2 DEF MarkTableCompleted, OrphansGone, RecordsMatchData
<1> QED
  BY <1>3, <1>4, <1>5, <1>6, <1>7, <1>8, <1>9, <1>10, <1>11 DEF Next, MainStep, Transfers

\* WorkersTrue is preserved.
LEMMA WorkersStep ==
    ASSUME TypeOK, ControlOK, OrphansGone, RecordsMatchData, WorkersTrue, PendingKnown,
           [Next]_vars
    PROVE  WorkersTrue'
<1> USE DEF durable, workers, history
<1>0. /\ NumChunks \in Nat \ {0} /\ data \in [Tables -> SUBSET AllChunks]
      /\ record \in [Tables -> [status : {"absent", "progress", "completed"},
                                cursor : 0..(NumChunks - 1)]]
      /\ worker \in [Tables -> {"idle", "load", "write", "save", "mark", "returned",
                                "failed", "hung"}]
      /\ pos \in [Tables -> 0..NumChunks] /\ orphaned \subseteq Tables
  BY ChunksAssumption DEF TypeOK
<1>1. ASSUME pc # "transfer" \/ (pc' = "down" /\ \A t \in Tables : worker'[t] = "idle"),
             pc # "transfer" => worker' = worker
      PROVE  WorkersTrue'
  BY <1>1 DEF ControlOK, WorkersTrue
<1>2. ASSUME NEW how \in {"schema", "done", "fatal", "killed"}, End(how)
      PROVE  WorkersTrue'
  <2>1. \A t \in Tables : worker'[t] = "idle"
    BY <1>2 DEF End
  <2> QED
    BY <2>1 DEF WorkersTrue
<1>3. ASSUME Fatal \/ Kill \/ SchemaOnlyExit \/ Done \/ TransferFatal PROVE WorkersTrue'
  BY <1>2, <1>3 DEF Fatal, Kill, SchemaOnlyExit, Done, TransferFatal
<1>4. ASSUME (\E c \in Modes : Launch(c)) \/ CheckState \/ DropsDone \/ DropStateTable
             \/ CreatesDone \/ CreateStateTable \/ EnsureStateTable
             \/ (\E t \in Tables : DropTable(t) \/ AlterSequence(t))
             \/ (\E t \in Tables, known \in BOOLEAN : CreateTable(t, known))
      PROVE  WorkersTrue'
  BY <1>1, <1>4
  DEF Launch, CheckState, DropsDone, DropStateTable, CreatesDone, CreateStateTable,
      EnsureStateTable, DropTable, AlterSequence, CreateTable
<1>5. ASSUME ListPending PROVE WorkersTrue'
  <2>1. CASE End("done")
    BY <1>2, <2>1
  <2>2. CASE UNCHANGED worker
    BY <1>1, <1>5, <2>2 DEF ListPending
  <2> QED
    BY <1>5, <2>1, <2>2 DEF ListPending
<1>6. ASSUME UNCHANGED vars PROVE WorkersTrue'
  BY <1>6 DEF vars, WorkersTrue
<1>7. ASSUME NEW t \in Tables, Spawn(t) PROVE WorkersTrue'
  BY <1>0, <1>7 DEF Spawn, IsNext, PendingKnown, WorkersTrue
<1>8. ASSUME NEW t \in Tables, LoadProgress(t) PROVE WorkersTrue'
  <2>1. t \notin orphaned => 1..pos'[t] \subseteq data[t]
    BY <1>0, <1>8 DEF LoadProgress, RecordsMatchData
  <2> QED
    BY <1>0, <1>8, <2>1 DEF LoadProgress, WorkersTrue
<1>9. ASSUME NEW t \in Tables, WriteChunk(t) PROVE WorkersTrue'
  <2>1. t \notin orphaned
    BY <1>9 DEF WriteChunk, OrphansGone
  <2>2. pos[t] + 1 \in data'[t] /\ \A u \in Tables : data[u] \subseteq data'[u]
    BY <1>0, <1>9 DEF WriteChunk
  <2> QED
    BY <1>0, <1>9, <2>1, <2>2 DEF WriteChunk, WorkersTrue
<1>10. ASSUME NEW t \in Tables, SaveProgress(t) PROVE WorkersTrue'
  <2>1. /\ worker[t] = "save" /\ t \notin orphaned
        /\ 1..pos[t] \subseteq data[t] /\ pos[t] + 1 \in data[t]
    BY <1>10 DEF SaveProgress, WorkersTrue
  <2>2. /\ worker'[t] \in {"write", "mark"} /\ pos'[t] = pos[t] + 1
        /\ record'[t].status = "progress" /\ record'[t].cursor <= pos[t] + 1
        /\ \A u \in Tables \ {t} :
             worker'[u] = worker[u] /\ pos'[u] = pos[u] /\ record'[u] = record[u]
    BY <1>0, <1>10 DEF SaveProgress
  <2>3. 1..pos'[t] \subseteq data[t]
    BY <1>0, <2>1, <2>2
  <2> QED
    BY <1>0, <1>10, <2>1, <2>2, <2>3 DEF SaveProgress, WorkersTrue
<1>11. ASSUME NEW t \in Tables, MarkTableCompleted(t) PROVE WorkersTrue'
  BY <1>0, <1>11 DEF MarkTableCompleted, WorkersTrue
<1>12. ASSUME NEW t \in Tables, TransferError(t) \/ TransferHangs(t) PROVE WorkersTrue'
  BY <1>0, <1>12 DEF TransferError, TransferHangs, WorkersTrue
<1> QED
  BY <1>3, <1>4, <1>5, <1>6, <1>7, <1>8, <1>9, <1>10, <1>11, <1>12
  DEF Next, MainStep, Transfers

\* PendingKnown and DoneMeansCompleted are preserved.
LEMMA PendingStep ==
    ASSUME TypeOK, ControlOK, WorkersTrue, PendingKnown, DoneMeansCompleted, [Next]_vars
    PROVE  PendingKnown' /\ DoneMeansCompleted'
<1> DEFINE Goal == PendingKnown /\ DoneMeansCompleted
<1> USE DEF durable, workers, history
<1>0. /\ cfg.tables \subseteq Tables /\ todo \subseteq cfg.tables
      /\ record \in [Tables -> [status : {"absent", "progress", "completed"},
                                cursor : 0..(NumChunks - 1)]]
      /\ worker \in [Tables -> {"idle", "load", "write", "save", "mark", "returned",
                                "failed", "hung"}]
  BY ConfigType DEF TypeOK
<1>1. ASSUME NEW how \in {"schema", "done", "fatal", "killed"}, End(how),
             UNCHANGED record,
             how = "done" => \A t \in cfg.tables : record[t].status = "completed"
      PROVE  Goal'
  BY <1>1 DEF End, PendingKnown, DoneMeansCompleted
<1>2. ASSUME Fatal \/ Kill \/ SchemaOnlyExit \/ TransferFatal PROVE Goal'
  BY <1>1, <1>2 DEF Fatal, Kill, SchemaOnlyExit, TransferFatal
<1>3. ASSUME Done PROVE Goal'
  <2>1. \A t \in Tables : worker[t] \in {"idle", "returned"}
    BY <1>0, <1>3 DEF Done, Active, Failed
  <2>2. \A t \in cfg.tables : record[t].status = "completed"
    BY <1>0, <1>3, <2>1 DEF Done, PendingKnown, WorkersTrue
  <2> QED
    BY <1>1, <1>3, <2>2 DEF Done
<1>4. ASSUME pc' # "transfer", outcome' = "none" PROVE Goal'
  BY <1>4 DEF PendingKnown, DoneMeansCompleted
<1>5. ASSUME (\E c \in Modes : Launch(c)) \/ CheckState \/ DropsDone \/ DropStateTable
             \/ CreatesDone \/ CreateStateTable \/ EnsureStateTable
             \/ (\E t \in Tables : DropTable(t) \/ AlterSequence(t))
             \/ (\E t \in Tables, known \in BOOLEAN : CreateTable(t, known))
      PROVE  Goal'
  BY <1>4, <1>5
  DEF Launch, CheckState, AfterDrops, DropsDone, DropStateTable, CreatesDone,
      CreateStateTable, EnsureStateTable, DropTable, AlterSequence, CreateTable, ControlOK
<1>6. ASSUME ListPending PROVE Goal'
  <2>1. CASE cfg.tables \ CompletedSet = {}
    <3>1. \A t \in cfg.tables : record[t].status = "completed"
      BY <1>0, <2>1 DEF CompletedSet
    <3> QED
      BY <1>1, <1>6, <2>1, <3>1 DEF ListPending
  <2>2. CASE cfg.tables \ CompletedSet # {}
    <3>1. pc' = "transfer" /\ todo' = cfg.tables \ CompletedSet /\ outcome' = "none"
          /\ UNCHANGED <<cfg, worker, record>>
      BY <1>6, <2>2 DEF ListPending, ControlOK
    <3> QED
      BY <1>0, <3>1 DEF PendingKnown, DoneMeansCompleted, CompletedSet
  <2> QED
    BY <2>1, <2>2
<1>7. ASSUME UNCHANGED vars PROVE Goal'
  BY <1>7 DEF vars, PendingKnown, DoneMeansCompleted
<1>8. ASSUME NEW t \in Tables, Spawn(t) PROVE Goal'
  BY <1>0, <1>8 DEF Spawn, ControlOK, PendingKnown, DoneMeansCompleted
<1>9. ASSUME NEW t \in Tables, Transfers(t) PROVE Goal'
  <2>1. /\ worker[t] # "idle" /\ worker'[t] # "idle"
        /\ \A u \in Tables \ {t} : worker'[u] = worker[u] /\ record'[u] = record[u]
        /\ UNCHANGED <<pc, cfg, todo, outcome>>
    BY <1>0, <1>9
    DEF Transfers, LoadProgress, WriteChunk, SaveProgress, MarkTableCompleted,
        TransferError, TransferHangs
  <2>2. pc = "transfer" /\ t \notin todo /\ outcome = "none"
    BY <2>1 DEF ControlOK
  <2> QED
    BY <1>0, <2>1, <2>2 DEF PendingKnown, DoneMeansCompleted
<1> QED
  BY <1>2, <1>3, <1>5, <1>6, <1>7, <1>8, <1>9 DEF Next, MainStep

\* DropsEmpty is preserved.
LEMMA DropsStep ==
    ASSUME TypeOK, ControlOK, DropsEmpty, [Next]_vars
    PROVE  DropsEmpty'
<1> USE DEF durable, workers, history
<1>0. cfg.tables \subseteq Tables /\ data \in [Tables -> SUBSET AllChunks]
  BY ConfigType DEF TypeOK
<1>1. ASSUME pc' \notin {"drop", "dropState", "create", "sequence", "createState"}
      PROVE  DropsEmpty'
  BY <1>1 DEF DropsEmpty
<1>2. ASSUME Fatal \/ Kill \/ SchemaOnlyExit \/ Done \/ TransferFatal \/ ListPending
             \/ (\E c \in Modes : Launch(c)) \/ CreateStateTable \/ EnsureStateTable
             \/ (\E t \in Tables : Spawn(t))
      PROVE  DropsEmpty'
  BY <1>1, <1>2
  DEF Fatal, Kill, SchemaOnlyExit, Done, TransferFatal, ListPending, End, Launch,
      CreateStateTable, EnsureStateTable, Spawn
<1>3. ASSUME CheckState PROVE DropsEmpty'
  BY <1>3 DEF CheckState, AfterDrops, CreatesSchema, DropsEmpty
<1>4. ASSUME DropStateTable PROVE DropsEmpty'
  BY <1>4 DEF DropStateTable, AfterDrops, CreatesSchema, DropsEmpty, ControlOK
<1>5. ASSUME NEW t \in Tables, DropTable(t) PROVE DropsEmpty'
  BY <1>0, <1>5 DEF DropTable, DropsEmpty
<1>6. ASSUME DropsDone \/ CreatesDone \/ (\E t \in Tables : AlterSequence(t))
             \/ (\E t \in Tables, known \in BOOLEAN : CreateTable(t, known))
      PROVE  DropsEmpty'
  BY <1>6 DEF DropsDone, CreatesDone, AlterSequence, CreateTable, DropsEmpty
<1>7. ASSUME NEW t \in Tables, Transfers(t) PROVE DropsEmpty'
  <2>1. pc = "transfer" /\ pc' = pc
    BY <1>7
    DEF Transfers, LoadProgress, WriteChunk, SaveProgress, MarkTableCompleted,
        TransferError, TransferHangs, ControlOK
  <2> QED
    BY <1>1, <2>1
<1>8. ASSUME UNCHANGED vars PROVE DropsEmpty'
  BY <1>8 DEF vars, DropsEmpty
<1> QED
  BY <1>2, <1>3, <1>4, <1>5, <1>6, <1>7, <1>8 DEF Next, MainStep

\* CreatesSoFar and StateImpliesSchema are preserved.
LEMMA CreatesStep ==
    ASSUME TypeOK, ControlOK, CreatesSoFar, StateImpliesSchema, [Next]_vars
    PROVE  CreatesSoFar' /\ StateImpliesSchema'
<1> DEFINE Goal == CreatesSoFar /\ StateImpliesSchema
<1> USE DEF durable, workers, history
<1>0. /\ schema \subseteq Tables /\ todo \subseteq cfg.tables /\ cfg.tables \subseteq Tables
      /\ AutoInc \subseteq Tables
  BY ConfigType, AutoIncAssumption DEF TypeOK
<1>1. ASSUME pc' = "down", UNCHANGED <<schema, sequences, stateTable, unread, whole>>
      PROVE  Goal'
  BY <1>1 DEF CreatesSoFar, StateImpliesSchema
<1>2. ASSUME Fatal \/ Kill \/ SchemaOnlyExit \/ Done \/ TransferFatal PROVE Goal'
  BY <1>1, <1>2 DEF Fatal, Kill, SchemaOnlyExit, Done, TransferFatal, End
<1>3. ASSUME NEW c \in Modes, Launch(c) PROVE Goal'
  BY <1>3 DEF Launch, CreatesSoFar, StateImpliesSchema
<1>4. ASSUME CheckState PROVE Goal'
  BY <1>0, <1>4 DEF CheckState, AfterDrops, CreatesSchema, CreatesSoFar, StateImpliesSchema
<1>5. ASSUME DropsDone \/ DropStateTable \/ (\E t \in Tables : DropTable(t)) PROVE Goal'
  <2>1. pc \in {"drop", "dropState"} /\ whole' = whole
    BY <1>5 DEF DropsDone, DropStateTable, DropTable
  <2>2. ~whole
    BY <2>1 DEF ControlOK, CreatesSoFar
  <2> QED
    BY <2>1, <2>2 DEF CreatesSoFar, StateImpliesSchema
<1>6. ASSUME NEW t \in Tables, NEW known \in BOOLEAN, CreateTable(t, known) PROVE Goal'
  BY <1>0, <1>6 DEF CreateTable, ControlOK, CreatesSoFar, StateImpliesSchema
<1>7. ASSUME NEW t \in Tables, AlterSequence(t) PROVE Goal'
  <2>1. t \in schema
    BY <1>7 DEF AlterSequence, IsNext, ControlOK
  <2> QED
    BY <1>0, <1>7, <2>1 DEF AlterSequence, ControlOK, CreatesSoFar, StateImpliesSchema
<1>8. ASSUME CreatesDone PROVE Goal'
  BY <1>0, <1>8 DEF CreatesDone, CreatesSoFar, StateImpliesSchema
<1>9. ASSUME CreateStateTable PROVE Goal'
  BY <1>0, <1>9 DEF CreateStateTable, ControlOK, CreatesSoFar, StateImpliesSchema
<1>10. ASSUME EnsureStateTable PROVE Goal'
  BY <1>10 DEF EnsureStateTable, CreatesSoFar, StateImpliesSchema
<1>11. ASSUME ListPending PROVE Goal'
  BY <1>11 DEF ListPending, End, CreatesSoFar, StateImpliesSchema
<1>12. ASSUME NEW t \in Tables, Spawn(t) \/ Transfers(t) PROVE Goal'
  <2>1. pc = "transfer" /\ UNCHANGED <<pc, cfg, schema, sequences, stateTable, unread, whole>>
    BY <1>12
    DEF Spawn, Transfers, LoadProgress, WriteChunk, SaveProgress, MarkTableCompleted,
        TransferError, TransferHangs, ControlOK
  <2> QED
    BY <2>1 DEF CreatesSoFar, StateImpliesSchema
<1>13. ASSUME UNCHANGED vars PROVE Goal'
  BY <1>13 DEF vars, CreatesSoFar, StateImpliesSchema
<1> QED
  BY <1>2, <1>3, <1>4, <1>5, <1>6, <1>7, <1>8, <1>9, <1>10, <1>11, <1>12, <1>13
  DEF Next, MainStep

\* MigrationInv is an inductive invariant of Migration.
LEMMA MigrationInvariant == Spec => []MigrationInv
<1>1. Init => MigrationInv
  <2> SUFFICES ASSUME Init PROVE MigrationInv
    OBVIOUS
  <2>1. NoRecord.status = "absent" /\ NoRecord.cursor = 0 /\ NoConfig.tables = {}
    BY DEF NoRecord, NoConfig
  <2>2. TypeOK
    <3>1. record \in [Tables -> [status : {"absent", "progress", "completed"},
                                 cursor : 0..(NumChunks - 1)]]
      BY ChunksAssumption DEF Init, NoRecord
    <3>2. /\ data \in [Tables -> SUBSET AllChunks] /\ pos \in [Tables -> 0..NumChunks]
          /\ worker \in [Tables -> {"idle", "load", "write", "save", "mark", "returned",
                                    "failed", "hung"}]
      BY ChunksAssumption DEF Init
    <3>3. /\ cfg \in Modes \cup {NoConfig} /\ todo \subseteq cfg.tables
          /\ runs \in 0..MaxRuns /\ unread \subseteq AutoInc
          /\ schema \subseteq Tables /\ sequences \subseteq schema /\ orphaned \subseteq Tables
      BY RunsAssumption DEF Init
    <3> QED
      BY <3>1, <3>2, <3>3 DEF Init, TypeOK
  <2> QED
    BY <2>1, <2>2
    DEF Init, MigrationInv, ControlOK, OrphansGone, RecordsMatchData, WorkersTrue,
        PendingKnown, DoneMeansCompleted, DropsEmpty, CreatesSoFar, StateImpliesSchema
<1>2. MigrationInv /\ [Next]_vars => MigrationInv'
  BY TypeStep, ControlStep, RecordsStep, WorkersStep, PendingStep, DropsStep, CreatesStep
  DEF MigrationInv
<1> QED
  BY <1>1, <1>2, PTL DEF Spec

-----------------------------------------------------------------------------
(* The theorems.                                                           *)

\* Type correctness.
THEOREM MigrationTypes == Spec => []TypeOK
<1>1. MigrationInv => TypeOK
  BY DEF MigrationInv
<1> QED
  BY <1>1, MigrationInvariant, PTL

\* Whatever flags the runs were given, however they failed or were killed, a
\* state row never claims a chunk that is not in YDB, but for the tables that
\* an interrupted -force-recreate dropped.
THEOREM RecordsTheorem == Spec => []RecordsMatchData
<1>1. MigrationInv => RecordsMatchData
  BY DEF MigrationInv
<1> QED
  BY <1>1, MigrationInvariant, PTL

\* A run says "Done." only when every table it was asked for is recorded as
\* completed, with sequential and with parallel transfers.
THEOREM DoneTheorem == Spec => []DoneMeansCompleted
<1>1. MigrationInv => DoneMeansCompleted
  BY DEF MigrationInv
<1> QED
  BY <1>1, MigrationInvariant, PTL

\* When -force-recreate begins to create tables, no row and no record of an
\* earlier run is left that this run could take for its own.
THEOREM RecreateTheorem == Spec => []RecreateStartsClean
<1>1. MigrationInv => RecreateStartsClean
  BY DEF MigrationInv, ControlOK, OrphansGone, DropsEmpty, RecreateStartsClean
<1> QED
  BY <1>1, MigrationInvariant, PTL

\* If all runs were for all tables, with DDL and without drops, the state
\* table is a sign that the whole schema exists, as main takes it to be,
\* although a run may be killed between any two statements of the DDL.
THEOREM SchemaTheorem == Spec => []StateImpliesSchema
<1>1. MigrationInv => StateImpliesSchema
  BY DEF MigrationInv
<1> QED
  BY <1>1, MigrationInvariant, PTL

\* A table that an interrupted -force-recreate dropped stays dropped as long
\* as its state row survives: no later run creates it or writes to it, until
\* one drops the state table.
THEOREM OrphansTheorem == Spec => []OrphansGone
<1>1. MigrationInv => OrphansGone
  BY DEF MigrationInv
<1> QED
  BY <1>1, MigrationInvariant, PTL

\* Only -force and -force-recreate touch the row of a completed table.
THEOREM KeptTheorem == Spec => CompletedIsKept
<1> DEFINE Kept == \A t \in Tables :
             record[t].status = "completed" /\ record'[t] # record[t]
               => cfg.force \/ cfg.forceRecreate
<1>1. MigrationInv /\ [Next]_vars => [Kept]_vars
  <2> SUFFICES ASSUME MigrationInv, [Next]_vars PROVE Kept
    OBVIOUS
  <2> USE DEF durable, workers, history
  <2>1. ASSUME DropStateTable PROVE Kept
    BY <2>1 DEF DropStateTable, MigrationInv, ControlOK
  <2>2. ASSUME NEW t \in Tables, SaveProgress(t) \/ MarkTableCompleted(t) PROVE Kept
    <3>1. \A u \in Tables \ {t} : record'[u] = record[u]
      BY <2>2 DEF SaveProgress, MarkTableCompleted, MigrationInv, TypeOK
    <3>2. ~cfg.force => record[t].status # "completed"
      BY <2>2 DEF SaveProgress, MarkTableCompleted, MigrationInv, WorkersTrue
    <3> QED
      BY <3>1, <3>2
  <2>3. ASSUME UNCHANGED record PROVE Kept
    BY <2>3
  <2> QED
    BY <2>1, <2>2, <2>3
    DEF Next, MainStep, Transfers, Launch, Fatal, Kill, SchemaOnlyExit, Done, TransferFatal,
        CheckState, DropTable, DropsDone, CreateTable, AlterSequence, CreatesDone,
        CreateStateTable, EnsureStateTable, ListPending, Spawn, LoadProgress, WriteChunk,
        TransferError, TransferHangs, vars
<1> QED
  BY <1>1, MigrationInvariant, PTL DEF Spec, CompletedIsKept

\* Seen from table t, a step of the transfer of t.
LEMMA TransferCopies ==
    ASSUME MigrationInv, NEW t \in Tables, Transfers(t)
    PROVE  Promise(t)!Next \/ UNCHANGED <<data[t], record[t]>>
<1> USE DEF durable
<1>0. /\ NumChunks \in Nat \ {0} /\ data[t] \in SUBSET AllChunks
      /\ record[t] \in [status : {"absent", "progress", "completed"},
                        cursor : 0..(NumChunks - 1)]
      /\ data \in [Tables -> SUBSET AllChunks] /\ DOMAIN record = Tables
      /\ pos[t] \in 0..NumChunks
  BY ChunksAssumption DEF MigrationInv, TypeOK
<1>1. ASSUME WriteChunk(t) PROVE Promise(t)!Next
  <2>1. pos[t] + 1 \in AllChunks
    BY <1>0, <1>1 DEF WriteChunk, MigrationInv, ControlOK, AllChunks
  <2>2. data'[t] = data[t] \cup {pos[t] + 1} /\ record' = record
    BY <1>0, <1>1 DEF WriteChunk
  <2>3. Promise(t)!Copy
    BY <1>0, <2>1, <2>2 DEF Promise!Copy, Promise!record, AllChunks
  <2> QED
    BY <2>3 DEF Promise!Next
<1>2. ASSUME SaveProgress(t) PROVE Promise(t)!Next
  <2>1. /\ pos[t] < NumChunks /\ 1..pos[t] \subseteq data[t] /\ pos[t] + 1 \in data[t]
        /\ record[t].status = "progress" => record[t].cursor <= pos[t]
    BY <1>2 DEF SaveProgress, MigrationInv, ControlOK, WorkersTrue
  <2>2. 1..(pos[t] + 1) \subseteq data[t]
    BY <1>0, <2>1
  <2>3. /\ data' = data /\ record'[t].status = "progress"
        /\ record'[t].cursor = IF pos[t] + 1 = NumChunks THEN 0 ELSE pos[t] + 1
    BY <1>0, <1>2 DEF SaveProgress
  <2>4. CASE pos[t] + 1 = NumChunks
    <3>1. Promise(t)!Finish
      BY <1>0, <2>2, <2>3, <2>4 DEF Promise!Finish, Promise!Covers
    <3> QED
      BY <3>1 DEF Promise!Next
  <2>5. CASE pos[t] + 1 # NumChunks
    <3>1. Promise(t)!Advance
      BY <1>0, <2>1, <2>2, <2>3, <2>5 DEF Promise!Advance, Promise!Covers
    <3> QED
      BY <3>1 DEF Promise!Next
  <2> QED
    BY <2>4, <2>5
<1>3. ASSUME MarkTableCompleted(t) PROVE Promise(t)!Next
  <2>1. 1..NumChunks \subseteq data[t]
    BY <1>3 DEF MarkTableCompleted, MigrationInv, ControlOK, WorkersTrue
  <2>2. data' = data /\ record'[t].status = "completed" /\ record'[t].cursor = 0
    BY <1>0, <1>3 DEF MarkTableCompleted
  <2>3. Promise(t)!Finish
    BY <2>1, <2>2 DEF Promise!Finish, Promise!Covers
  <2> QED
    BY <2>3 DEF Promise!Next
<1>4. ASSUME LoadProgress(t) \/ TransferError(t) \/ TransferHangs(t)
      PROVE  UNCHANGED <<data[t], record[t]>>
  BY <1>4 DEF LoadProgress, TransferError, TransferHangs
<1> QED
  BY <1>1, <1>2, <1>3, <1>4 DEF Transfers

\* Through all runs and flags, the drops of -force-recreate aside, every table
\* and its state row are treated as TableCopy promises: chunks are only added,
\* checkpoints only advance, and no record runs ahead of its table.
THEOREM PromiseTheorem == Spec => TablesCopiedAsPromised
<1> DEFINE Promised(t) == [Promise(t)!Next]_<<data[t], record[t]>>
           Copied == pc \notin {"drop", "dropState"} => \A t \in Tables : Promised(t)
<1>1. ASSUME MigrationInv, [Next]_vars PROVE Copied
  <2> USE DEF durable, workers, history
  <2>1. ASSUME NEW t \in Tables, Transfers(t) PROVE Copied
    <3>1. \A u \in Tables \ {t} : data'[u] = data[u] /\ record'[u] = record[u]
      BY <1>1, <2>1
      DEF Transfers, LoadProgress, WriteChunk, SaveProgress, MarkTableCompleted,
          TransferError, TransferHangs, MigrationInv, TypeOK
    <3>2. Promise(t)!Next \/ UNCHANGED <<data[t], record[t]>>
      BY <1>1, <2>1, TransferCopies
    <3> QED
      BY <3>1, <3>2
  <2>2. ASSUME UNCHANGED <<data, record>> PROVE Copied
    BY <2>2
  <2>3. ASSUME DropsDone \/ DropStateTable \/ (\E t \in Tables : DropTable(t)) PROVE Copied
    BY <2>3 DEF DropsDone, DropStateTable, DropTable
  <2> QED
    BY <1>1, <2>1, <2>2, <2>3
    DEF Next, MainStep, Launch, Fatal, Kill, SchemaOnlyExit, Done, TransferFatal,
        CheckState, CreateTable, AlterSequence, CreatesDone, CreateStateTable,
        EnsureStateTable, ListPending, Spawn, vars
<1>2. MigrationInv /\ [Next]_vars => [Copied]_vars
  BY <1>1
<1> QED
  BY <1>2, MigrationInvariant, PTL DEF Spec, TablesCopiedAsPromised
=============================================================================
