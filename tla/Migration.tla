----------------------------- MODULE Migration -----------------------------
(***************************************************************************)
(* main: one run of the importer over all selected tables.  A run looks    *)
(* for the state table, may drop what a previous run left, creates the     *)
(* schema unless the state table says it is there, finds out which tables  *)
(* are still to be transferred and transfers them, one after the other or  *)
(* all at once.  Every call may fail, which ends the process (log.Fatalf), *)
(* and the process may be killed anywhere; the next run may be given other *)
(* flags.                                                                  *)
(*                                                                         *)
(* The transfer of a table is seen from outside: chunks written and        *)
(* checkpointed one by one, as module Transfer shows.                      *)
(***************************************************************************)
EXTENDS Integers, FiniteSets

CONSTANTS
    NumTables,  \* tables of the MySQL database, in the order of their names
    AutoInc,    \* those with an AUTO_INCREMENT column
    NumChunks,  \* chunks per table
    Modes,      \* the command lines a run may be started with
    MaxRuns     \* bound: how many times the importer is started

Tables == 1..NumTables

ASSUME TablesAssumption == NumTables \in Nat
ASSUME AutoIncAssumption == AutoInc \subseteq Tables
ASSUME ChunksAssumption == NumChunks \in Nat \ {0}
ASSUME RunsAssumption == MaxRuns \in Nat

\* Config: -schema-only, -data-only, -force, -force-recreate, -tables and
\* -parallel-tables.
Config == [schemaOnly : BOOLEAN, dataOnly : BOOLEAN, force : BOOLEAN,
           forceRecreate : BOOLEAN, tables : SUBSET Tables, parallelTables : Nat \ {0}]
ASSUME ModesAssumption == Modes \subseteq Config

VARIABLES
    (* durable, in YDB *)
    schema,      \* user tables that exist
    sequences,   \* tables whose serial column starts at AUTO_INCREMENT
    data,        \* data[t]: the chunks of t that are in its YDB table
    stateTable,  \* the state table exists
    record,      \* record[t]: the row of t in the state table
    (* the process *)
    runs,        \* runs started so far
    cfg,         \* the command line of the current run
    pc,          \* where main is; "down" when no run is active
    todo,        \* tables the current loop of main has not reached yet
    stateTableExists,  \* the local variable of that name
    worker,      \* worker[t]: where transferTable(t) is
    pos,         \* pos[t]: chunks of t this run can regard as written
    (* history *)
    outcome,     \* how the last run ended: "Done." printed, Fatalf, killed
    orphaned,    \* tables dropped while the state table still describes them
    unread,      \* tables whose AUTO_INCREMENT could not be read for their DDL
    whole        \* every run so far was for all tables, with DDL, without drops

durable == <<schema, sequences, data, stateTable, record>>
workers == <<worker, pos>>
history == <<unread, whole>>
vars == <<durable, runs, cfg, pc, todo, stateTableExists, workers, outcome, orphaned,
          history>>

NoRecord == [status |-> "absent", cursor |-> 0]
NoConfig == [schemaOnly |-> FALSE, dataOnly |-> FALSE, force |-> FALSE,
             forceRecreate |-> FALSE, tables |-> {}, parallelTables |-> 1]
AllChunks == 1..NumChunks

\* Loops over tables follow the order of resolveTables, by name.
IsNext(t) == t \in todo /\ \A u \in todo : t <= u

Init ==
    /\ schema = {} /\ sequences = {} /\ data = [t \in Tables |-> {}]
    /\ stateTable = FALSE /\ record = [t \in Tables |-> NoRecord]
    /\ runs = 0 /\ cfg = NoConfig /\ pc = "down" /\ todo = {}
    /\ stateTableExists = FALSE
    /\ worker = [t \in Tables |-> "idle"] /\ pos = [t \in Tables |-> 0]
    /\ outcome = "none" /\ orphaned = {} /\ unread = {} /\ whole = TRUE

-----------------------------------------------------------------------------
(* The process ends.                                                       *)

End(how) ==
    /\ pc' = "down" /\ todo' = {} /\ stateTableExists' = FALSE
    /\ worker' = [t \in Tables |-> "idle"] /\ pos' = [t \in Tables |-> 0]
    /\ outcome' = how
    /\ UNCHANGED <<runs, cfg>>

\* fatalYDB or log.Fatalf on an error of one of main's own calls.  The call
\* left nothing behind: one that took effect before it failed is the same
\* call followed by Kill.
Fatal ==
    /\ pc \in {"check", "drop", "dropState", "create", "sequence", "createState",
               "ensure", "list"}
    /\ pc = "list" => ~cfg.force
    /\ End("fatal")
    /\ UNCHANGED <<durable, orphaned, history>>

\* The process is killed.
Kill ==
    /\ pc # "down"
    /\ End("killed")
    /\ UNCHANGED <<durable, orphaned, history>>

-----------------------------------------------------------------------------
(* From the start of main to the decision about the schema.                *)

\* config.Parse, the two connections and resolveTables.
Launch(c) ==
    /\ pc = "down"
    /\ runs < MaxRuns
    /\ runs' = runs + 1
    /\ cfg' = c
    /\ pc' = "check"
    /\ outcome' = "none"
    /\ whole' = (whole /\ c.tables = Tables /\ ~c.dataOnly /\ ~c.forceRecreate)
    /\ UNCHANGED <<durable, todo, stateTableExists, workers, orphaned, unread>>

\* Whether the DDL is to be run, given what stateTableExists is.
CreatesSchema(exists) == ~cfg.dataOnly /\ ~exists

\* Where main goes once nothing more is to be dropped.
AfterDrops(exists) ==
    IF CreatesSchema(exists)
    THEN pc' = "create" /\ todo' = cfg.tables
    ELSE pc' = (IF cfg.schemaOnly THEN "exit" ELSE "ensure") /\ todo' = {}

\* StateTableExists, and the test of -force-recreate.
CheckState ==
    /\ pc = "check"
    /\ stateTableExists' = stateTable
    /\ IF cfg.forceRecreate /\ ~cfg.dataOnly
       THEN pc' = "drop" /\ todo' = cfg.tables
       ELSE AfterDrops(stateTable)
    /\ UNCHANGED <<durable, runs, cfg, workers, outcome, orphaned, history>>

\* DropTable of one user table; its sequence and its rows go with it.
DropTable(t) ==
    /\ pc = "drop" /\ IsNext(t)
    /\ schema' = schema \ {t}
    /\ sequences' = sequences \ {t}
    /\ data' = [data EXCEPT ![t] = {}]
    /\ orphaned' = IF record[t] # NoRecord THEN orphaned \cup {t} ELSE orphaned
    /\ todo' = todo \ {t}
    /\ UNCHANGED <<stateTable, record, runs, cfg, pc, stateTableExists, workers, outcome, history>>

DropsDone ==
    /\ pc = "drop" /\ todo = {}
    /\ pc' = "dropState"
    /\ UNCHANGED <<durable, runs, cfg, todo, stateTableExists, workers, outcome, orphaned, history>>

\* Mutant of DropStateTable: the rows of the other tables are kept.
DropStateTableForgotten ==
    /\ pc = "dropState"
    /\ stateTableExists' = FALSE
    /\ AfterDrops(FALSE)
    /\ UNCHANGED <<durable, runs, cfg, workers, outcome, orphaned, history>>

\* DropTable of the state table, and stateTableExists = false.
DropStateTable ==
    /\ pc = "dropState"
    /\ stateTable' = FALSE
    /\ record' = [t \in Tables |-> NoRecord]
    /\ orphaned' = {}
    /\ stateTableExists' = FALSE
    /\ AfterDrops(FALSE)
    /\ UNCHANGED <<schema, sequences, data, runs, cfg, workers, outcome, history>>

-----------------------------------------------------------------------------
(* The schema.                                                             *)

\* Mutant of CreatesDone: the state table is created before the last table.
StateTableFirst ==
    /\ pc = "create"
    /\ stateTable' = TRUE
    /\ pc' = IF todo = {} THEN "createState" ELSE "create"
    /\ UNCHANGED <<schema, sequences, data, record, runs, cfg, todo, stateTableExists,
                   workers, outcome, orphaned, history>>

\* LoadTableMeta and the CREATE TABLE IF NOT EXISTS of CreateTable.  An error
\* of the query for AUTO_INCREMENT is not reported: AutoIncrementNext stays 0
\* and the sequence is not altered (known is FALSE).
CreateTable(t, known) ==
    /\ pc = "create" /\ IsNext(t)
    /\ schema' = schema \cup {t}
    /\ IF t \in AutoInc /\ known
       THEN pc' = "sequence" /\ UNCHANGED todo
       ELSE UNCHANGED pc /\ todo' = todo \ {t}
    /\ unread' = IF t \in AutoInc /\ ~known THEN unread \cup {t} ELSE unread
    /\ UNCHANGED <<sequences, data, stateTable, record, runs, cfg, stateTableExists,
                   workers, outcome, orphaned, whole>>

\* The second statement of CreateTable: AlterSequence.
AlterSequence(t) ==
    /\ pc = "sequence" /\ IsNext(t)
    /\ sequences' = sequences \cup {t}
    /\ pc' = "create"
    /\ todo' = todo \ {t}
    /\ UNCHANGED <<schema, data, stateTable, record, runs, cfg, stateTableExists,
                   workers, outcome, orphaned, history>>

CreatesDone ==
    /\ pc = "create" /\ todo = {}
    /\ pc' = "createState"
    /\ UNCHANGED <<durable, runs, cfg, todo, stateTableExists, workers, outcome, orphaned, history>>

\* CreateStateTable after all user tables.
CreateStateTable ==
    /\ pc = "createState"
    /\ stateTable' = TRUE
    /\ pc' = IF cfg.schemaOnly THEN "exit" ELSE "ensure"
    /\ UNCHANGED <<schema, sequences, data, record, runs, cfg, todo, stateTableExists,
                   workers, outcome, orphaned, history>>

\* "Schema only, done.": os.Exit(0).
SchemaOnlyExit ==
    /\ pc = "exit"
    /\ End("schema")
    /\ UNCHANGED <<durable, orphaned, history>>

-----------------------------------------------------------------------------
(* The transfers.                                                          *)

\* CreateStateTable once more, for -data-only.
EnsureStateTable ==
    /\ pc = "ensure"
    /\ stateTable' = TRUE
    /\ pc' = "list"
    /\ UNCHANGED <<schema, sequences, data, record, runs, cfg, todo, stateTableExists,
                   workers, outcome, orphaned, history>>

\* Mutant of CompletedSet: the state table is never read.
NoCompletedSet == {}

\* GetCompletedTables, not called with -force.
CompletedSet ==
    IF cfg.force THEN {} ELSE {t \in Tables : record[t].status = "completed"}

\* pending; "All tables already migrated, nothing to do." when it is empty.
ListPending ==
    /\ pc = "list"
    /\ LET pending == cfg.tables \ CompletedSet IN
       IF pending = {}
       THEN End("done")
       ELSE /\ pc' = "transfer"
            /\ todo' = pending
            /\ UNCHANGED <<runs, cfg, stateTableExists, workers, outcome, history>>
    /\ UNCHANGED <<durable, orphaned, history>>

Active == {t \in Tables : worker[t] \in {"load", "write", "save", "mark", "hung"}}
Failed == {t \in Tables : worker[t] = "failed"}

\* The sequential loop calls transferTable when the previous call returned
\* without error; with -parallel-tables above 1 one goroutine per pending
\* table is started.
Spawn(t) ==
    /\ pc = "transfer" /\ IsNext(t)
    /\ cfg.parallelTables <= 1 => Active = {} /\ Failed = {}
    /\ todo' = todo \ {t}
    /\ worker' = [worker EXCEPT ![t] = "load"]
    /\ UNCHANGED <<durable, runs, cfg, pc, stateTableExists, pos, outcome, orphaned, history>>

\* LoadTableMeta, GetProgress; resumes at the cursor of a record in progress.
LoadProgress(t) ==
    /\ worker[t] = "load"
    /\ pos' = [pos EXCEPT ![t] =
                   IF record[t].status = "progress" THEN record[t].cursor ELSE 0]
    /\ worker' = [worker EXCEPT ![t] = "write"]
    /\ UNCHANGED <<durable, runs, cfg, pc, todo, stateTableExists, outcome, orphaned, history>>

\* WriteChunk of the next chunk, which needs the YDB table.
WriteChunk(t) ==
    /\ worker[t] = "write"
    /\ t \in schema
    /\ data' = [data EXCEPT ![t] = @ \cup {pos[t] + 1}]
    /\ worker' = [worker EXCEPT ![t] = "save"]
    /\ UNCHANGED <<schema, sequences, stateTable, record, runs, cfg, pc, todo,
                   stateTableExists, pos, outcome, orphaned, history>>

\* Mutant of SaveProgress: the cursor of the chunk after the next is saved.
SaveProgressAhead(t) ==
    /\ worker[t] = "save"
    /\ LET next == pos[t] + 1 IN
       /\ record' = [record EXCEPT ![t] =
                        [status |-> "progress",
                         cursor |-> IF next = NumChunks THEN 0 ELSE next + 1]]
       /\ pos' = [pos EXCEPT ![t] = next]
       /\ worker' = [worker EXCEPT ![t] = IF next = NumChunks THEN "mark" ELSE "write"]
    /\ UNCHANGED <<schema, sequences, data, stateTable, runs, cfg, pc, todo,
                   stateTableExists, outcome, orphaned, history>>

\* SaveProgress after the chunk; the last chunk saves the cursor "[]".
SaveProgress(t) ==
    /\ worker[t] = "save"
    /\ LET next == pos[t] + 1 IN
       /\ record' = [record EXCEPT ![t] =
                        [status |-> "progress",
                         cursor |-> IF next = NumChunks THEN 0 ELSE next]]
       /\ pos' = [pos EXCEPT ![t] = next]
       /\ worker' = [worker EXCEPT ![t] = IF next = NumChunks THEN "mark" ELSE "write"]
    /\ UNCHANGED <<schema, sequences, data, stateTable, runs, cfg, pc, todo,
                   stateTableExists, outcome, orphaned, history>>

\* MarkTableCompleted; transferTable returns nil.
MarkTableCompleted(t) ==
    /\ worker[t] = "mark"
    /\ record' = [record EXCEPT ![t] = [status |-> "completed", cursor |-> 0]]
    /\ worker' = [worker EXCEPT ![t] = "returned"]
    /\ UNCHANGED <<schema, sequences, data, stateTable, runs, cfg, pc, todo,
                   stateTableExists, pos, outcome, orphaned, history>>

\* transferTable returns an error from any of its calls.
TransferError(t) ==
    /\ worker[t] \in {"load", "write", "save", "mark"}
    /\ worker' = [worker EXCEPT ![t] = "failed"]
    /\ UNCHANGED <<durable, runs, cfg, pc, todo, stateTableExists, pos, outcome, orphaned, history>>

\* A read error with the writer idle: transferTable never returns.
TransferHangs(t) ==
    /\ worker[t] = "write"
    /\ worker' = [worker EXCEPT ![t] = "hung"]
    /\ UNCHANGED <<durable, runs, cfg, pc, todo, stateTableExists, pos, outcome, orphaned, history>>

\* Mutant of Done: the error of g.Wait() is ignored.
DoneDespiteErrors ==
    /\ pc = "transfer" /\ todo = {} /\ Active = {}
    /\ End("done")
    /\ UNCHANGED <<durable, orphaned, history>>

\* All transfers returned nil: "Done.".
Done ==
    /\ pc = "transfer" /\ todo = {} /\ Active = {} /\ Failed = {}
    /\ End("done")
    /\ UNCHANGED <<durable, orphaned, history>>

\* Mutant of TransferFatal: an error of a parallel transfer is not collected.
SequentialFatalOnly ==
    /\ pc = "transfer" /\ Failed # {} /\ Active = {}
    /\ cfg.parallelTables <= 1
    /\ End("fatal")
    /\ UNCHANGED <<durable, orphaned, history>>

\* A transfer failed.  The sequential loop stops there; the errgroup of the
\* parallel one, which has no context, first waits for all the others.
TransferFatal ==
    /\ pc = "transfer" /\ Failed # {} /\ Active = {}
    /\ cfg.parallelTables > 1 => todo = {}
    /\ End("fatal")
    /\ UNCHANGED <<durable, orphaned, history>>

-----------------------------------------------------------------------------
Transfers(t) ==
    \/ LoadProgress(t) \/ WriteChunk(t) \/ SaveProgress(t) \/ MarkTableCompleted(t)
    \/ TransferError(t) \/ TransferHangs(t)

MainStep ==
    \/ CheckState \/ DropsDone \/ DropStateTable \/ CreatesDone \/ CreateStateTable
    \/ SchemaOnlyExit \/ EnsureStateTable \/ ListPending \/ Done \/ TransferFatal \/ Fatal
    \/ \E t \in Tables : DropTable(t) \/ AlterSequence(t) \/ Spawn(t)
    \/ \E t \in Tables, known \in BOOLEAN : CreateTable(t, known)

Next ==
    \/ \E c \in Modes : Launch(c)
    \/ MainStep
    \/ \E t \in Tables : Transfers(t)
    \/ Kill

\* main and every goroutine that can run do run; calls return.
Fairness ==
    /\ WF_vars(MainStep)
    /\ \A t \in Tables : WF_vars(Transfers(t))

Spec == Init /\ [][Next]_vars
FairSpec == Spec /\ Fairness

-----------------------------------------------------------------------------
(* Properties.                                                             *)

TypeOK ==
    /\ schema \subseteq Tables /\ sequences \subseteq schema
    /\ data \in [Tables -> SUBSET AllChunks]
    /\ stateTable \in BOOLEAN
    /\ record \in [Tables -> [status : {"absent", "progress", "completed"},
                              cursor : 0..(NumChunks - 1)]]
    /\ runs \in 0..MaxRuns
    /\ cfg \in Modes \cup {NoConfig}
    /\ pc \in {"down", "check", "drop", "dropState", "create", "sequence", "createState",
               "exit", "ensure", "list", "transfer"}
    /\ todo \subseteq cfg.tables
    /\ stateTableExists \in BOOLEAN
    /\ worker \in [Tables -> {"idle", "load", "write", "save", "mark", "returned",
                              "failed", "hung"}]
    /\ pos \in [Tables -> 0..NumChunks]
    /\ outcome \in {"none", "schema", "done", "fatal", "killed"}
    /\ orphaned \subseteq Tables /\ unread \subseteq AutoInc /\ whole \in BOOLEAN

\* A record never claims data that is not there, through any sequence of
\* runs, flags, failures and kills: all chunks of a completed table, and the
\* chunks before the cursor of one in progress.  The exception is a table
\* dropped by an interrupted -force-recreate (see CompletedIsMigrated).
RecordsMatchData ==
    \A t \in Tables \ orphaned :
      /\ record[t].status = "completed" => data[t] = AllChunks
      /\ record[t].status = "progress" => 1..record[t].cursor \subseteq data[t]

\* A run that ends with "Done." or "nothing to do" leaves every table it was
\* asked for recorded as completed: no error of a transfer, sequential or
\* parallel, is lost on the way.
DoneMeansCompleted ==
    outcome = "done" => \A t \in cfg.tables : record[t].status = "completed"

\* When -force-recreate begins to create tables, nothing the earlier runs
\* left can be mistaken for progress: no state table, no record of any
\* table, no row in the tables it creates.
RecreateStartsClean ==
    cfg.forceRecreate /\ pc \in {"create", "sequence", "createState"} =>
      /\ ~stateTable
      /\ \A t \in Tables : record[t] = NoRecord
      /\ \A t \in cfg.tables : data[t] = {}

\* A completed table stays recorded as completed until a run that was given
\* -force or -force-recreate.
CompletedIsKept ==
    [][\A t \in Tables :
         record[t].status = "completed" /\ record'[t] # record[t]
           => cfg.force \/ cfg.forceRecreate]_vars

\* Every run ends, with all failures reported, unless a transfer hangs.
RunEnds == (pc # "down") ~> (pc = "down" \/ \E t \in Tables : worker[t] = "hung")

\* main.go: "If state table exists, schema was already created in a previous
\* run".  A kill between two statements of the DDL leaves no state table, so
\* that the next run repeats it: every table is there, and the only sequences
\* missing are those whose AUTO_INCREMENT some run failed to read.
StateImpliesSchema ==
    whole /\ stateTable => schema = Tables /\ AutoInc \ unread \subseteq sequences

\* The transfer of table t as module Transfer promises it, in chunks.
Promise(t) == INSTANCE TableCopy WITH
    Pieces <- NumChunks, Excuses <- {{}}, copied <- data[t],
    status <- record[t].status, upto <- record[t].cursor, excused <- {}

\* The transfers of a run, sequential or parallel, resumed or forced, treat
\* each table and its record as the transfer of one table does: nothing main
\* does around them, the drops of -force-recreate aside, takes back a chunk
\* or a checkpoint or lets a record run ahead of its table.
TablesCopiedAsPromised ==
    [][pc \notin {"drop", "dropState"} =>
         \A t \in Tables : [Promise(t)!Next]_<<data[t], record[t]>>]_vars

-----------------------------------------------------------------------------
(* What the documentation says and the code does not do.                   *)

\* MarkTableCompleted: "records that the table was successfully migrated".
CompletedIsMigrated ==
    \A t \in Tables : record[t].status = "completed" => data[t] = AllChunks
=============================================================================
