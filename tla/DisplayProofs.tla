---------------------------- MODULE DisplayProofs ----------------------------
(* Theorems about Display, for any number of tables and chunks.            *)
EXTENDS Display, TLAPS

-----------------------------------------------------------------------------
(* The inductive invariant.                                                *)

Bars == [Tables -> [rows : Nat, done : BOOLEAN]]

TypeOK ==
    /\ initial \in [Tables -> Nat]
    /\ worker \in [Tables -> {"idle", "chunk", "update", "save", "setDone",
                              "returned", "failed"}]
    /\ written \in [Tables -> Nat]
    /\ completed \in [Tables -> BOOLEAN]
    /\ main \in {"wait", "redraw", "print", "exit", "exited"}
    /\ shown \in Bars
    /\ frame \in [run : Bars, stop : Bars]

\* Between a transfer and its bar only the call that is about to be made.
BarsTrue ==
    \A t \in Tables :
        /\ worker[t] \notin {"update", "setDone"} => shown[t].rows = Reported(t)
        /\ worker[t] # "setDone" => shown[t].done = completed[t]
        /\ worker[t] = "setDone" => completed[t]
        /\ worker[t] = "update" => written[t] > 0

\* Without -parallel-tables a table begins when those before it are done.
OneByOne ==
    ~parallel => \A t, u \in Tables :
                    u < t /\ worker[t] # "idle" => worker[u] = "returned"

\* Once main stops waiting no transfer is under way.
Settled == \A t \in Tables : worker[t] \in {"idle", "returned", "failed"}
AllSettled == main # "wait" => stopped /\ Settled

\* The final frame is drawn from the fields as they stay.
FinalFrame ==
    /\ main \in {"print", "exit", "exited"} => frame.stop = shown
    /\ main \in {"exit", "exited"} /\ late = 0 => screen = shown

\* After a frame drawn late, Run is back at the test of stopped.
LateOnce ==
    /\ late = 0 \/ late = 1
    /\ late = 1 => stopped /\ loop \in {"wait", "returned"}

DisplayInv == TypeOK /\ BarsTrue /\ OneByOne /\ AllSettled /\ FinalFrame /\ LateOnce

-----------------------------------------------------------------------------

\* A transfer that moves has begun, or begins while main waits for it.
LEMMA TransferMoves ==
    ASSUME AllSettled, NEW t \in Tables, Transfer(t)
    PROVE  main = "wait" /\ UNCHANGED <<main, stopped, setup, loop, frame, screen, late>>
BY DEF AllSettled, Settled, Transfer, Begin, WriteChunk, Update, SaveProgress,
       MarkTableCompleted, SetDone, Fail, At, fields

\* The steps of Stop and Run leave the transfers and their bars alone.
LEMMA OthersFrame ==
    Stop \/ Run \/ UNCHANGED vars =>
    UNCHANGED <<parallel, initial, worker, written, completed, shown>>
BY DEF Stop, Run, SetStopped, StopCopies, StopPrints, Exit, Tick, RunCopies, RunPrints, vars,
       transfers, setup, fields

\* The types are preserved.
LEMMA TypeStep == TypeOK /\ [Next]_vars => TypeOK'
<1> SUFFICES ASSUME TypeOK, [Next]_vars PROVE TypeOK'
  OBVIOUS
<1>1. ASSUME NEW t \in Tables, Transfer(t) PROVE TypeOK'
  <2>1. /\ worker' \in [Tables -> {"idle", "chunk", "update", "save", "setDone",
                                   "returned", "failed"}]
        /\ UNCHANGED <<initial, main, frame>>
    BY <1>1 DEF TypeOK, Transfer, Begin, WriteChunk, Update, SaveProgress,
                MarkTableCompleted, SetDone, Fail, At, setup
  <2>2. written' \in [Tables -> Nat]
    BY <1>1 DEF TypeOK, Transfer, Begin, WriteChunk, Update, SaveProgress,
                MarkTableCompleted, SetDone, Fail
  <2>3. completed' \in [Tables -> BOOLEAN]
    <3>1. completed' = completed \/ completed' = [completed EXCEPT ![t] = TRUE]
      BY <1>1 DEF Transfer, Begin, WriteChunk, Update, SaveProgress,
                  MarkTableCompleted, SetDone, Fail
    <3> QED
      BY <3>1 DEF TypeOK
  <2>4. shown' \in Bars
    <3>1. Total(t) \in Nat /\ shown[t] \in [rows : Nat, done : BOOLEAN]
      <4>1. initial[t] \in Nat /\ written[t] \in Nat
        BY DEF TypeOK
      <4> QED
        BY <4>1 DEF TypeOK, Bars, Total
    <3>2. CASE Update(t)
      <4>1. [shown[t] EXCEPT !.rows = Total(t)] \in [rows : Nat, done : BOOLEAN]
        BY <3>1
      <4>2. shown' = [shown EXCEPT ![t] = [shown[t] EXCEPT !.rows = Total(t)]]
        BY <3>2, <3>1 DEF Update, TypeOK, Bars
      <4> QED
        BY <4>1, <4>2 DEF TypeOK, Bars
    <3>3. CASE SetDone(t)
      <4>1. [rows |-> Total(t), done |-> TRUE] \in [rows : Nat, done : BOOLEAN]
        BY <3>1
      <4> QED
        BY <3>3, <4>1 DEF SetDone, TypeOK, Bars
    <3>4. CASE ~Update(t) /\ ~SetDone(t)
      BY <1>1, <3>4 DEF Transfer, Begin, WriteChunk, SaveProgress, MarkTableCompleted, Fail,
                        TypeOK, fields
    <3> QED
      BY <3>2, <3>3, <3>4
  <2> QED
    BY <2>1, <2>2, <2>3, <2>4 DEF TypeOK
<1>2. ASSUME Stop \/ Run \/ UNCHANGED vars PROVE TypeOK'
  <2>1. UNCHANGED <<initial, worker, written, completed, shown>>
    BY <1>2, OthersFrame
  <2>2. main' \in {"wait", "redraw", "print", "exit", "exited"}
    BY <1>2 DEF Stop, Run, SetStopped, StopCopies, StopPrints, Exit, Tick, RunCopies,
                RunPrints, vars, TypeOK
  <2>3. frame' \in [run : Bars, stop : Bars]
    BY <1>2 DEF Stop, Run, SetStopped, StopCopies, StopPrints, Exit, Tick, RunCopies,
                RunPrints, vars, TypeOK
  <2> QED
    BY <2>1, <2>2, <2>3 DEF TypeOK
<1> QED
  BY <1>1, <1>2 DEF Next

\* Every bar stays true of its transfer.
LEMMA BarsStep ==
    ASSUME TypeOK, BarsTrue, [Next]_vars
    PROVE  BarsTrue'
<1>1. ASSUME NEW t \in Tables, Transfer(t) PROVE BarsTrue'
  <2>1. ASSUME NEW u \in Tables, u # t
        PROVE  UNCHANGED <<initial[u], worker[u], written[u], completed[u], shown[u]>>
    BY <1>1, <2>1 DEF Transfer, Begin, WriteChunk, Update, SaveProgress,
                      MarkTableCompleted, SetDone, Fail, At, fields, setup, TypeOK, Bars
  <2>2. /\ worker'[t] \notin {"update", "setDone"} => shown'[t].rows = Reported(t)'
        /\ worker'[t] # "setDone" => shown'[t].done = completed'[t]
        /\ worker'[t] = "setDone" => completed'[t]
        /\ worker'[t] = "update" => written'[t] > 0
    <3> USE DEF TypeOK, Bars, At, BarsTrue, Reported, Total, setup
    <3>1. CASE Begin(t) \/ SaveProgress(t) \/ Fail(t)
      BY <3>1 DEF Begin, SaveProgress, Fail, fields
    <3>2. CASE WriteChunk(t)
      BY <3>2 DEF WriteChunk, fields
    <3>3. CASE Update(t)
      BY <3>3 DEF Update
    <3>4. CASE MarkTableCompleted(t)
      BY <3>4 DEF MarkTableCompleted, fields
    <3>5. CASE SetDone(t)
      BY <3>5 DEF SetDone
    <3> QED
      BY <1>1, <3>1, <3>2, <3>3, <3>4, <3>5 DEF Transfer
  <2>3. ASSUME NEW u \in Tables, u # t PROVE Reported(u)' = Reported(u)
    BY <2>1, <2>3 DEF Reported, Total
  <2> QED
    BY <2>1, <2>2, <2>3 DEF BarsTrue
<1>2. ASSUME Stop \/ Run \/ UNCHANGED vars PROVE BarsTrue'
  BY <1>2, OthersFrame DEF BarsTrue, Reported, Total
<1> QED
  BY <1>1, <1>2 DEF Next

\* The order of a sequential run is kept.
LEMMA OrderStep ==
    ASSUME TypeOK, OneByOne, [Next]_vars
    PROVE  OneByOne'
<1>1. ASSUME NEW t \in Tables, Transfer(t) PROVE OneByOne'
  <2>1. /\ parallel' = parallel /\ \A u \in Tables : u # t => worker'[u] = worker[u]
        /\ worker[t] # "returned"
        /\ worker[t] = "idle" =>
             parallel \/ \A u \in Tables : u < t => worker[u] = "returned"
    BY <1>1 DEF Transfer, Begin, WriteChunk, Update, SaveProgress, MarkTableCompleted,
                SetDone, Fail, At, setup, TypeOK
  <2> QED
    BY <2>1 DEF OneByOne, Tables
<1>2. ASSUME Stop \/ Run \/ UNCHANGED vars PROVE OneByOne'
  BY <1>2, OthersFrame DEF OneByOne
<1> QED
  BY <1>1, <1>2 DEF Next

\* When main stops waiting, the tables that have begun are over: of all tables
\* with -parallel-tables, and up to the one that failed without.
LEMMA OverSettles ==
    ASSUME TypeOK, OneByOne, TransfersOver
    PROVE  Settled
<1>1. CASE \A t \in Tables : Over(t)
  BY <1>1 DEF Over, Settled
<1>2. CASE ~parallel /\ \E t \in Tables : worker[t] = "failed"
  <2>1. PICK t \in Tables : worker[t] = "failed"
    BY <1>2
  <2>2. ASSUME NEW u \in Tables PROVE worker[u] \in {"idle", "returned", "failed"}
    <3>1. u < t \/ u = t \/ t < u
      BY DisplayAssumption DEF Tables
    <3> QED
      BY <1>2, <2>1, <3>1 DEF OneByOne
  <2> QED
    BY <2>2 DEF Settled
<1> QED
  BY <1>1, <1>2 DEF TransfersOver

\* Nothing moves once main has stopped waiting.
LEMMA SettledStep ==
    ASSUME TypeOK, OneByOne, AllSettled, [Next]_vars
    PROVE  AllSettled'
<1>1. ASSUME NEW t \in Tables, Transfer(t) PROVE AllSettled'
  BY <1>1, TransferMoves DEF AllSettled, setup
<1>2. ASSUME SetStopped PROVE AllSettled'
  BY <1>2, OverSettles DEF SetStopped, AllSettled, Settled, transfers
<1>3. ASSUME StopCopies \/ StopPrints \/ Exit \/ Run \/ UNCHANGED vars PROVE AllSettled'
  <2>1. stopped' = stopped /\ worker' = worker
    BY <1>3 DEF StopCopies, StopPrints, Exit, Run, Tick, RunCopies, RunPrints, vars,
                transfers, fields
  <2>2. main' # "wait" => main # "wait"
    BY <1>3 DEF StopCopies, StopPrints, Exit, Run, Tick, RunCopies, RunPrints, vars
  <2> QED
    BY <2>1, <2>2 DEF AllSettled, Settled
<1> QED
  BY <1>1, <1>2, <1>3 DEF Next, Stop

\* The final frame is the one that stays.
LEMMA FinalStep ==
    ASSUME TypeOK, AllSettled, LateOnce, FinalFrame, [Next]_vars
    PROVE  FinalFrame'
<1>1. ASSUME NEW t \in Tables, Transfer(t) PROVE FinalFrame'
  BY <1>1, TransferMoves DEF FinalFrame
<1>2. ASSUME SetStopped PROVE FinalFrame'
  BY <1>2 DEF SetStopped, FinalFrame
<1>3. ASSUME StopCopies PROVE FinalFrame'
  BY <1>3 DEF StopCopies, FinalFrame, fields, TypeOK
<1>4. ASSUME StopPrints \/ Exit \/ Tick \/ UNCHANGED vars PROVE FinalFrame'
  BY <1>4 DEF StopPrints, Exit, Tick, FinalFrame, fields, vars
<1>5. ASSUME RunCopies PROVE FinalFrame'
  <2>1. frame'.stop = frame.stop
    BY <1>5 DEF RunCopies, TypeOK
  <2> QED
    BY <1>5, <2>1 DEF RunCopies, FinalFrame, fields
<1>6. ASSUME RunPrints PROVE FinalFrame'
  <2>1. UNCHANGED <<main, frame, shown>>
    BY <1>6 DEF RunPrints, fields
  <2>2. main # "wait" => late' # 0
    BY <1>6 DEF RunPrints, AllSettled, LateOnce
  <2> QED
    BY <2>1, <2>2 DEF FinalFrame
<1> QED
  BY <1>1, <1>2, <1>3, <1>4, <1>5, <1>6 DEF Next, Stop, Run

\* Run draws at most one more frame.
LEMMA LateStep ==
    ASSUME TypeOK, AllSettled, LateOnce, [Next]_vars
    PROVE  LateOnce'
<1>1. ASSUME NEW t \in Tables, Transfer(t) PROVE LateOnce'
  BY <1>1, TransferMoves DEF LateOnce
<1>2. ASSUME Stop \/ UNCHANGED vars PROVE LateOnce'
  BY <1>2 DEF Stop, SetStopped, StopCopies, StopPrints, Exit, LateOnce, fields, vars
<1>3. ASSUME Tick \/ RunCopies PROVE LateOnce'
  BY <1>3 DEF Tick, RunCopies, LateOnce, fields
<1>4. ASSUME RunPrints PROVE LateOnce'
  BY <1>4 DEF RunPrints, LateOnce, fields
<1> QED
  BY <1>1, <1>2, <1>3, <1>4 DEF Next, Run

-----------------------------------------------------------------------------

\* DisplayInv is inductive.
LEMMA DisplayInvariant == Spec => []DisplayInv
<1>1. ASSUME Init PROVE DisplayInv
  <2>1. Empty \in Bars /\ \A t \in Tables : Empty[t] = [rows |-> 0, done |-> FALSE]
    BY DEF Empty, Bars
  <2>2. /\ initial \in [Tables -> InitialTotals]
        /\ worker = [t \in Tables |-> "idle"]
        /\ written = [t \in Tables |-> 0]
        /\ completed = [t \in Tables |-> FALSE]
        /\ main = "wait" /\ shown = Empty /\ late = 0
        /\ frame = [run |-> Empty, stop |-> Empty]
    BY <1>1, Zenon DEF Init
  <2>3. TypeOK
    BY <2>1, <2>2, DisplayAssumption DEF TypeOK
  <2>4. BarsTrue
    <3>1. ASSUME NEW t \in Tables
          PROVE  /\ worker[t] = "idle" /\ written[t] = 0 /\ completed[t] = FALSE
                 /\ shown[t].rows = 0 /\ shown[t].done = FALSE
      BY <2>1, <2>2
    <3>2. ASSUME NEW t \in Tables PROVE Reported(t) = 0
      <4>1. ~completed[t] /\ written[t] = 0
        BY <3>1, Zenon
      <4>2. ~(0 > 0)
        OBVIOUS
      <4> QED
        BY <4>1, <4>2, Zenon DEF Reported
    <3> QED
      BY <3>1, <3>2 DEF BarsTrue
  <2>5. OneByOne
    BY <2>2 DEF OneByOne
  <2>6. AllSettled /\ FinalFrame /\ LateOnce
    BY <2>2 DEF AllSettled, FinalFrame, LateOnce
  <2> QED
    BY <2>3, <2>4, <2>5, <2>6 DEF DisplayInv
<1>2. ASSUME DisplayInv, [Next]_vars PROVE DisplayInv'
  BY <1>2, TypeStep, BarsStep, OrderStep, SettledStep, FinalStep, LateStep DEF DisplayInv
<1> QED
  BY <1>1, <1>2, PTL DEF Spec

\* At most one frame is drawn after the display was stopped.
THEOREM LateTheorem == Spec => []OneLateFrame
<1>1. DisplayInv => OneLateFrame
  BY DEF DisplayInv, LateOnce, OneLateFrame
<1> QED
  BY <1>1, DisplayInvariant, PTL

\* Unless a late frame came after it, the last frame tells of every table,
\* resumed or not, the rows reported of it and whether it was completed, on
\* success and on failure.
THEOREM FinalTheorem == Spec => []FinalScreen
<1>1. ASSUME DisplayInv, main = "exited", late = 0
      PROVE  screen = [t \in Tables |-> [rows |-> Reported(t), done |-> completed[t]]]
  <2>1. screen = shown /\ shown \in [Tables -> [rows : Nat, done : BOOLEAN]]
    BY <1>1 DEF DisplayInv, FinalFrame, TypeOK, Bars
  <2>2. ASSUME NEW t \in Tables
        PROVE  shown[t] = [rows |-> Reported(t), done |-> completed[t]]
    <3>1. shown[t].rows = Reported(t) /\ shown[t].done = completed[t]
      BY <1>1 DEF DisplayInv, AllSettled, Settled, BarsTrue
    <3>2. shown[t] \in [rows : Nat, done : BOOLEAN]
      BY <2>1
    <3> QED
      BY <3>1, <3>2
  <2> QED
    BY <2>1, <2>2
<1>2. DisplayInv => FinalScreen
  BY <1>1 DEF FinalScreen
<1> QED
  BY <1>2, DisplayInvariant, PTL
=============================================================================
