------------------------- MODULE DuckDBQueueProofs -------------------------
(***************************************************************************)
(* Theorems about the write-through queue, for every value of the          *)
(* constants, in this order:                                               *)
(*   TypeCorrect, AckCorrect                                               *)
(*   RowsResolved        who may delete a pending row                      *)
(*   AcceptedKept        what is accepted has a row                        *)
(*   OneAtATime          who runs operations                               *)
(*   NoRowWaitsInVain    in whose hands a pending row is                   *)
(*   ServerInv           one enable() per process, no early calls: a task  *)
(*                       is in one place, a call knows how far it got      *)
(*   RefusalIsClean, AckIsFinal, InRealTimeOrder                           *)
(*   KeepsThePromise     the refinement of DurableWrites                   *)
(*   CrashesExplainDuplicates                                              *)
(***************************************************************************)
EXTENDS DuckDBQueueProps, FiniteSetTheorems, TLAPS

\* Counting one more run of a work keeps the counters natural numbers.
LEMMA Bump ==
  ASSUME NEW S, NEW f \in [S -> Nat], NEW x
  PROVE  [f EXCEPT ![x] = @ + 1] \in [S -> Nat]
<1>1. CASE x \in S BY <1>1
<1>2. CASE x \notin S BY <1>2
<1> QED BY <1>1, <1>2

\* Whoever puts a task into the queue when there is room keeps its bound.
LEMMA PutType ==
  ASSUME TypeOK, HasRoom, NEW e \in Entries, queue' = Append(queue, e)
  PROVE  queue' \in Seq(Entries) /\ Len(queue') <= MaxBacklog
<1>1. queue \in Seq(Entries) BY DEF TypeOK
<1>2. Len(queue') = Len(queue) + 1 /\ queue' \in Seq(Entries) BY <1>1
<1> QED BY <1>1, <1>2, QueueAssumption DEF HasRoom

\* Inserting a row keeps the table well typed.
LEMMA PersistType ==
  ASSUME TypeOK, NEW t \in Tasks, PersistWal(t)
  PROVE  wal' \in [Tasks -> RowStates] /\ older' \in [Tasks -> SUBSET Tasks]
<1>1. wal \in [Tasks -> RowStates] /\ older \in [Tasks -> SUBSET Tasks] BY DEF TypeOK
<1>2. CASE conn = "open"
  <2>1. wal' \in [Tasks -> RowStates] BY <1>1, <1>2 DEF PersistWal, RowStates
  <2> DEFINE present == {u \in Tasks : wal[u] # "none"}
  <2>2. present \in SUBSET Tasks OBVIOUS
  <2>3. older' = [older EXCEPT ![t] = present] BY <1>2 DEF PersistWal
  <2> HIDE DEF present
  <2>4. older' \in [Tasks -> SUBSET Tasks] BY <1>1, <2>2, <2>3
  <2> QED BY <2>1, <2>4
<1>3. CASE conn # "open" BY <1>1, <1>3 DEF PersistWal
<1> QED BY <1>2, <1>3

LEMMA InitType == Init => TypeOK
<1> SUFFICES ASSUME Init PROVE TypeOK
  OBVIOUS
<1> USE QueueAssumption DEF Init
<1>1. wal \in [Tasks -> RowStates] BY DEF RowStates
<1>2. older \in [Tasks -> SUBSET Tasks] OBVIOUS
<1>3. /\ copyOf \in [ReplayIds -> Works \union {None}]
      /\ applied \in [Works -> Nat]
  OBVIOUS
<1>4. queue \in Seq(Entries) /\ Len(queue) <= MaxBacklog OBVIOUS
<1>5. /\ life \in LifeStates /\ replay \in SUBSET Tasks
      /\ cur \in Workers \union {None}
  BY DEF LifeStates
<1>6. /\ wpc \in [Workers -> WorkerPcs]
      /\ wtask \in [Workers -> Entries \union {None}]
      /\ wtry \in [Workers -> 0..MaxRetries]
      /\ wok \in [Workers -> BOOLEAN]
  BY DEF WorkerPcs
<1>7. /\ call \in [Works -> CallPcs]
      /\ event \in [Works -> {"unset", "ok", "error"}]
  BY DEF CallPcs
<1>8. dlq \in {DlqIdle} \union [pc : {"retire", "put", "full"}, old : Tasks,
                              new : ReplayIds]
  OBVIOUS
<1>9. ahead \in [Works -> SUBSET Works] OBVIOUS
<1>10. cleared \in SUBSET Works OBVIOUS
<1>11. crashes \in 0..MaxCrashes /\ disables \in 0..MaxDisables OBVIOUS
<1>12. outlived \in SUBSET Workers OBVIOUS
<1> QED BY <1>1, <1>2, <1>3, <1>4, <1>5, <1>6, <1>7, <1>8, <1>9, <1>10, <1>11,
  <1>12 DEF TypeOK

\* Under each action, the conjuncts of TypeOK that it can disturb.
LEMMA NextType == TypeOK /\ [Next]_vars => TypeOK'
<1> SUFFICES ASSUME TypeOK, [Next]_vars PROVE TypeOK'
  OBVIOUS
<1> USE DEF walVars, store, confVars, lifeVars, workVars, callVars, restVars
<1>1. CASE LifeStep
  <2>1. CASE Enable BY <2>1 DEF Enable, TypeOK, LifeStates
  <2>2. CASE ReplaySelect
    <3>1. replay' \in SUBSET Tasks /\ life' \in LifeStates
      BY <2>2 DEF ReplaySelect, Unfinished, LifeStates
    <3> QED BY <2>2, <3>1 DEF ReplaySelect, TypeOK
  <2>3. CASE ReplayPut
    <3>1. PICK t \in replay : /\ queue' = Append(queue, [id |-> t, ev |-> FALSE])
                              /\ replay' = replay \ {t}
      BY <2>3 DEF ReplayPut
    <3>2. [id |-> t, ev |-> FALSE] \in Entries BY <3>1 DEF TypeOK, Entries
    <3>3. queue' \in Seq(Entries) /\ Len(queue') <= MaxBacklog
      BY <2>3, <3>1, <3>2, PutType DEF ReplayPut
    <3>4. replay' \in SUBSET Tasks BY <3>1 DEF TypeOK
    <3> QED BY <2>3, <3>3, <3>4 DEF ReplayPut, TypeOK
  <2>4. CASE ReplayFull BY <2>4 DEF ReplayFull, TypeOK
  <2>5. CASE StartWorker
    <3>1. /\ wpc' \in [Workers -> WorkerPcs]
          /\ cur' \in Workers \union {None}
          /\ life' \in LifeStates
          /\ outlived' \in SUBSET Workers
      BY <2>5 DEF StartWorker, TypeOK, WorkerPcs, LifeStates
    <3> QED BY <2>5, <3>1 DEF StartWorker, TypeOK
  <2>6. CASE DisableSignal
    <3>1. disables' \in 0..MaxDisables
      BY <2>6, QueueAssumption DEF DisableSignal, TypeOK
    <3> QED BY <2>6, <3>1 DEF DisableSignal, TypeOK, LifeStates
  <2>7. CASE DisableJoin
    <3>1. outlived' \in SUBSET Workers BY <2>7 DEF DisableJoin, TypeOK
    <3> QED BY <2>7, <3>1 DEF DisableJoin, TypeOK, LifeStates
  <2>8. CASE DisableClose BY <2>8 DEF DisableClose, TypeOK, LifeStates
  <2>9. CASE DisableForget BY <2>9 DEF DisableForget, TypeOK, LifeStates
  <2>10. CASE DisableReset BY <2>10 DEF DisableReset, TypeOK, LifeStates
  <2> QED
    BY <1>1, <2>1, <2>2, <2>3, <2>4, <2>5, <2>6, <2>7, <2>8, <2>9, <2>10 DEF LifeStep
<1>2. ASSUME NEW w \in Works, CallStep(w) PROVE TypeOK'
  <2> DEFINE CallType == call' \in [Works -> CallPcs]
  <2>1. CASE CallQueued(w)
    <3>1. CallType BY <2>1 DEF CallQueued, TypeOK, CallPcs
    <3>2. ahead' \in [Works -> SUBSET Works] BY <2>1 DEF CallQueued, TypeOK
    <3> QED BY <2>1, <3>1, <3>2 DEF CallQueued, TypeOK
  <2>2. CASE CallDirect(w)
    <3>1. CallType
      <4>1. call' = [call EXCEPT ![w] = "direct"] BY <2>2 DEF CallDirect
      <4> QED BY <4>1 DEF TypeOK, CallPcs
    <3> QED BY <2>2, <3>1 DEF CallDirect, TypeOK
  <2>7. CASE RunDirect(w)
    <3>1. CallType
      <4>1. \/ call' = [call EXCEPT ![w] = "ran"]
            \/ call' = [call EXCEPT ![w] = "raised"]
        BY <2>7 DEF RunDirect
      <4> QED BY <4>1 DEF TypeOK, CallPcs
    <3>2. \/ applied' = [applied EXCEPT ![w] = @ + 1]
          \/ applied' = applied
      BY <2>7 DEF RunDirect
    <3>3. applied' \in [Works -> Nat]
      <4>1. applied \in [Works -> Nat] BY DEF TypeOK
      <4> QED BY <3>2, <4>1, Bump
    <3> QED BY <2>7, <3>1, <3>3 DEF RunDirect, TypeOK
  <2>3. CASE Persist(w)
    <3>1. CallType BY <2>3 DEF Persist, TypeOK, CallPcs
    <3>2. wal' \in [Tasks -> RowStates] /\ older' \in [Tasks -> SUBSET Tasks]
      BY <2>3, PersistType DEF Persist, Tasks
    <3> QED BY <2>3, <3>1, <3>2 DEF Persist, TypeOK
  <2>4. CASE PutNowait(w)
    <3>1. CallType
      <4>1. \/ call' = [call EXCEPT ![w] = "wait"]
            \/ call' = [call EXCEPT ![w] = "queued"]
            \/ call' = [call EXCEPT ![w] = "full"]
        BY <2>4 DEF PutNowait
      <4>2. call \in [Works -> CallPcs] BY DEF TypeOK
      <4> QED BY <4>1, <4>2 DEF CallPcs
    <3>2. [id |-> w, ev |-> w \in Sync] \in Entries BY DEF Entries, Tasks
    <3>3. queue' \in Seq(Entries) /\ Len(queue') <= MaxBacklog
      <4>1. CASE HasRoom BY <2>4, <3>2, <4>1, PutType DEF PutNowait
      <4>2. CASE ~HasRoom BY <2>4, <4>2 DEF PutNowait, TypeOK
      <4> QED BY <4>1, <4>2
    <3> QED BY <2>4, <3>1, <3>3 DEF PutNowait, TypeOK
  <2>5. CASE Refuse(w)
    <3>1. CallType BY <2>5 DEF Refuse, TypeOK, CallPcs
    <3>2. wal' \in [Tasks -> RowStates] BY <2>5 DEF Refuse, DeleteWal, TypeOK, RowStates
    <3> QED BY <2>5, <3>1, <3>2 DEF Refuse, TypeOK
  <2>6. CASE Return(w)
    <3>1. CallType BY <2>6 DEF Return, TypeOK, CallPcs
    <3> QED BY <2>6, <3>1 DEF Return, TypeOK
  <2> QED BY <1>2, <2>1, <2>2, <2>3, <2>4, <2>5, <2>6, <2>7 DEF CallStep
<1>3. CASE DlqStep
  <2> DEFINE DlqBusy == [pc : {"retire", "put", "full"}, old : Tasks, new : ReplayIds]
             DlqType == dlq' \in {DlqIdle} \union DlqBusy
             WalType == wal' \in [Tasks -> RowStates]
  <2>1. ASSUME NEW t \in Tasks, NEW n \in ReplayIds, DlqReplay(t, n) PROVE TypeOK'
    <3>1. DlqType BY <2>1 DEF DlqReplay
    <3>2. wal' \in [Tasks -> RowStates] /\ older' \in [Tasks -> SUBSET Tasks]
      BY <2>1, PersistType DEF DlqReplay, Tasks
    <3>4. WorkOf(t) \in Works \union {None} BY DEF WorkOf, Tasks, TypeOK
    <3>5. copyOf' \in [ReplayIds -> Works \union {None}]
      BY <2>1, <3>4 DEF DlqReplay, TypeOK
    <3> QED BY <2>1, <3>1, <3>2, <3>5 DEF DlqReplay, TypeOK
  <2>2. CASE DlqRetire
    <3>1. DlqType
      <4>1. dlq \in DlqBusy BY <2>2 DEF DlqRetire, DlqIdle, TypeOK
      <4>2. dlq' = DlqIdle \/ dlq' = [dlq EXCEPT !.pc = "put"] BY <2>2 DEF DlqRetire
      <4> QED BY <4>1, <4>2
    <3>2. WalType BY <2>2 DEF DlqRetire, RetireWal, TypeOK, RowStates
    <3> QED BY <2>2, <3>1, <3>2 DEF DlqRetire, TypeOK
  <2>3. CASE DlqPut
    <3>0. dlq \in DlqBusy BY <2>3 DEF DlqPut, DlqIdle, TypeOK
    <3>1. DlqType
      <4>1. dlq' = DlqIdle \/ dlq' = [dlq EXCEPT !.pc = "full"] BY <2>3 DEF DlqPut
      <4> QED BY <4>1, <3>0
    <3>2. queue' \in Seq(Entries) /\ Len(queue') <= MaxBacklog
      <4>1. CASE HasRoom
        <5>1. [id |-> dlq.new, ev |-> FALSE] \in Entries BY <3>0 DEF Entries, Tasks
        <5> QED BY <2>3, <4>1, <5>1, PutType DEF DlqPut
      <4>2. CASE ~HasRoom BY <2>3, <4>2 DEF DlqPut, TypeOK
      <4> QED BY <4>1, <4>2
    <3> QED BY <2>3, <3>1, <3>2 DEF DlqPut, TypeOK
  <2>4. CASE DlqRefuse
    <3>1. DlqType BY <2>4 DEF DlqRefuse
    <3>2. WalType BY <2>4 DEF DlqRefuse, DeleteWal, TypeOK, RowStates
    <3> QED BY <2>4, <3>1, <3>2 DEF DlqRefuse, TypeOK
  <2>5. CASE DlqClear
    <3>1. WalType BY <2>5 DEF DlqClear, TypeOK, RowStates
    <3>2. cleared' \in SUBSET Works BY <2>5 DEF DlqClear, TypeOK
    <3> QED BY <2>5, <3>1, <3>2 DEF DlqClear, TypeOK
  <2> QED BY <1>3, <2>1, <2>2, <2>3, <2>4, <2>5 DEF DlqStep
<1>4. ASSUME NEW k \in Workers, WorkerStep(k) PROVE TypeOK'
  <2> DEFINE WpcType == wpc' \in [Workers -> WorkerPcs]
             WtaskType == wtask' \in [Workers -> Entries \union {None}]
             WokType == wok' \in [Workers -> BOOLEAN]
             WalType == wal' \in [Tasks -> RowStates]
  <2>1. CASE WorkerCheck(k)
    <3>1. WpcType BY <2>1 DEF WorkerCheck, TypeOK, WorkerPcs
    <3> QED BY <2>1, <3>1 DEF WorkerCheck, TypeOK
  <2>2. CASE WorkerGet(k)
    <3>1. WpcType BY <2>2 DEF WorkerGet, TypeOK, WorkerPcs
    <3>2. Head(queue) \in Entries /\ Tail(queue) \in Seq(Entries)
          /\ Len(Tail(queue)) <= MaxBacklog
      BY <2>2, QueueAssumption DEF WorkerGet, TypeOK
    <3>3. WtaskType BY <2>2, <3>2 DEF WorkerGet, TypeOK
    <3>4. wtry' \in [Workers -> 0..MaxRetries]
      BY <2>2, QueueAssumption DEF WorkerGet, TypeOK
    <3> QED BY <2>2, <3>1, <3>2, <3>3, <3>4 DEF WorkerGet, TypeOK
  <2>3. CASE WorkerTimeout(k)
    <3>1. WpcType BY <2>3 DEF WorkerTimeout, TypeOK, WorkerPcs
    <3> QED BY <2>3, <3>1 DEF WorkerTimeout, TypeOK
  <2>4. CASE WorkerApply(k)
    <3>1. WpcType BY <2>4 DEF WorkerApply, TypeOK, WorkerPcs
    <3>2. WokType BY <2>4 DEF WorkerApply, TypeOK
    <3>3. applied' \in [Works -> Nat] BY <2>4, Bump DEF WorkerApply, TypeOK
    <3> QED BY <2>4, <3>1, <3>2, <3>3 DEF WorkerApply, TypeOK
  <2>5. CASE WorkerFail(k)
    <3>1. WpcType
      <4>1. \/ wpc' = wpc
            \/ wpc' = [wpc EXCEPT ![k] = "mark"]
            \/ wpc' = [wpc EXCEPT ![k] = "off"]
        BY <2>5 DEF WorkerFail, WorkerDies
      <4> QED BY <4>1 DEF TypeOK, WorkerPcs
    <3>2. WtaskType BY <2>5 DEF WorkerFail, WorkerDies, TypeOK
    <3>3. WokType BY <2>5 DEF WorkerFail, WorkerDies, TypeOK
    <3>4. wtry' \in [Workers -> 0..MaxRetries]
      <4>1. wtry \in [Workers -> 0..MaxRetries] BY DEF TypeOK
      <4>2. wtry' = wtry \/ (wtry[k] # 0 /\ wtry' = [wtry EXCEPT ![k] = @ - 1])
        BY <2>5 DEF WorkerFail, WorkerDies
      <4> QED BY <4>1, <4>2, QueueAssumption
    <3>5. UNCHANGED wal BY <2>5 DEF WorkerFail, WorkerDies
    <3> QED BY <2>5, <3>1, <3>2, <3>3, <3>4, <3>5 DEF WorkerFail, TypeOK
  <2>6. CASE WorkerMark(k)
    <3>1. WpcType
      <4>1. \/ wpc' = [wpc EXCEPT ![k] = "notify"]
            \/ wpc' = [wpc EXCEPT ![k] = "off"]
        BY <2>6 DEF WorkerMark, WorkerDies
      <4> QED BY <4>1 DEF TypeOK, WorkerPcs
    <3>2. WtaskType BY <2>6 DEF WorkerMark, WorkerDies, TypeOK
    <3>3. WokType BY <2>6 DEF WorkerMark, WorkerDies, TypeOK
    <3>4. WalType
      BY <2>6 DEF WorkerMark, WorkerDies, DeleteWal, MarkDeadWal, TypeOK, RowStates
    <3>5. UNCHANGED wtry BY <2>6 DEF WorkerMark, WorkerDies
    <3> QED BY <2>6, <3>1, <3>2, <3>3, <3>4, <3>5 DEF WorkerMark, TypeOK
  <2>7. CASE WorkerNotify(k)
    <3>1. WpcType BY <2>7 DEF WorkerNotify, TypeOK, WorkerPcs
    <3>2. WtaskType BY <2>7 DEF WorkerNotify, TypeOK
    <3>3. WokType BY <2>7 DEF WorkerNotify, TypeOK
    <3>4. event' \in [Works -> {"unset", "ok", "error"}]
      BY <2>7 DEF WorkerNotify, TypeOK, Outcome
    <3> QED BY <2>7, <3>1, <3>2, <3>3, <3>4 DEF WorkerNotify, TypeOK
  <2> QED BY <1>4, <2>1, <2>2, <2>3, <2>4, <2>5, <2>6, <2>7 DEF WorkerStep
<1>5. CASE Crash
  <2>1. /\ queue' \in Seq(Entries) /\ Len(queue') <= MaxBacklog
        /\ crashes' \in 0..MaxCrashes
    BY <1>5, QueueAssumption DEF Crash, TypeOK
  <2>2. /\ wpc' \in [Workers -> WorkerPcs]
        /\ wtask' \in [Workers -> Entries \union {None}]
        /\ wtry' \in [Workers -> 0..MaxRetries]
        /\ wok' \in [Workers -> BOOLEAN]
    BY <1>5, QueueAssumption DEF Crash, WorkerPcs
  <2>3. call' \in [Works -> CallPcs] BY <1>5 DEF Crash, TypeOK, CallPcs
  <2>4. event' \in [Works -> {"unset", "ok", "error"}] BY <1>5 DEF Crash
  <2>5. dlq' = DlqIdle BY <1>5 DEF Crash
  <2>6. life' \in LifeStates /\ replay' \in SUBSET Tasks /\ cur' \in Workers \union {None}
    BY <1>5 DEF Crash, LifeStates
  <2> QED BY <1>5, <2>1, <2>2, <2>3, <2>4, <2>5, <2>6 DEF Crash, TypeOK
<1>6. CASE UNCHANGED vars BY <1>6 DEF vars, TypeOK
<1> QED BY <1>1, <1>2, <1>3, <1>4, <1>5, <1>6 DEF Next

\* Every reachable state of the queue is well typed; in particular the queue
\* never holds more than max_backlog tasks, whoever puts them there.
THEOREM TypeCorrect == Spec => []TypeOK
BY InitType, NextType, PTL DEF Spec

-----------------------------------------------------------------------------
(***************************************************************************)
(* AckedIsApplied. What a caller is told stems from its worker's wok, so   *)
(* the inductive invariant follows the success of an operation from the    *)
(* worker over done_event to the caller, and needs that every task a       *)
(* worker can meet belongs to a work (Carries) and that an entry with an   *)
(* event is its caller's own task.                                         *)
(***************************************************************************)

CarriedTasks == {t \in Tasks : WorkOf(t) \in Works}

GoodEntries == {e \in Entries : e.id \in CarriedTasks /\ (e.ev => e.id \in Works)}

Busy(k) == wpc[k] \in {"run", "mark", "notify"}

Carries ==
  /\ \A t \in Tasks : wal[t] # "none" => t \in CarriedTasks
  /\ replay \subseteq CarriedTasks
  /\ queue \in Seq(GoodEntries)
  /\ \A k \in Workers : Busy(k) => wtask[k] \in GoodEntries
  /\ dlq.pc # "idle" => dlq.new \in CarriedTasks

\* A replay id keeps the work it once got.
LEMMA CopiesStay ==
  ASSUME TypeOK, [Next]_vars
  PROVE  \A n \in ReplayIds : copyOf[n] \in Works => copyOf'[n] = copyOf[n]
<1> USE DEF walVars, store, confVars, lifeVars, workVars, callVars, restVars
<1>1. CASE LifeStep
  BY <1>1 DEF LifeStep, Enable, ReplaySelect, ReplayPut, ReplayFull, StartWorker,
     DisableSignal, DisableJoin, DisableClose, DisableForget, DisableReset
<1>2. ASSUME NEW w \in Works, CallStep(w) PROVE UNCHANGED copyOf
  BY <1>2 DEF CallStep, CallQueued, CallDirect, RunDirect, Persist, PutNowait, Refuse, Return
<1>3. CASE DlqStep
  <2>1. ASSUME NEW t \in Tasks, NEW n \in ReplayIds, DlqReplay(t, n),
               NEW m \in ReplayIds, copyOf[m] \in Works
        PROVE  copyOf'[m] = copyOf[m]
    <3>1. copyOf[n] = None /\ copyOf' = [copyOf EXCEPT ![n] = WorkOf(t)]
      BY <2>1 DEF DlqReplay
    <3>2. m # n BY <2>1, <3>1, QueueAssumption
    <3> QED BY <3>1, <3>2 DEF TypeOK
  <2>2. CASE DlqRetire \/ DlqPut \/ DlqRefuse \/ DlqClear
    BY <2>2 DEF DlqRetire, DlqPut, DlqRefuse, DlqClear
  <2> QED BY <1>3, <2>1, <2>2 DEF DlqStep
<1>4. ASSUME NEW k \in Workers, WorkerStep(k) PROVE UNCHANGED copyOf
  BY <1>4 DEF WorkerStep, WorkerCheck, WorkerGet, WorkerTimeout, WorkerApply,
     WorkerFail, WorkerMark, WorkerNotify
<1>5. CASE Crash \/ UNCHANGED vars BY <1>5 DEF Crash, vars
<1> QED BY <1>1, <1>2, <1>3, <1>4, <1>5 DEF Next

LEMMA CarriedGrows ==
  ASSUME TypeOK, [Next]_vars
  PROVE  /\ CarriedTasks \subseteq CarriedTasks' /\ GoodEntries \subseteq GoodEntries'
         /\ \A t \in CarriedTasks : WorkOf(t)' = WorkOf(t)
<1>1. \A t \in CarriedTasks : WorkOf(t)' = WorkOf(t)
  <2> SUFFICES ASSUME NEW t \in CarriedTasks PROVE WorkOf(t)' = WorkOf(t)
    OBVIOUS
  <2>1. CASE t \in Works BY <2>1 DEF WorkOf
  <2>2. CASE t \notin Works
    <3>1. t \in ReplayIds /\ copyOf[t] \in Works BY <2>2 DEF CarriedTasks, WorkOf, Tasks
    <3> QED BY <2>2, <3>1, CopiesStay DEF WorkOf
  <2> QED BY <2>1, <2>2
<1>2. CarriedTasks \subseteq CarriedTasks' BY <1>1 DEF CarriedTasks
<1>3. GoodEntries \subseteq GoodEntries' BY <1>2 DEF GoodEntries
<1> QED BY <1>1, <1>2, <1>3

\* Rows are inserted for works and for copies of rows.
LEMMA RowsCarried ==
  ASSUME TypeOK, Carries, [Next]_vars
  PROVE  \A t \in Tasks : wal'[t] # "none" => t \in CarriedTasks'
<1> USE DEF walVars, store, confVars, lifeVars, workVars, callVars, restVars
<1> DEFINE Rows == \A t \in Tasks : wal'[t] # "none" => wal[t] # "none" \/ t \in CarriedTasks'
<1> SUFFICES Rows
  BY CarriedGrows DEF Carries
<1>0. Works \subseteq CarriedTasks' BY DEF CarriedTasks, WorkOf, Tasks
<1>1. CASE LifeStep
  BY <1>1 DEF LifeStep, Enable, ReplaySelect, ReplayPut, ReplayFull, StartWorker,
     DisableSignal, DisableJoin, DisableClose, DisableForget, DisableReset
<1>2. ASSUME NEW w \in Works, CallStep(w) PROVE Rows
  <2>1. CASE Persist(w) BY <2>1, <1>0 DEF Persist, PersistWal, TypeOK
  <2>2. CASE Refuse(w) BY <2>2 DEF Refuse, DeleteWal, TypeOK
  <2>3. CASE CallQueued(w) \/ CallDirect(w) \/ RunDirect(w) \/ PutNowait(w) \/ Return(w)
    BY <2>3 DEF CallQueued, CallDirect, RunDirect, PutNowait, Return
  <2> QED BY <1>2, <2>1, <2>2, <2>3 DEF CallStep
<1>3. CASE DlqStep
  <2>1. ASSUME NEW t \in Tasks, NEW n \in ReplayIds, DlqReplay(t, n) PROVE Rows
    <3>1. t \in CarriedTasks BY <2>1 DEF DlqReplay, Carries
    <3>2. copyOf'[n] \in Works BY <2>1, <3>1 DEF DlqReplay, CarriedTasks, TypeOK
    <3>3. n \in CarriedTasks'
      BY <3>2, QueueAssumption DEF CarriedTasks, WorkOf, Tasks
    <3> QED BY <2>1, <3>3 DEF DlqReplay, PersistWal, TypeOK
  <2>2. CASE DlqRetire BY <2>2 DEF DlqRetire, RetireWal, TypeOK
  <2>3. CASE DlqRefuse BY <2>3 DEF DlqRefuse, DeleteWal, TypeOK
  <2>4. CASE DlqClear BY <2>4 DEF DlqClear, TypeOK
  <2>5. CASE DlqPut BY <2>5 DEF DlqPut
  <2> QED BY <1>3, <2>1, <2>2, <2>3, <2>4, <2>5 DEF DlqStep
<1>4. ASSUME NEW k \in Workers, WorkerStep(k) PROVE Rows
  <2>1. CASE WorkerMark(k)
    BY <2>1 DEF WorkerMark, WorkerDies, DeleteWal, MarkDeadWal, TypeOK
  <2>2. CASE WorkerFail(k) BY <2>2 DEF WorkerFail, WorkerDies
  <2>3. CASE WorkerCheck(k) \/ WorkerGet(k) \/ WorkerTimeout(k) \/ WorkerApply(k)
             \/ WorkerNotify(k)
    BY <2>3 DEF WorkerCheck, WorkerGet, WorkerTimeout, WorkerApply, WorkerNotify
  <2> QED BY <1>4, <2>1, <2>2, <2>3 DEF WorkerStep
<1>5. CASE Crash \/ UNCHANGED vars BY <1>5 DEF Crash, vars
<1> QED BY <1>1, <1>2, <1>3, <1>4, <1>5 DEF Next

\* What is replayed was a row, what is queued was inserted or replayed.
LEMMA QueueCarried ==
  ASSUME TypeOK, Carries, [Next]_vars
  PROVE  replay' \subseteq CarriedTasks' /\ queue' \in Seq(GoodEntries')
<1> USE DEF walVars, store, confVars, lifeVars, workVars, callVars, restVars
<1> DEFINE Fed == /\ replay' \subseteq CarriedTasks
                  /\ \/ queue' = queue
                     \/ \E e \in GoodEntries : queue' = Append(queue, e)
                     \/ queue' \in Seq(GoodEntries)
<1> SUFFICES Fed
  <2>1. queue' \in Seq(GoodEntries) BY DEF Carries
  <2>2. Seq(GoodEntries) \subseteq Seq(GoodEntries') BY CarriedGrows
  <2> QED BY <2>1, <2>2, CarriedGrows
<1>0. /\ replay \subseteq CarriedTasks /\ queue \in Seq(GoodEntries)
      /\ \A t \in CarriedTasks : [id |-> t, ev |-> FALSE] \in GoodEntries
  BY DEF Carries, GoodEntries, CarriedTasks, Entries
<1>1. CASE LifeStep
  <2>1. CASE ReplaySelect
    BY <2>1, <1>0 DEF ReplaySelect, Unfinished, Carries
  <2>2. CASE ReplayPut
    <3>1. PICK t \in replay : /\ queue' = Append(queue, [id |-> t, ev |-> FALSE])
                              /\ replay' = replay \ {t}
      BY <2>2 DEF ReplayPut
    <3> QED BY <3>1, <1>0
  <2>3. CASE ReplayFull BY <2>3, <1>0 DEF ReplayFull
  <2>4. CASE \/ Enable \/ StartWorker \/ DisableSignal \/ DisableJoin \/ DisableClose
             \/ DisableForget \/ DisableReset
    BY <2>4, <1>0 DEF Enable, StartWorker, DisableSignal, DisableJoin, DisableClose,
       DisableForget, DisableReset
  <2> QED BY <1>1, <2>1, <2>2, <2>3, <2>4 DEF LifeStep
<1>2. ASSUME NEW w \in Works, CallStep(w) PROVE Fed
  <2>1. CASE PutNowait(w)
    <3>1. [id |-> w, ev |-> w \in Sync] \in GoodEntries
      BY DEF GoodEntries, Entries, CarriedTasks, Tasks, WorkOf
    <3> QED BY <2>1, <3>1, <1>0 DEF PutNowait
  <2>2. CASE CallQueued(w) \/ CallDirect(w) \/ RunDirect(w) \/ Persist(w) \/ Refuse(w) \/ Return(w)
    BY <2>2, <1>0 DEF CallQueued, CallDirect, RunDirect, Persist, Refuse, Return
  <2> QED BY <1>2, <2>1, <2>2 DEF CallStep
<1>3. CASE DlqStep
  <2>1. CASE DlqPut
    <3>1. dlq.new \in CarriedTasks BY <2>1 DEF DlqPut, Carries
    <3> QED BY <2>1, <3>1, <1>0 DEF DlqPut
  <2>2. CASE \/ \E t \in Tasks, n \in ReplayIds : DlqReplay(t, n)
             \/ DlqRetire \/ DlqRefuse \/ DlqClear
    BY <2>2, <1>0 DEF DlqReplay, DlqRetire, DlqRefuse, DlqClear
  <2> QED BY <1>3, <2>1, <2>2 DEF DlqStep
<1>4. ASSUME NEW k \in Workers, WorkerStep(k) PROVE Fed
  <2>1. CASE WorkerGet(k)
    <3>1. Tail(queue) \in Seq(GoodEntries) BY <2>1, <1>0 DEF WorkerGet
    <3> QED BY <2>1, <3>1, <1>0 DEF WorkerGet
  <2>2. CASE WorkerFail(k) \/ WorkerMark(k)
    BY <2>2, <1>0 DEF WorkerFail, WorkerMark
  <2>3. CASE WorkerCheck(k) \/ WorkerTimeout(k) \/ WorkerApply(k) \/ WorkerNotify(k)
    BY <2>3, <1>0 DEF WorkerCheck, WorkerTimeout, WorkerApply, WorkerNotify
  <2> QED BY <1>4, <2>1, <2>2, <2>3 DEF WorkerStep
<1>5. CASE Crash BY <1>5 DEF Crash
<1>6. CASE UNCHANGED vars BY <1>6, <1>0 DEF vars
<1> QED BY <1>1, <1>2, <1>3, <1>4, <1>5, <1>6 DEF Next

\* Workers take their tasks from the queue, dlq_replay its new id from a row.
LEMMA HandsCarried ==
  ASSUME TypeOK, Carries, [Next]_vars
  PROVE  /\ \A k \in Workers : Busy(k)' => wtask'[k] \in GoodEntries'
         /\ dlq'.pc # "idle" => dlq'.new \in CarriedTasks'
<1> USE DEF walVars, store, confVars, lifeVars, workVars, callVars, restVars
<1> DEFINE Hands == /\ \A k \in Workers : Busy(k)' => wtask'[k] \in GoodEntries
                    /\ \/ dlq' = DlqIdle
                       \/ dlq'.new \in CarriedTasks'
                       \/ dlq' = dlq
<1> SUFFICES Hands
  BY CarriedGrows DEF Carries, DlqIdle
<1>0. \A k \in Workers : Busy(k) => wtask[k] \in GoodEntries BY DEF Carries
<1>1. CASE LifeStep
  <2>1. CASE StartWorker BY <2>1, <1>0 DEF StartWorker, Busy, TypeOK
  <2>2. CASE \/ Enable \/ ReplaySelect \/ ReplayPut \/ ReplayFull \/ DisableSignal
             \/ DisableJoin \/ DisableClose \/ DisableForget \/ DisableReset
    BY <2>2, <1>0 DEF Enable, ReplaySelect, ReplayPut, ReplayFull, DisableSignal,
       DisableJoin, DisableClose, DisableForget, DisableReset, Busy
  <2> QED BY <1>1, <2>1, <2>2 DEF LifeStep
<1>2. ASSUME NEW w \in Works, CallStep(w) PROVE Hands
  BY <1>2, <1>0 DEF CallStep, CallQueued, CallDirect, RunDirect, Persist, PutNowait, Refuse,
     Return, Busy
<1>3. CASE DlqStep
  <2>0. UNCHANGED <<wpc, wtask>>
    BY <1>3 DEF DlqStep, DlqReplay, DlqRetire, DlqPut, DlqRefuse, DlqClear
  <2>1. ASSUME NEW t \in Tasks, NEW n \in ReplayIds, DlqReplay(t, n)
        PROVE  dlq'.new \in CarriedTasks'
    <3>1. dlq'.new = n /\ t \in CarriedTasks BY <2>1 DEF DlqReplay, Carries
    <3>2. copyOf'[n] \in Works BY <2>1, <3>1 DEF DlqReplay, CarriedTasks, TypeOK
    <3> QED BY <3>1, <3>2, QueueAssumption DEF CarriedTasks, WorkOf, Tasks
  <2>2. CASE DlqRetire
    <3>1. dlq' = DlqIdle \/ dlq'.new = dlq.new
      BY <2>2 DEF DlqRetire, TypeOK, DlqIdle
    <3> QED BY <2>0, <1>0, <2>2, <3>1, CarriedGrows DEF DlqRetire, Carries, Busy
  <2>3. CASE DlqPut
    <3>1. dlq' = DlqIdle \/ dlq'.new = dlq.new
      BY <2>3 DEF DlqPut, TypeOK, DlqIdle
    <3> QED BY <2>0, <1>0, <2>3, <3>1, CarriedGrows DEF DlqPut, Carries, Busy
  <2>4. CASE DlqRefuse \/ DlqClear
    BY <2>0, <1>0, <2>4 DEF DlqRefuse, DlqClear, Busy
  <2>5. CASE \E t \in Tasks, n \in ReplayIds : DlqReplay(t, n)
    BY <2>0, <1>0, <2>1, <2>5 DEF Busy
  <2> QED BY <1>3, <2>2, <2>3, <2>4, <2>5 DEF DlqStep
<1>4. ASSUME NEW k \in Workers, WorkerStep(k) PROVE Hands
  <2>0. UNCHANGED dlq
    BY <1>4 DEF WorkerStep, WorkerCheck, WorkerGet, WorkerTimeout, WorkerApply,
       WorkerFail, WorkerMark, WorkerNotify
  <2>1. \A j \in Workers \ {k} : wpc'[j] = wpc[j] /\ wtask'[j] = wtask[j]
    BY <1>4 DEF WorkerStep, WorkerCheck, WorkerGet, WorkerTimeout, WorkerApply,
       WorkerFail, WorkerMark, WorkerNotify, WorkerDies, TypeOK
  <2>2. CASE WorkerGet(k)
    <3>1. Head(queue) \in GoodEntries BY <2>2 DEF WorkerGet, Carries
    <3>2. wtask'[k] \in GoodEntries BY <2>2, <3>1 DEF WorkerGet, TypeOK
    <3> QED BY <2>0, <2>1, <1>0, <3>2 DEF Busy
  <2>3. CASE WorkerApply(k) \/ WorkerFail(k) \/ WorkerMark(k)
    <3>1. Busy(k) BY <2>3 DEF Busy, WorkerApply, WorkerFail, WorkerMark
    <3>2. wtask'[k] = wtask[k] \/ ~Busy(k)'
      BY <2>3 DEF WorkerApply, WorkerFail, WorkerMark, WorkerDies, Busy, TypeOK
    <3> QED BY <2>0, <2>1, <1>0, <3>1, <3>2 DEF Busy
  <2>4. CASE WorkerCheck(k) \/ WorkerTimeout(k) \/ WorkerNotify(k)
    <3>1. ~Busy(k)'
      BY <2>4 DEF WorkerCheck, WorkerTimeout, WorkerNotify, Busy, TypeOK
    <3> QED BY <2>0, <2>1, <1>0, <3>1 DEF Busy
  <2> QED BY <1>4, <2>2, <2>3, <2>4 DEF WorkerStep
<1>5. CASE Crash BY <1>5 DEF Crash, Busy
<1>6. CASE UNCHANGED vars BY <1>6, <1>0 DEF vars, Busy
<1> QED BY <1>1, <1>2, <1>3, <1>4, <1>5, <1>6 DEF Next

LEMMA InitCarries == Init => Carries
BY DEF Init, Carries, Busy, DlqIdle

LEMMA NextCarries == TypeOK /\ Carries /\ [Next]_vars => Carries'
BY RowsCarried, QueueCarried, HandsCarried DEF Carries

\* A worker holds wok only after its task's operation took effect.
WorkerTold ==
  \A k \in Workers :
    wok[k] => wpc[k] \in {"mark", "notify"} /\ applied[WorkOf(wtask[k].id)] > 0

EventTold == \A w \in Works : event[w] = "ok" => applied[w] > 0

AckInv == TypeOK /\ Carries /\ WorkerTold /\ EventTold /\ AckedIsApplied

\* What took effect is never undone.
LEMMA AppliedGrows ==
  ASSUME TypeOK, [Next]_vars
  PROVE  \A w \in Works : applied[w] > 0 => applied'[w] > 0
<1> USE DEF walVars, store, confVars, lifeVars, workVars, callVars, restVars
<1> DEFINE Grows == \/ applied' = applied
                    \/ \E x : applied' = [applied EXCEPT ![x] = @ + 1]
<1> SUFFICES Grows
  <2>1. applied \in [Works -> Nat] BY DEF TypeOK
  <2>2. ASSUME NEW x, applied' = [applied EXCEPT ![x] = @ + 1],
               NEW w \in Works, applied[w] > 0
        PROVE  applied'[w] > 0
    BY <2>1, <2>2
  <2> QED BY <2>2
<1>1. CASE LifeStep
  BY <1>1 DEF LifeStep, Enable, ReplaySelect, ReplayPut, ReplayFull, StartWorker,
     DisableSignal, DisableJoin, DisableClose, DisableForget, DisableReset
<1>2. ASSUME NEW w \in Works, CallStep(w) PROVE Grows
  BY <1>2 DEF CallStep, CallQueued, CallDirect, RunDirect, Persist, PutNowait, Refuse, Return
<1>3. CASE DlqStep
  BY <1>3 DEF DlqStep, DlqReplay, DlqRetire, DlqPut, DlqRefuse, DlqClear
<1>4. ASSUME NEW k \in Workers, WorkerStep(k) PROVE Grows
  BY <1>4 DEF WorkerStep, WorkerCheck, WorkerGet, WorkerTimeout, WorkerApply,
     WorkerFail, WorkerMark, WorkerNotify
<1>5. CASE Crash \/ UNCHANGED vars BY <1>5 DEF Crash, vars
<1> QED BY <1>1, <1>2, <1>3, <1>4, <1>5 DEF Next

\* Only the worker itself sets its wok, by applying its task.
LEMMA NextWorkerTold == TypeOK /\ Carries /\ WorkerTold /\ [Next]_vars => WorkerTold'
<1> SUFFICES ASSUME TypeOK, Carries, WorkerTold, [Next]_vars,
                    NEW j \in Workers, wok'[j]
             PROVE  wpc'[j] \in {"mark", "notify"} /\ (applied[WorkOf(wtask[j].id)] > 0)'
  BY DEF WorkerTold
<1> USE DEF walVars, store, confVars, lifeVars, workVars, callVars, restVars
<1>0. ASSUME wok[j], wtask'[j] = wtask[j] PROVE (applied[WorkOf(wtask[j].id)] > 0)'
  <2>1. applied[WorkOf(wtask[j].id)] > 0 /\ Busy(j) BY <1>0 DEF WorkerTold, Busy
  <2>2. wtask[j].id \in CarriedTasks BY <2>1 DEF Carries, GoodEntries
  <2>3. WorkOf(wtask[j].id)' = WorkOf(wtask[j].id) BY <1>0, <2>2, CarriedGrows
  <2>4. WorkOf(wtask[j].id) \in Works BY <2>2 DEF CarriedTasks
  <2> QED BY <2>1, <2>3, <2>4, AppliedGrows
<1> DEFINE Same == wok'[j] = wok[j] /\ wpc'[j] = wpc[j] /\ wtask'[j] = wtask[j]
<1>1. CASE Same BY <1>0, <1>1 DEF WorkerTold
<1>2. CASE LifeStep
  <2>1. CASE StartWorker
    <3>1. wpc[j] # "off" BY <2>1 DEF StartWorker, WorkerTold
    <3> QED BY <1>1, <2>1, <3>1 DEF StartWorker, TypeOK
  <2>2. CASE \/ Enable \/ ReplaySelect \/ ReplayPut \/ ReplayFull \/ DisableSignal
             \/ DisableJoin \/ DisableClose \/ DisableForget \/ DisableReset
    BY <2>2, <1>1 DEF Enable, ReplaySelect, ReplayPut, ReplayFull, DisableSignal,
       DisableJoin, DisableClose, DisableForget, DisableReset
  <2> QED BY <1>2, <2>1, <2>2 DEF LifeStep
<1>3. ASSUME NEW w \in Works, CallStep(w) PROVE Same
  BY <1>3 DEF CallStep, CallQueued, CallDirect, RunDirect, Persist, PutNowait, Refuse, Return
<1>4. CASE DlqStep
  BY <1>1, <1>4 DEF DlqStep, DlqReplay, DlqRetire, DlqPut, DlqRefuse, DlqClear
<1>5. ASSUME NEW k \in Workers, WorkerStep(k), ~Same
      PROVE  wpc'[j] \in {"mark", "notify"} /\ (applied[WorkOf(wtask[j].id)] > 0)'
  <2>1. j = k
    BY <1>5 DEF WorkerStep, WorkerCheck, WorkerGet, WorkerTimeout, WorkerApply,
       WorkerFail, WorkerMark, WorkerNotify, WorkerDies, TypeOK
  <2>2. CASE WorkerApply(k)
    <3>1. wtask'[j] = wtask[j] /\ wpc'[j] = "mark"
      BY <2>1, <2>2 DEF WorkerApply, TypeOK
    <3>2. wtask[j].id \in CarriedTasks
      BY <2>1, <2>2 DEF WorkerApply, Carries, GoodEntries, Busy
    <3>3. WorkOf(wtask[j].id)' = WorkOf(wtask[j].id) BY <3>1, <3>2, CarriedGrows
    <3>4. WorkOf(wtask[j].id) \in Works BY <3>2 DEF CarriedTasks
    <3>5. applied'[WorkOf(wtask[j].id)] > 0 BY <2>1, <2>2, <3>4 DEF WorkerApply, TypeOK
    <3> QED BY <3>1, <3>3, <3>5
  <2>3. CASE WorkerMark(k)
    <3>1. wok[j] /\ wtask'[j] = wtask[j] /\ wpc'[j] = "notify"
      BY <2>1, <2>3 DEF WorkerMark, WorkerDies, TypeOK
    <3> QED BY <3>1, <1>0
  <2>4. CASE WorkerFail(k)
    <3>1. ~wok[k] BY <2>4 DEF WorkerFail, WorkerTold
    <3> QED BY <2>1, <2>4, <3>1 DEF WorkerFail, WorkerDies, TypeOK
  <2>5. CASE WorkerNotify(k) BY <2>1, <2>5 DEF WorkerNotify, TypeOK
  <2>6. CASE WorkerCheck(k) \/ WorkerGet(k) \/ WorkerTimeout(k)
    <3>1. ~wok[k] /\ UNCHANGED wok
      BY <2>6 DEF WorkerCheck, WorkerGet, WorkerTimeout, WorkerTold
    <3> QED BY <2>1, <3>1
  <2> QED BY <1>5, <2>2, <2>3, <2>4, <2>5, <2>6 DEF WorkerStep
<1>6. CASE Crash BY <1>6 DEF Crash
<1>7. CASE UNCHANGED vars BY <1>1, <1>7 DEF vars
<1> QED BY <1>1, <1>2, <1>3, <1>4, <1>5, <1>6, <1>7 DEF Next

\* done_event tells of success only what the worker knows.
LEMMA NextEventTold ==
  TypeOK /\ Carries /\ WorkerTold /\ EventTold /\ [Next]_vars => EventTold'
<1> SUFFICES ASSUME TypeOK, Carries, WorkerTold, EventTold, [Next]_vars,
                    NEW w \in Works, event'[w] = "ok"
             PROVE  applied'[w] > 0
  BY DEF EventTold
<1> USE DEF walVars, store, confVars, lifeVars, workVars, callVars, restVars
<1>1. CASE event'[w] = event[w] BY <1>1, AppliedGrows DEF EventTold
<1>2. CASE LifeStep
  BY <1>1, <1>2 DEF LifeStep, Enable, ReplaySelect, ReplayPut, ReplayFull, StartWorker,
     DisableSignal, DisableJoin, DisableClose, DisableForget, DisableReset
<1>3. ASSUME NEW v \in Works, CallStep(v) PROVE UNCHANGED event
  BY <1>3 DEF CallStep, CallQueued, CallDirect, RunDirect, Persist, PutNowait, Refuse, Return
<1>4. CASE DlqStep
  BY <1>1, <1>4 DEF DlqStep, DlqReplay, DlqRetire, DlqPut, DlqRefuse, DlqClear
<1>5. ASSUME NEW k \in Workers, WorkerStep(k), event'[w] # event[w] PROVE applied'[w] > 0
  <2>1. CASE WorkerNotify(k)
    <3>1. w = wtask[k].id /\ wok[k]
      BY <1>5, <2>1 DEF WorkerNotify, Outcome, TypeOK
    <3>2. applied[WorkOf(w)] > 0 BY <3>1 DEF WorkerTold
    <3> QED BY <3>2, AppliedGrows DEF WorkOf
  <2> QED
    BY <1>5, <2>1 DEF WorkerStep, WorkerCheck, WorkerGet, WorkerTimeout, WorkerApply,
       WorkerFail, WorkerMark
<1>6. CASE Crash BY <1>6 DEF Crash
<1>7. CASE UNCHANGED vars BY <1>1, <1>7 DEF vars
<1> QED BY <1>1, <1>2, <1>3, <1>4, <1>5, <1>6, <1>7 DEF Next

LEMMA NextAcked ==
  TypeOK /\ EventTold /\ AckedIsApplied /\ [Next]_vars => AckedIsApplied'
<1> SUFFICES ASSUME TypeOK, EventTold, AckedIsApplied, [Next]_vars,
                    NEW w \in Works, call'[w] \in {"ok", "ran"}
             PROVE  applied'[w] > 0
  BY DEF AckedIsApplied
<1> USE DEF walVars, store, confVars, lifeVars, workVars, callVars, restVars
<1>1. CASE call'[w] = call[w] BY <1>1, AppliedGrows DEF AckedIsApplied
<1>2. CASE LifeStep
  BY <1>1, <1>2 DEF LifeStep, Enable, ReplaySelect, ReplayPut, ReplayFull, StartWorker,
     DisableSignal, DisableJoin, DisableClose, DisableForget, DisableReset
<1>3. ASSUME NEW v \in Works, CallStep(v), call'[w] # call[w] PROVE applied'[w] > 0
  <2>1. v = w
    BY <1>3
    DEF CallStep, CallQueued, CallDirect, RunDirect, Persist, PutNowait, Refuse, Return, TypeOK
  <2>2. CASE RunDirect(v) BY <2>1, <2>2 DEF RunDirect, TypeOK
  <2>3. CASE Return(v)
    <3>1. event[w] = "ok" BY <2>1, <2>3 DEF Return, TypeOK
    <3> QED BY <3>1, AppliedGrows DEF EventTold
  <2>4. CASE CallQueued(v) \/ CallDirect(v) \/ Persist(v) \/ PutNowait(v) \/ Refuse(v)
    BY <2>1, <2>4 DEF CallQueued, CallDirect, Persist, PutNowait, Refuse, TypeOK
  <2> QED BY <1>3, <2>2, <2>3, <2>4 DEF CallStep
<1>4. CASE DlqStep
  BY <1>1, <1>4 DEF DlqStep, DlqReplay, DlqRetire, DlqPut, DlqRefuse, DlqClear
<1>5. ASSUME NEW k \in Workers, WorkerStep(k) PROVE UNCHANGED call
  BY <1>5 DEF WorkerStep, WorkerCheck, WorkerGet, WorkerTimeout, WorkerApply,
     WorkerFail, WorkerMark, WorkerNotify
<1>6. CASE Crash
  <2>1. call'[w] = call[w] BY <1>6 DEF Crash, TypeOK, CallPcs
  <2> QED BY <1>1, <2>1
<1>7. CASE UNCHANGED vars BY <1>1, <1>7 DEF vars
<1> QED BY <1>1, <1>2, <1>3, <1>4, <1>5, <1>6, <1>7 DEF Next

\* A caller that was told of success can rely on it, whatever crashes, second
\* workers, replays and disable() calls happen, for any number of callers,
\* workers and retries and any backlog.
THEOREM AckCorrect == Spec => []AckedIsApplied
<1>1. Init => AckInv
  BY InitType, InitCarries DEF Init, AckInv, WorkerTold, EventTold, AckedIsApplied
<1>2. AckInv /\ [Next]_vars => AckInv'
  BY NextType, NextCarries, NextWorkerTold, NextEventTold, NextAcked DEF AckInv
<1>3. AckInv => AckedIsApplied BY DEF AckInv
<1> QED BY <1>1, <1>2, <1>3, PTL DEF Spec

-----------------------------------------------------------------------------
(***************************************************************************)
(* RowsLeaveResolved: who touches a row.                                   *)
(***************************************************************************)

\* A row changes through a statement of the thread it belongs to.
LEMMA RowSteps ==
  ASSUME TypeOK, [Next]_vars, NEW t \in Tasks, wal'[t] # wal[t]
  PROVE  \/ t \in Works /\ Persist(t) /\ wal'[t] = "pending"
         \/ t \in Works /\ Refuse(t) /\ conn = "open" /\ wal'[t] = "none"
         \/ /\ t \in ReplayIds /\ wal'[t] = "pending"
            /\ \E u \in Tasks : DlqReplay(u, t)
         \/ DlqRetire /\ dlq.old = t /\ wal'[t] = "replayed"
         \/ DlqRefuse /\ dlq.new = t /\ wal'[t] = "none"
         \/ DlqClear /\ wal[t] = "dead" /\ wal'[t] = "none"
         \/ \E k \in Workers : /\ WorkerMark(k) /\ wtask[k].id = t /\ conn = "open"
                               /\ wal'[t] = IF wok[k] THEN "none" ELSE "dead"
<1> USE DEF walVars, store, confVars, lifeVars, workVars, callVars, restVars
<1>0. wal \in [Tasks -> RowStates] BY DEF TypeOK
<1>1. CASE LifeStep
  BY <1>1 DEF LifeStep, Enable, ReplaySelect, ReplayPut, ReplayFull, StartWorker,
     DisableSignal, DisableJoin, DisableClose, DisableForget, DisableReset
<1>2. ASSUME NEW w \in Works, CallStep(w)
      PROVE  \/ t = w /\ Persist(w) /\ wal'[t] = "pending"
             \/ t = w /\ Refuse(w) /\ conn = "open" /\ wal'[t] = "none"
  <2>1. CASE Persist(w) BY <1>0, <2>1 DEF Persist, PersistWal
  <2>2. CASE Refuse(w) BY <1>0, <2>2 DEF Refuse, DeleteWal
  <2>3. CASE CallQueued(w) \/ CallDirect(w) \/ RunDirect(w) \/ PutNowait(w) \/ Return(w)
    BY <2>3 DEF CallQueued, CallDirect, RunDirect, PutNowait, Return
  <2> QED BY <1>2, <2>1, <2>2, <2>3 DEF CallStep
<1>3. CASE DlqStep
  <2>1. ASSUME NEW u \in Tasks, NEW n \in ReplayIds, DlqReplay(u, n)
        PROVE  t = n /\ wal'[t] = "pending"
    BY <1>0, <2>1 DEF DlqReplay, PersistWal
  <2>2. CASE DlqRetire BY <1>0, <2>2 DEF DlqRetire, RetireWal
  <2>3. CASE DlqRefuse BY <1>0, <2>3 DEF DlqRefuse, DeleteWal
  <2>4. CASE DlqClear BY <1>0, <2>4 DEF DlqClear, IsDead
  <2>5. CASE DlqPut BY <2>5 DEF DlqPut
  <2> QED BY <1>3, <2>1, <2>2, <2>3, <2>4, <2>5 DEF DlqStep
<1>4. ASSUME NEW k \in Workers, WorkerStep(k)
      PROVE  /\ WorkerMark(k) /\ wtask[k].id = t /\ conn = "open"
             /\ wal'[t] = IF wok[k] THEN "none" ELSE "dead"
  <2>1. CASE WorkerMark(k)
    BY <1>0, <2>1 DEF WorkerMark, WorkerDies, DeleteWal, MarkDeadWal, TypeOK
  <2>2. CASE WorkerFail(k) BY <2>2 DEF WorkerFail, WorkerDies
  <2>3. CASE WorkerCheck(k) \/ WorkerGet(k) \/ WorkerTimeout(k) \/ WorkerApply(k)
             \/ WorkerNotify(k)
    BY <2>3 DEF WorkerCheck, WorkerGet, WorkerTimeout, WorkerApply, WorkerNotify
  <2> QED BY <1>4, <2>1, <2>2, <2>3 DEF WorkerStep
<1>5. CASE Crash \/ UNCHANGED vars BY <1>5 DEF Crash, vars
<1> QED BY <1>1, <1>2, <1>3, <1>4, <1>5 DEF Next

\* A pending row is deleted by a worker that has applied its write or by the
\* thread that inserted it and met a full queue, and by nobody else (_delete_wal,
\* _mark_done_wal, _mark_dead_wal, dlq_clear), whatever crashes, disable() calls
\* and duplicates there are.
THEOREM RowsResolved == Spec => RowsLeaveResolved
<1> DEFINE Inv == TypeOK /\ Carries /\ WorkerTold
           Leave == \A t \in Tasks :
                      wal[t] = "pending" /\ wal'[t] = "none" =>
                        \/ applied[WorkOf(t)] > 0
                        \/ t \in Works /\ call'[t] = "refused"
                        \/ dlq.pc = "full" /\ dlq.new = t
<1>1. Init => Inv BY InitType, InitCarries DEF Init, WorkerTold
<1>2. Inv /\ [Next]_vars => Inv'
  BY NextType, NextCarries, NextWorkerTold
<1>3. Inv /\ [Next]_vars => [Leave]_vars
  <2> SUFFICES ASSUME Inv, [Next]_vars, NEW t \in Tasks,
                      wal[t] = "pending", wal'[t] = "none"
               PROVE  \/ applied[WorkOf(t)] > 0
                      \/ t \in Works /\ call'[t] = "refused"
                      \/ dlq.pc = "full" /\ dlq.new = t
    OBVIOUS
  <2>1. \/ t \in Works /\ Refuse(t) /\ conn = "open"
        \/ DlqRefuse /\ dlq.new = t
        \/ \E k \in Workers : WorkerMark(k) /\ wtask[k].id = t /\ wok[k]
    BY RowSteps
  <2>2. ASSUME t \in Works, Refuse(t), conn = "open" PROVE call'[t] = "refused"
    BY <2>2 DEF Refuse, TypeOK
  <2>3. ASSUME DlqRefuse PROVE dlq.pc = "full" BY <2>3 DEF DlqRefuse
  <2>4. ASSUME NEW k \in Workers, wtask[k].id = t, wok[k] PROVE applied[WorkOf(t)] > 0
    BY <2>4 DEF WorkerTold
  <2> QED BY <2>1, <2>2, <2>3, <2>4
<1>4. [][Leave]_vars => RowsLeaveResolved BY DEF RowsLeaveResolved
<1> HIDE DEF Inv, Leave
<1> QED BY <1>1, <1>2, <1>3, <1>4, PTL DEF Spec

-----------------------------------------------------------------------------
(***************************************************************************)
(* AcceptedNeverLost, while nobody calls disable(): then the connection is *)
(* open whenever a call meets an enabled queue, so the row is there before *)
(* the task can be. A row goes only when its write took effect, when the   *)
(* operator clears it, or when a copy of it has taken its place; that copy *)
(* is lost in one case only, when the queue is full at the end of          *)
(* dlq_replay (DlqRefuse), and the theorem is about behaviors without it.  *)
(***************************************************************************)

Live(t) == wal[t] \in {"pending", "dead"}

Kept(w) == applied[w] > 0 \/ w \in cleared \/ \E t \in TasksOf(w) : Live(t)

Served ==
  /\ life \in {"off", "select", "replay", "on"}
  /\ enabled => conn = "open"
  /\ life # "off" => enabled
  /\ \A w \in Works : call[w] = "persist" => enabled

CallsKept == \A w \in Works : call[w] \in {"put", "wait", "queued", "orphan"} => Kept(w)

\* Before the old row is retired, the copy stands for the write.
CopyKept ==
  dlq.pc = "retire" =>
    /\ dlq.new # dlq.old
    /\ WorkOf(dlq.new) = WorkOf(dlq.old) /\ WorkOf(dlq.new) \in Works
    /\ applied[WorkOf(dlq.new)] > 0 \/ Live(dlq.new)

LEMMA NextServed ==
  ASSUME MaxDisables = 0
  PROVE  TypeOK /\ Served /\ [Next]_vars => Served'
<1> SUFFICES ASSUME TypeOK, Served, [Next]_vars PROVE Served'
  OBVIOUS
<1> USE DEF walVars, store, confVars, lifeVars, workVars, callVars, restVars
<1>0. ~(disables < MaxDisables) BY DEF TypeOK
<1>1. CASE LifeStep
  BY <1>0, <1>1 DEF Served, LifeStep, Enable, ReplaySelect, ReplayPut, ReplayFull,
     StartWorker, DisableSignal, DisableJoin, DisableClose, DisableForget, DisableReset
<1>2. ASSUME NEW w \in Works, CallStep(w) PROVE Served'
  <2>1. UNCHANGED <<life, enabled, conn>>
    BY <1>2 DEF CallStep, CallQueued, CallDirect, RunDirect, Persist, PutNowait, Refuse, Return
  <2>2. \A v \in Works : call'[v] = "persist" => call[v] = "persist" \/ enabled
    BY <1>2 DEF CallStep, CallQueued, CallDirect, RunDirect, Persist, PutNowait, Refuse,
       Return, TypeOK
  <2> QED BY <2>1, <2>2 DEF Served
<1>3. CASE DlqStep
  BY <1>3 DEF Served, DlqStep, DlqReplay, DlqRetire, DlqPut, DlqRefuse, DlqClear
<1>4. ASSUME NEW k \in Workers, WorkerStep(k) PROVE Served'
  BY <1>4 DEF Served, WorkerStep, WorkerCheck, WorkerGet, WorkerTimeout, WorkerApply,
     WorkerFail, WorkerMark, WorkerNotify
<1>5. CASE Crash
  <2>1. \A w \in Works : call'[w] # "persist" BY <1>5 DEF Crash
  <2> QED BY <1>5, <2>1 DEF Served, Crash
<1>6. CASE UNCHANGED vars BY <1>6 DEF vars, Served
<1> QED BY <1>1, <1>2, <1>3, <1>4, <1>5, <1>6 DEF Next

\* The tasks of a work stay its tasks.
LEMMA TasksStay ==
  ASSUME TypeOK, [Next]_vars, NEW w \in Works, NEW t \in TasksOf(w)
  PROVE  t \in TasksOf(w)' /\ WorkOf(t)' = w
<1>1. t \in CarriedTasks /\ WorkOf(t) = w BY DEF TasksOf, CarriedTasks
<1> QED BY <1>1, CarriedGrows DEF TasksOf, Tasks

\* A live row goes only after its operation took effect, with the operator's
\* knowledge, or in favour of a copy; a failed task leaves a dead letter.
LEMMA RowStays ==
  ASSUME TypeOK, WorkerTold, CopyKept, [Next]_vars, ~DlqRefuse,
         NEW w \in Works, NEW t \in TasksOf(w), Live(t), ~(t \in Works /\ Refuse(t))
  PROVE  Kept(w)'
<1>0. t \in Tasks /\ WorkOf(t) = w /\ t \in TasksOf(w)' BY TasksStay DEF TasksOf
<1>1. ASSUME wal'[t] \in {"pending", "dead"} PROVE Kept(w)'
  BY <1>0, <1>1 DEF Kept, Live
<1>2. ASSUME applied[w] > 0 PROVE Kept(w)' BY <1>2, AppliedGrows DEF Kept
<1>3. CASE wal'[t] = wal[t] BY <1>1, <1>3 DEF Live
<1>4. CASE DlqRetire /\ dlq.old = t
  <2> DEFINE n == dlq.new
  <2>1. /\ n # t /\ WorkOf(n) = w /\ n \in Tasks
        /\ applied[w] > 0 \/ Live(n)
    BY <1>0, <1>4 DEF DlqRetire, CopyKept, TypeOK, DlqIdle, Tasks
  <2>2. n \in TasksOf(w) BY <2>1 DEF TasksOf
  <2>3. wal'[n] = wal[n] BY <1>4, <2>1 DEF DlqRetire, RetireWal, TypeOK
  <2> HIDE DEF n
  <2>4. n \in TasksOf(w)' BY <2>2, TasksStay
  <2> QED BY <1>2, <2>1, <2>3, <2>4 DEF Kept, Live
<1>5. CASE DlqClear
  <2>1. CASE HasRow(w, "pending")
    <3>1. PICK u \in TasksOf(w) : wal[u] = "pending" BY <2>1 DEF HasRow
    <3>2. wal'[u] = "pending" BY <1>5, <3>1 DEF DlqClear, IsDead, TasksOf
    <3>3. u \in TasksOf(w)' BY TasksStay
    <3> QED BY <3>2, <3>3 DEF Kept, Live
  <2>2. CASE ~HasRow(w, "pending")
    <3>1. HasRow(w, "dead") BY <2>2 DEF HasRow, Live
    <3>2. w \in cleared' BY <1>5, <2>2, <3>1 DEF DlqClear
    <3> QED BY <3>2 DEF Kept
  <2> QED BY <2>1, <2>2
<1>6. ASSUME NEW k \in Workers, wtask[k].id = t, wok[k] PROVE Kept(w)'
  <2>1. applied[w] > 0 BY <1>0, <1>6 DEF WorkerTold
  <2> QED BY <2>1, <1>2
<1> QED BY <1>0, <1>1, <1>3, <1>4, <1>5, <1>6, RowSteps

LEMMA NextKept ==
  TypeOK /\ WorkerTold /\ Served /\ CopyKept /\ CallsKept /\ [Next]_vars /\ ~DlqRefuse
    => CallsKept'
<1> SUFFICES ASSUME TypeOK, WorkerTold, Served, CopyKept, CallsKept, [Next]_vars,
                    ~DlqRefuse, NEW w \in Works,
                    call'[w] \in {"put", "wait", "queued", "orphan"}
             PROVE  Kept(w)'
  BY DEF CallsKept
<1> USE DEF walVars, store, confVars, lifeVars, workVars, callVars, restVars
<1>1. CASE call[w] \in {"put", "wait", "queued", "orphan"}
  <2>1. Kept(w) BY <1>1 DEF CallsKept
  <2>2. CASE applied[w] > 0 BY <2>2, AppliedGrows DEF Kept
  <2>3. CASE w \in cleared
    <3>1. cleared \subseteq cleared'
      BY DEF Next, LifeStep, Enable, ReplaySelect, ReplayPut, ReplayFull, StartWorker,
         DisableSignal, DisableJoin, DisableClose, DisableForget, DisableReset,
         CallStep, CallQueued, CallDirect, RunDirect, Persist, PutNowait, Refuse, Return,
         DlqStep, DlqReplay, DlqRetire, DlqPut, DlqRefuse, DlqClear,
         WorkerStep, WorkerCheck, WorkerGet, WorkerTimeout, WorkerApply, WorkerFail,
         WorkerMark, WorkerNotify, Crash, vars
    <3> QED BY <2>3, <3>1 DEF Kept
  <2>4. ASSUME NEW t \in TasksOf(w), Live(t) PROVE Kept(w)'
    <3>1. ~(t \in Works /\ Refuse(t))
      <4> SUFFICES ASSUME t \in Works, Refuse(t) PROVE FALSE
        OBVIOUS
      <4>1. t = w BY DEF TasksOf, WorkOf
      <4> QED BY <1>1, <4>1 DEF Refuse
    <3> QED BY <2>4, <3>1, RowStays
  <2> QED BY <2>1, <2>2, <2>3, <2>4 DEF Kept
<1>2. CASE call[w] \notin {"put", "wait", "queued", "orphan"}
  <2>1. CASE Persist(w)
    <3>1. conn = "open" BY <2>1 DEF Persist, Served
    <3>2. wal'[w] = "pending" BY <2>1, <3>1 DEF Persist, PersistWal, TypeOK, Tasks
    <3>3. w \in TasksOf(w)' BY DEF TasksOf, WorkOf, Tasks
    <3> QED BY <3>2, <3>3 DEF Kept, Live
  <2>2. call'[w] = call[w] \/ Persist(w)
    <3>1. CASE LifeStep
      BY <3>1 DEF LifeStep, Enable, ReplaySelect, ReplayPut, ReplayFull, StartWorker,
         DisableSignal, DisableJoin, DisableClose, DisableForget, DisableReset
    <3>2. ASSUME NEW v \in Works, CallStep(v) PROVE call'[w] = call[w] \/ Persist(w)
      <4>1. CASE v # w
        BY <3>2, <4>1 DEF CallStep, CallQueued, CallDirect, RunDirect, Persist, PutNowait,
           Refuse, Return, TypeOK
      <4>2. CASE v = w
        BY <1>2, <3>2, <4>2 DEF CallStep, CallQueued, CallDirect, RunDirect, PutNowait,
           Refuse, Return, TypeOK
      <4> QED BY <4>1, <4>2
    <3>3. CASE DlqStep
      BY <3>3 DEF DlqStep, DlqReplay, DlqRetire, DlqPut, DlqRefuse, DlqClear
    <3>4. ASSUME NEW k \in Workers, WorkerStep(k) PROVE call'[w] = call[w]
      BY <3>4 DEF WorkerStep, WorkerCheck, WorkerGet, WorkerTimeout, WorkerApply,
         WorkerFail, WorkerMark, WorkerNotify
    <3>5. CASE Crash BY <1>2, <3>5 DEF Crash, TypeOK, CallPcs
    <3>6. CASE UNCHANGED vars BY <3>6 DEF vars
    <3> QED BY <3>1, <3>2, <3>3, <3>4, <3>5, <3>6 DEF Next
  <2> QED BY <1>2, <2>1, <2>2
<1> QED BY <1>1, <1>2

LEMMA NextCopyKept ==
  TypeOK /\ Carries /\ WorkerTold /\ CopyKept /\ [Next]_vars => CopyKept'
<1> SUFFICES ASSUME TypeOK, Carries, WorkerTold, CopyKept, [Next]_vars,
                    dlq'.pc = "retire"
             PROVE  CopyKept'
  BY DEF CopyKept
<1> USE DEF walVars, store, confVars, lifeVars, workVars, callVars, restVars
<1>1. ASSUME NEW t \in Tasks, NEW n \in ReplayIds, DlqReplay(t, n) PROVE CopyKept'
  <2>1. /\ dlq' = [pc |-> "retire", old |-> t, new |-> n]
        /\ copyOf[n] = None /\ copyOf' = [copyOf EXCEPT ![n] = WorkOf(t)]
        /\ wal' = [wal EXCEPT ![n] = "pending"]
        /\ wal[t] = "dead"
    BY <1>1 DEF DlqReplay, PersistWal
  <2>2. t \in CarriedTasks /\ WorkOf(t) \in Works BY <2>1 DEF Carries, CarriedTasks
  <2>3. WorkOf(n)' = WorkOf(t)
    BY <2>1, QueueAssumption DEF WorkOf, TypeOK
  <2>4. WorkOf(t)' = WorkOf(t) BY <2>2, CarriedGrows
  <2>5. n # t BY <2>1, <2>2, QueueAssumption DEF WorkOf
  <2>6. wal'[n] = "pending" BY <2>1 DEF TypeOK, Tasks
  <2> QED BY <2>1, <2>2, <2>3, <2>4, <2>5, <2>6 DEF CopyKept, Live
<1>2. CASE dlq' = dlq
  <2> DEFINE n == dlq.new
             w == WorkOf(n)
  <2>0. n \in ReplayIds /\ dlq.old \in Tasks BY <1>2 DEF TypeOK, DlqIdle
  <2>1. /\ n # dlq.old /\ w = WorkOf(dlq.old) /\ w \in Works
        /\ applied[w] > 0 \/ Live(n)
    BY <1>2 DEF CopyKept
  <2>2. /\ n \in CarriedTasks /\ dlq.old \in CarriedTasks
    BY <2>0, <2>1 DEF CarriedTasks, Tasks
  <2>3. WorkOf(n)' = w /\ WorkOf(dlq.old)' = w BY <1>2, <2>1, <2>2, CarriedGrows
  <2>4. applied[w] > 0 => applied'[w] > 0 BY <2>1, AppliedGrows
  <2>5. applied'[w] > 0 \/ wal'[n] \in {"pending", "dead"}
    <3>1. CASE applied[w] > 0 BY <2>4, <3>1
    <3>2. CASE wal'[n] = wal[n] BY <2>1, <2>4, <3>2 DEF Live
    <3>3. ASSUME NEW k \in Workers, wtask[k].id = n, wok[k] PROVE applied[w] > 0
      BY <3>3 DEF WorkerTold
    <3>4. n \notin Works /\ n \in Tasks BY <2>0, QueueAssumption DEF Tasks
    <3>5. ~DlqRetire
      BY <1>2 DEF DlqRetire, TypeOK, DlqIdle
    <3>6. ~DlqRefuse /\ ~DlqClear BY <1>2 DEF DlqRefuse, DlqClear
    <3> QED BY <3>1, <3>2, <3>3, <3>4, <3>5, <3>6, RowSteps
  <2> QED BY <1>2, <2>1, <2>3, <2>5 DEF CopyKept, Live
<1>3. \/ dlq' = dlq
      \/ \E t \in Tasks, n \in ReplayIds : DlqReplay(t, n)
  <2>1. CASE LifeStep
    BY <2>1 DEF LifeStep, Enable, ReplaySelect, ReplayPut, ReplayFull, StartWorker,
       DisableSignal, DisableJoin, DisableClose, DisableForget, DisableReset
  <2>2. ASSUME NEW w \in Works, CallStep(w) PROVE dlq' = dlq
    BY <2>2 DEF CallStep, CallQueued, CallDirect, RunDirect, Persist, PutNowait, Refuse,
       Return
  <2>3. CASE DlqStep
    <3>1. CASE DlqRetire
      BY <3>1 DEF DlqRetire, DlqIdle, TypeOK
    <3>2. CASE DlqPut
      BY <3>2 DEF DlqPut, DlqIdle, TypeOK
    <3>3. CASE DlqRefuse BY <3>3 DEF DlqRefuse, DlqIdle
    <3>4. CASE DlqClear BY <3>4 DEF DlqClear
    <3> QED BY <2>3, <3>1, <3>2, <3>3, <3>4 DEF DlqStep
  <2>4. ASSUME NEW k \in Workers, WorkerStep(k) PROVE dlq' = dlq
    BY <2>4 DEF WorkerStep, WorkerCheck, WorkerGet, WorkerTimeout, WorkerApply,
       WorkerFail, WorkerMark, WorkerNotify
  <2>5. CASE Crash BY <2>5 DEF Crash, DlqIdle
  <2>6. CASE UNCHANGED vars BY <2>6 DEF vars
  <2> QED BY <2>1, <2>2, <2>3, <2>4, <2>5, <2>6 DEF Next
<1> QED BY <1>1, <1>2, <1>3

\* Whatever is accepted has a row until it has taken effect or the operator
\* cleared it, through any number of crashes, refused calls, calls that come
\* during the replay and dead letters that are replayed, as long as the queue is
\* not disabled and no dlq_replay ends in a full queue (its handler of queue.Full
\* deletes the new row when the old one no longer counts as a dead letter).
THEOREM AcceptedKept ==
  ASSUME MaxDisables = 0
  PROVE  Spec /\ [][~DlqRefuse]_vars => []AcceptedNeverLost
<1> DEFINE Inv == TypeOK /\ Carries /\ WorkerTold /\ Served /\ CopyKept /\ CallsKept
<1>1. Init => Inv
  BY InitType, InitCarries DEF Init, WorkerTold, Served, CopyKept, CallsKept, DlqIdle
<1>2. Inv /\ [Next]_vars /\ [~DlqRefuse]_vars => Inv'
  <2> SUFFICES ASSUME Inv, [Next]_vars, ~DlqRefuse \/ UNCHANGED vars PROVE Inv'
    OBVIOUS
  <2>1. TypeOK' /\ Carries' /\ WorkerTold' /\ Served' /\ CopyKept'
    BY NextType, NextCarries, NextWorkerTold, NextServed, NextCopyKept
  <2>2. CASE ~DlqRefuse BY <2>1, <2>2, NextKept
  <2>3. CASE UNCHANGED vars
    <3>1. CallsKept'
      BY <2>3 DEF vars, CallsKept, Kept, Live, TasksOf, WorkOf
    <3> QED BY <2>1, <3>1
  <2> QED BY <2>2, <2>3
<1>3. Inv => AcceptedNeverLost
  <2> SUFFICES ASSUME Inv, NEW w \in Works, call[w] \in {"wait", "queued", "orphan"}
               PROVE  \/ applied[w] > 0
                      \/ HasRow(w, "pending") \/ HasRow(w, "dead")
                      \/ w \in cleared
    BY DEF AcceptedNeverLost
  <2>1. Kept(w) BY DEF CallsKept
  <2> QED BY <2>1 DEF Kept, Live, HasRow
<1> HIDE DEF Inv
<1> QED BY <1>1, <1>2, <1>3, PTL DEF Spec

-----------------------------------------------------------------------------
(***************************************************************************)
(* Serialized: which worker threads can be there besides the current one.  *)
(***************************************************************************)

\* A worker that has not ended is the one of the current enable(), and the queue
\* is up or disable() waits for it, or it is one that a join gave up on.
OneWorker ==
  /\ \A k \in Workers : wpc[k] # "off" => k = cur \/ k \in outlived
  /\ life \notin {"on", "join"} => \A k \in Workers : wpc[k] # "off" => k \in outlived

LEMMA NextOneWorker == TypeOK /\ OneWorker /\ [Next]_vars => OneWorker'
<1> SUFFICES ASSUME TypeOK, OneWorker, [Next]_vars PROVE OneWorker'
  OBVIOUS
<1> USE DEF walVars, store, confVars, lifeVars, workVars, callVars, restVars
<1>0. wpc \in [Workers -> WorkerPcs] BY DEF TypeOK
<1>1. CASE LifeStep
  <2>1. CASE StartWorker BY <1>0, <2>1 DEF StartWorker, OneWorker
  <2>2. CASE DisableJoin BY <2>2 DEF DisableJoin, JoinReturns, OneWorker
  <2>3. CASE \/ Enable \/ ReplaySelect \/ ReplayPut \/ ReplayFull \/ DisableSignal
             \/ DisableClose \/ DisableForget \/ DisableReset
    BY <2>3 DEF Enable, ReplaySelect, ReplayPut, ReplayFull, DisableSignal,
       DisableClose, DisableForget, DisableReset, OneWorker
  <2> QED BY <1>1, <2>1, <2>2, <2>3 DEF LifeStep
<1>2. ASSUME NEW w \in Works, CallStep(w) PROVE OneWorker'
  BY <1>2 DEF CallStep, CallQueued, CallDirect, RunDirect, Persist, PutNowait, Refuse, Return,
     OneWorker
<1>3. CASE DlqStep
  BY <1>3 DEF DlqStep, DlqReplay, DlqRetire, DlqPut, DlqRefuse, DlqClear, OneWorker
<1>4. ASSUME NEW k \in Workers, WorkerStep(k) PROVE OneWorker'
  <2>1. wpc[k] # "off" /\ UNCHANGED <<life, cur, outlived>>
    BY <1>4 DEF WorkerStep, WorkerCheck, WorkerGet, WorkerTimeout, WorkerApply,
       WorkerFail, WorkerMark, WorkerNotify
  <2>2. \A j \in Workers \ {k} : wpc'[j] = wpc[j]
    BY <1>0, <1>4 DEF WorkerStep, WorkerCheck, WorkerGet, WorkerTimeout, WorkerApply,
       WorkerFail, WorkerMark, WorkerNotify, WorkerDies
  <2> QED BY <2>1, <2>2 DEF OneWorker
<1>5. CASE Crash BY <1>5 DEF Crash, OneWorker
<1>6. CASE UNCHANGED vars BY <1>6 DEF vars, OneWorker
<1> QED BY <1>1, <1>2, <1>3, <1>4, <1>5, <1>6 DEF Next

\* Operations of the queue run one at a time, through any number of enable() and
\* disable() calls, crashes and workers, but for a worker that was still busy when
\* join(timeout=10.0) gave up on it: whoever runs at the same time as another has
\* been left behind by a disable(), or the other one has.
THEOREM OneAtATime == Spec => []Serialized
<1>1. Init => OneWorker BY DEF Init, OneWorker
<1>2. TypeOK /\ OneWorker /\ [Next]_vars => OneWorker' BY NextOneWorker
<1>3. OneWorker => Serialized BY DEF OneWorker, Serialized
<1> QED BY <1>1, <1>2, <1>3, TypeCorrect, PTL DEF Spec

-----------------------------------------------------------------------------
(***************************************************************************)
(* PendingIsScheduled. A pending row is in somebody's hands from the       *)
(* moment _replay_wal has read the table until the connection is closed;   *)
(* only a replay that finds the queue full lets go of rows (it logs how    *)
(* many). A worker that is past the statement on the row does not count.   *)
(***************************************************************************)

Queued(t) == \E i \in DOMAIN queue : queue[i].id = t

WorksOn(k, t) == wpc[k] \in {"run", "mark"} /\ wtask[k].id = t

InHands(t) ==
  \/ Queued(t)
  \/ \E k \in Workers : WorksOn(k, t)
  \/ t \in Works /\ call[t] \in {"put", "full"}
  \/ dlq.pc # "idle" /\ dlq.new = t

Scheduled ==
  /\ life \in {"select", "replay", "on", "join", "close"} => conn = "open"
  /\ life \in {"replay", "on", "join", "close"} =>
       \A t \in Tasks : wal[t] = "pending" => InHands(t) \/ t \in replay
  /\ life # "replay" => replay = {}

\* What an append adds to the queue, and that it loses nothing.
LEMMA PutQueues ==
  ASSUME TypeOK, NEW e \in Entries, queue' = Append(queue, e)
  PROVE  /\ Queued(e.id)'
         /\ \A t : Queued(t) => Queued(t)'
         /\ \A t : Queued(t)' => Queued(t) \/ t = e.id
<1>1. queue \in Seq(Entries) BY DEF TypeOK
<1>2. /\ Len(queue') = Len(queue) + 1 /\ DOMAIN queue = 1..Len(queue)
      /\ DOMAIN queue' = 1..Len(queue') /\ Len(queue) \in Nat
      /\ \A i \in 1..Len(queue) : queue'[i] = queue[i]
      /\ queue'[Len(queue) + 1] = e
  BY <1>1
<1>3. Queued(e.id)' BY <1>2 DEF Queued
<1>4. \A t : Queued(t) => Queued(t)' BY <1>2 DEF Queued
<1>5. \A t : Queued(t)' => Queued(t) \/ t = e.id BY <1>2 DEF Queued
<1> QED BY <1>3, <1>4, <1>5

\* get() takes the first task and leaves the others.
LEMMA GetQueues ==
  ASSUME TypeOK, queue # <<>>, queue' = Tail(queue)
  PROVE  /\ Queued(Head(queue).id) /\ Head(queue) \in Entries
         /\ \A t : Queued(t) => Queued(t)' \/ t = Head(queue).id
         /\ \A t : Queued(t)' => Queued(t)
<1>1. queue \in Seq(Entries) BY DEF TypeOK
<1>2. /\ Len(queue') = Len(queue) - 1 /\ DOMAIN queue = 1..Len(queue)
      /\ DOMAIN queue' = 1..Len(queue') /\ Len(queue) \in Nat /\ Len(queue) > 0
      /\ \A i \in 1..Len(queue') : queue'[i] = queue[i + 1]
      /\ Head(queue) = queue[1] /\ Head(queue) \in Entries
  BY <1>1
<1>3. Queued(Head(queue).id) BY <1>2 DEF Queued
<1>4. ASSUME NEW t, Queued(t), t # Head(queue).id PROVE Queued(t)'
  <2>1. PICK i \in 1..Len(queue) : queue[i].id = t BY <1>2, <1>4 DEF Queued
  <2>2. i - 1 \in 1..Len(queue') /\ queue'[i - 1] = queue[i] BY <1>2, <1>4, <2>1
  <2> QED BY <1>2, <2>1, <2>2 DEF Queued
<1>5. \A t : Queued(t)' => Queued(t)
  BY <1>2 DEF Queued
<1> QED BY <1>2, <1>3, <1>4, <1>5

\* Steps of one worker: the others keep their tasks.
LEMMA OthersWork ==
  ASSUME TypeOK, NEW k \in Workers, WorkerStep(k)
  PROVE  \A j \in Workers \ {k} : wpc'[j] = wpc[j] /\ wtask'[j] = wtask[j] /\ wok'[j] = wok[j]
BY DEF WorkerStep, WorkerCheck, WorkerGet, WorkerTimeout, WorkerApply,
   WorkerFail, WorkerMark, WorkerNotify, WorkerDies, TypeOK, workVars

LEMMA NextScheduled ==
  TypeOK /\ Scheduled /\ [Next]_vars /\ ~ReplayFull => Scheduled'
<1> SUFFICES ASSUME TypeOK, Scheduled, [Next]_vars, ~ReplayFull PROVE Scheduled'
  OBVIOUS
<1> USE DEF walVars, store, confVars, lifeVars, workVars, callVars, restVars
<1>1. CASE LifeStep
  <2>1. CASE Enable BY <2>1 DEF Enable, Scheduled
  <2>2. CASE ReplaySelect
    BY <2>2 DEF ReplaySelect, Unfinished, Scheduled
  <2>3. CASE ReplayPut
    <3>1. PICK t \in replay : /\ queue' = Append(queue, [id |-> t, ev |-> FALSE])
                              /\ replay' = replay \ {t}
      BY <2>3 DEF ReplayPut
    <3>2. [id |-> t, ev |-> FALSE] \in Entries BY <3>1 DEF TypeOK, Entries
    <3>3. Queued(t)' /\ \A u : Queued(u) => Queued(u)' BY <3>1, <3>2, PutQueues
    <3> QED BY <2>3, <3>1, <3>3 DEF ReplayPut, Scheduled, InHands, WorksOn
  <2>4. CASE StartWorker
    <3>1. \A t, k : k \in Workers /\ WorksOn(k, t) => WorksOn(k, t)'
      BY <2>4 DEF StartWorker, WorksOn, TypeOK
    <3> QED BY <2>4, <3>1 DEF StartWorker, Scheduled, InHands, Queued
  <2>5. CASE \/ DisableSignal \/ DisableJoin \/ DisableClose \/ DisableForget
             \/ DisableReset
    BY <2>5 DEF DisableSignal, DisableJoin, DisableClose, DisableForget, DisableReset,
       Scheduled, InHands, Queued, WorksOn
  <2> QED BY <1>1, <2>1, <2>2, <2>3, <2>4, <2>5 DEF LifeStep
<1>2. CASE Crash BY <1>2 DEF Crash, Scheduled
<1>3. CASE UNCHANGED vars
  BY <1>3 DEF vars, Scheduled, InHands, Queued, WorksOn
<1>4. ASSUME UNCHANGED <<life, replay, conn>>,
             life \in {"replay", "on", "join", "close"} =>
               \A t \in Tasks :
                 wal'[t] = "pending" => InHands(t)' \/ (wal[t] = "pending" /\ ~InHands(t))
      PROVE  Scheduled'
  BY <1>4 DEF Scheduled
<1>5. ASSUME NEW w \in Works, CallStep(w) PROVE Scheduled'
  <2>1. UNCHANGED <<life, replay, conn, dlq, wpc, wtask>>
    BY <1>5 DEF CallStep, CallQueued, CallDirect, RunDirect, Persist, PutNowait, Refuse, Return
  <2>2. SUFFICES ASSUME life \in {"replay", "on", "join", "close"},
                        NEW t \in Tasks, wal'[t] = "pending", InHands(t) \/ wal[t] # "pending"
                 PROVE  InHands(t)'
    BY <1>4, <2>1
  <2>3. conn = "open" BY <2>2 DEF Scheduled
  <2>4. CASE Persist(w)
    <3>1. t = w \/ InHands(t) BY <2>2, <2>4 DEF Persist, PersistWal, TypeOK
    <3>2. t = w => call'[t] = "put" BY <2>3, <2>4 DEF Persist, TypeOK
    <3>3. \A v \in Works : call[v] \in {"put", "full"} => call'[v] \in {"put", "full"}
      BY <2>4 DEF Persist, TypeOK
    <3> QED BY <2>1, <2>2, <2>4, <3>1, <3>2, <3>3 DEF Persist, InHands, Queued, WorksOn
  <2>5. CASE PutNowait(w)
    <3>1. InHands(t) BY <2>2, <2>5 DEF PutNowait
    <3>2. [id |-> w, ev |-> w \in Sync] \in Entries BY DEF Entries, Tasks
    <3>3. /\ Queued(w)' \/ call'[w] = "full"
          /\ \A u : Queued(u) => Queued(u)'
      <4>1. CASE HasRoom BY <2>5, <3>2, <4>1, PutQueues DEF PutNowait
      <4>2. CASE ~HasRoom BY <2>5, <4>2 DEF PutNowait, Queued, TypeOK
      <4> QED BY <4>1, <4>2
    <3>4. \A v \in Works \ {w} : call'[v] = call[v] BY <2>5 DEF PutNowait, TypeOK
    <3> QED BY <2>1, <3>1, <3>3, <3>4 DEF InHands, WorksOn
  <2>6. CASE Refuse(w)
    <3>1. t # w BY <2>2, <2>3, <2>6 DEF Refuse, DeleteWal, TypeOK
    <3>2. InHands(t) BY <2>2, <2>3, <2>6, <3>1 DEF Refuse, DeleteWal, TypeOK
    <3>3. t \in Works => call'[t] = call[t] BY <2>6, <3>1 DEF Refuse, TypeOK
    <3> QED BY <2>1, <2>6, <3>2, <3>3 DEF Refuse, InHands, Queued, WorksOn
  <2>7. CASE CallQueued(w) \/ CallDirect(w) \/ RunDirect(w) \/ Return(w)
    <3>1. UNCHANGED <<wal, queue>> BY <2>7 DEF CallQueued, CallDirect, RunDirect, Return
    <3>2. \A v \in Works : call[v] \in {"put", "full"} => call'[v] = call[v]
      BY <2>7 DEF CallQueued, CallDirect, RunDirect, Return, TypeOK
    <3> QED BY <2>1, <2>2, <3>1, <3>2 DEF InHands, Queued, WorksOn
  <2> QED BY <1>5, <2>4, <2>5, <2>6, <2>7 DEF CallStep
<1>6. CASE DlqStep
  <2>1. UNCHANGED <<life, replay, conn, call, wpc, wtask>>
    BY <1>6 DEF DlqStep, DlqReplay, DlqRetire, DlqPut, DlqRefuse, DlqClear
  <2>2. SUFFICES ASSUME life \in {"replay", "on", "join", "close"},
                        NEW t \in Tasks, wal'[t] = "pending", InHands(t) \/ wal[t] # "pending"
                 PROVE  InHands(t)'
    BY <1>4, <2>1
  <2>3. conn = "open" BY <2>2 DEF Scheduled
  <2>4. ASSUME NEW u \in Tasks, NEW n \in ReplayIds, DlqReplay(u, n) PROVE InHands(t)'
    <3>1. t = n \/ InHands(t) BY <2>2, <2>4 DEF DlqReplay, PersistWal, TypeOK
    <3>2. dlq.pc = "idle" /\ dlq'.pc # "idle" /\ dlq'.new = n BY <2>4 DEF DlqReplay
    <3> QED BY <2>1, <2>4, <3>1, <3>2 DEF DlqReplay, InHands, Queued, WorksOn
  <2>5. CASE DlqRetire
    <3>1. InHands(t) BY <2>2, <2>5 DEF DlqRetire, RetireWal, TypeOK
    <3>2. dlq'.pc = "put" /\ dlq'.new = dlq.new
      BY <2>3, <2>5 DEF DlqRetire, TypeOK, DlqIdle
    <3> QED BY <2>1, <2>5, <3>1, <3>2 DEF DlqRetire, InHands, Queued, WorksOn
  <2>6. CASE DlqPut
    <3>1. InHands(t) BY <2>2, <2>6 DEF DlqPut
    <3>2. [id |-> dlq.new, ev |-> FALSE] \in Entries
      BY <2>6 DEF DlqPut, TypeOK, DlqIdle, Entries, Tasks
    <3>3. CASE HasRoom
      <4>0. PICK n : n = dlq.new OBVIOUS
      <4>1. Queued(n)' /\ \A u : Queued(u) => Queued(u)'
        BY <2>6, <3>2, <3>3, <4>0, PutQueues DEF DlqPut
      <4> QED BY <2>1, <3>1, <4>0, <4>1 DEF InHands, WorksOn
    <3>4. CASE ~HasRoom
      <4>1. dlq'.pc = "full" /\ dlq'.new = dlq.new /\ UNCHANGED queue
        BY <2>6, <3>4 DEF DlqPut, TypeOK, DlqIdle
      <4> QED BY <2>1, <3>1, <4>1 DEF InHands, Queued, WorksOn
    <3> QED BY <3>3, <3>4
  <2>7. CASE DlqRefuse
    <3>1. t # dlq.new /\ InHands(t)
      BY <2>2, <2>3, <2>7 DEF DlqRefuse, DeleteWal, TypeOK
    <3> QED BY <2>1, <2>7, <3>1 DEF DlqRefuse, InHands, Queued, WorksOn
  <2>8. CASE DlqClear
    <3>1. InHands(t) BY <2>2, <2>8 DEF DlqClear
    <3> QED BY <2>1, <2>8, <3>1 DEF DlqClear, InHands, Queued, WorksOn
  <2> QED BY <1>6, <2>4, <2>5, <2>6, <2>7, <2>8 DEF DlqStep
<1>7. ASSUME NEW k \in Workers, WorkerStep(k) PROVE Scheduled'
  <2>1. UNCHANGED <<life, replay, conn, call, dlq>>
    BY <1>7 DEF WorkerStep, WorkerCheck, WorkerGet, WorkerTimeout, WorkerApply,
       WorkerFail, WorkerMark, WorkerNotify
  <2>2. SUFFICES ASSUME life \in {"replay", "on", "join", "close"},
                        NEW t \in Tasks, wal'[t] = "pending", InHands(t) \/ wal[t] # "pending"
                 PROVE  InHands(t)'
    BY <1>4, <2>1
  <2>3. conn = "open" BY <2>2 DEF Scheduled
  <2>4. \A j \in Workers \ {k} : WorksOn(j, t) => WorksOn(j, t)'
    BY <1>7, OthersWork DEF WorksOn
  <2>5. CASE WorkerGet(k)
    <3>1. \A u : Queued(u) => Queued(u)' \/ u = Head(queue).id
      BY <2>5, GetQueues DEF WorkerGet
    <3>2. t = Head(queue).id => WorksOn(k, t)' BY <2>5 DEF WorkerGet, WorksOn, TypeOK
    <3>3. ~WorksOn(k, t) BY <2>5 DEF WorkerGet, WorksOn
    <3> QED BY <2>1, <2>2, <2>4, <2>5, <3>1, <3>2, <3>3 DEF WorkerGet, InHands
  <2>6. CASE WorkerMark(k)
    <3>1. wtask[k].id # t /\ InHands(t)
      BY <2>2, <2>3, <2>6 DEF WorkerMark, DeleteWal, MarkDeadWal, TypeOK
    <3>2. ~WorksOn(k, t) BY <3>1 DEF WorksOn
    <3> QED BY <2>1, <2>4, <2>6, <3>1, <3>2 DEF WorkerMark, InHands, Queued
  <2>7. CASE WorkerApply(k) \/ WorkerFail(k)
    <3>1. WorksOn(k, t) => WorksOn(k, t)'
      BY <2>3, <2>7 DEF WorkerApply, WorkerFail, WorksOn, TypeOK
    <3>2. UNCHANGED <<wal, queue>>
      BY <2>3, <2>7 DEF WorkerApply, WorkerFail
    <3> QED BY <2>1, <2>2, <2>4, <3>1, <3>2 DEF InHands, Queued
  <2>8. CASE WorkerCheck(k) \/ WorkerTimeout(k) \/ WorkerNotify(k)
    <3>1. ~WorksOn(k, t) /\ UNCHANGED <<wal, queue>>
      BY <2>8 DEF WorkerCheck, WorkerTimeout, WorkerNotify, WorksOn
    <3> QED BY <2>1, <2>2, <2>4, <3>1 DEF InHands, Queued
  <2> QED BY <1>7, <2>5, <2>6, <2>7, <2>8 DEF WorkerStep
<1> QED BY <1>1, <1>2, <1>3, <1>5, <1>6, <1>7 DEF Next

LEMMA TasksCarried == Spec => []Carries
BY InitCarries, NextCarries, TypeCorrect, PTL DEF Spec

\* While the queue is up, no pending row waits in vain, as long as no replay
\* found the queue full (_replay_wal logs it), also after disable() and a second
\* enable(), with early calls, worker threads that outlive a join, crashes and
\* replayed dead letters.
THEOREM NoRowWaitsInVain == Spec /\ [][~ReplayFull]_vars => []PendingIsScheduled
<1>1. Init => Scheduled BY DEF Init, Scheduled
<1>2. TypeOK /\ Scheduled /\ [Next]_vars /\ [~ReplayFull]_vars => Scheduled'
  <2> SUFFICES ASSUME TypeOK, Scheduled, [Next]_vars, ~ReplayFull \/ UNCHANGED vars
               PROVE  Scheduled'
    OBVIOUS
  <2>1. CASE UNCHANGED vars
    BY <2>1 DEF vars, Scheduled, InHands, Queued, WorksOn
  <2> QED BY <2>1, NextScheduled
<1>3. Carries /\ Scheduled => PendingIsScheduled
  <2> SUFFICES ASSUME Carries, Scheduled, life = "on", NEW t \in Tasks, wal[t] = "pending"
               PROVE  \/ \E i \in DOMAIN queue : queue[i].id = t
                      \/ \E k \in Workers : wtask[k] # None /\ wtask[k].id = t
                      \/ t \in Works /\ call[t] \in {"put", "full"}
                      \/ dlq.pc # "idle" /\ dlq.new = t
    BY DEF PendingIsScheduled
  <2>1. InHands(t) BY DEF Scheduled
  <2>2. ASSUME NEW k \in Workers, WorksOn(k, t) PROVE wtask[k] # None
    BY <2>2, QueueAssumption DEF WorksOn, Carries, Busy, GoodEntries, Entries, Tasks
  <2> QED BY <2>1, <2>2 DEF InHands, Queued, WorksOn
<1> QED BY <1>1, <1>2, <1>3, TypeCorrect, TasksCarried, PTL DEF Spec

-----------------------------------------------------------------------------
(***************************************************************************)
(* The queue as the server runs it: nobody calls disable() and on_startup  *)
(* has returned from enable() before the first call (MaxDisables = 0 and   *)
(* ~EarlyCalls). Then a task is in one place at a time, which is what      *)
(* RefusedLeavesNoTrace, AckedNeverReapplied and RealTimeOrder rest on.    *)
(***************************************************************************)

\* What a step of a caller, of the operator and of a worker leaves alone.
LEMMA CallFrame ==
  ASSUME TypeOK, NEW w \in Works, CallStep(w)
  PROVE  /\ UNCHANGED <<copyOf, confVars, lifeVars, workVars, event, restVars>>
         /\ \A v \in Works \ {w} : call'[v] = call[v] /\ ahead'[v] = ahead[v]
         /\ \A t \in Tasks \ {w} : wal'[t] = wal[t] /\ older'[t] = older[t]
BY DEF CallStep, CallQueued, CallDirect, RunDirect, Persist, PersistWal, PutNowait, Refuse,
   DeleteWal, Return, TypeOK, walVars, store, callVars

LEMMA DlqFrame ==
  ASSUME DlqStep
  PROVE  UNCHANGED <<applied, confVars, lifeVars, workVars, callVars, crashes, disables>>
BY DEF DlqStep, DlqReplay, DlqRetire, DlqPut, DlqRefuse, DlqClear, walVars, store

LEMMA WorkerFrame ==
  ASSUME NEW k \in Workers, WorkerStep(k)
  PROVE  /\ UNCHANGED <<older, copyOf, confVars, lifeVars, call, ahead, restVars>>
         /\ wpc[k] # "off"
BY DEF WorkerStep, WorkerCheck, WorkerGet, WorkerTimeout, WorkerApply, WorkerFail,
   WorkerMark, WorkerNotify, walVars, store, callVars

\* The lifecycle of one process of the server.
Serving ==
  /\ life \in {"off", "select", "replay", "on"}
  /\ enabled <=> life # "off"
  /\ conn = IF life = "off" THEN "none" ELSE "open"
  /\ life \in {"off", "select"} => queue = <<>>
  /\ life # "replay" => replay = {}
  /\ life # "on" => /\ \A w \in Works : call[w] \notin {"persist", "put", "full"}
                    /\ dlq = DlqIdle
                    /\ \A k \in Workers : wpc[k] = "off"
  /\ \A k \in Workers : wpc[k] # "off" => k = cur

LEMMA NextServing ==
  ASSUME MaxDisables = 0, ~EarlyCalls
  PROVE  TypeOK /\ Serving /\ [Next]_vars => Serving'
<1> SUFFICES ASSUME TypeOK, Serving, [Next]_vars PROVE Serving'
  OBVIOUS
<1> USE DEF walVars, store, confVars, lifeVars, workVars, callVars, restVars
<1>1. CASE LifeStep
  <2>0. ~(disables < MaxDisables) BY DEF TypeOK
  <2>1. CASE StartWorker BY <2>1 DEF StartWorker, Serving, TypeOK
  <2>2. CASE Enable \/ ReplaySelect \/ ReplayPut \/ ReplayFull
    BY <2>2 DEF Enable, ReplaySelect, ReplayPut, ReplayFull, Serving
  <2>3. ~(DisableSignal \/ DisableJoin \/ DisableClose \/ DisableForget \/ DisableReset)
    BY <2>0 DEF DisableSignal, DisableJoin, DisableClose, DisableForget, DisableReset,
       Serving
  <2> QED BY <1>1, <2>1, <2>2, <2>3 DEF LifeStep
<1>2. ASSUME NEW w \in Works, CallStep(w) PROVE Serving'
  <2>1. life = "on" \/ (UNCHANGED queue /\ call'[w] \notin {"persist", "put", "full"})
    BY <1>2 DEF CallStep, CallQueued, CallDirect, RunDirect, Persist, PutNowait, Refuse, Return,
       MayCall, Serving, TypeOK
  <2> QED BY <1>2, <2>1, CallFrame DEF Serving
<1>3. CASE DlqStep
  <2>1. life = "on"
    BY <1>3 DEF DlqStep, DlqReplay, DlqRetire, DlqPut, DlqRefuse, DlqClear, MayCall,
       Serving, DlqIdle
  <2> QED BY <1>3, <2>1, DlqFrame DEF Serving
<1>4. ASSUME NEW k \in Workers, WorkerStep(k) PROVE Serving'
  <2>1. life = "on" /\ k = cur BY <1>4, WorkerFrame DEF Serving
  <2> QED BY <1>4, <2>1, WorkerFrame, OthersWork DEF Serving
<1>5. CASE Crash BY <1>5 DEF Crash, Serving, DlqIdle
<1>6. CASE UNCHANGED vars BY <1>6 DEF vars, Serving
<1> QED BY <1>1, <1>2, <1>3, <1>4, <1>5, <1>6 DEF Next

\* A caller, or the operator, is about to put the task into the queue.
Entering(t) ==
  \/ t \in Works /\ call[t] \in {"put", "full"}
  \/ dlq.pc # "idle" /\ dlq.new = t

\* A task is in one place, and has a pending row.
Once ==
  /\ \A i, j \in DOMAIN queue : queue[i].id = queue[j].id => i = j
  /\ \A t \in Tasks : Queued(t) => t \notin replay /\ ~Entering(t)
                                     /\ \A k \in Workers : ~WorksOn(k, t)
  /\ \A k \in Workers, t \in Tasks : WorksOn(k, t) => ~Entering(t)
  /\ \A t \in Tasks : InHands(t) \/ t \in replay => wal[t] = "pending"

\* How a call stands before its row is there, or after it has gone for good.
Rowless == {"new", "direct", "persist", "refused", "ran", "raised", "broken"}

Begun ==
  /\ \A w \in Works : call[w] \in Rowless => wal[w] = "none"
  /\ \A n \in ReplayIds, w \in Works :
       copyOf[n] = w => wal[w] # "pending" /\ call[w] \notin Rowless
  /\ dlq.pc = "retire" => wal[dlq.old] = "dead"

\* A put keeps the tasks of the queue apart when the new one is not there yet.
LEMMA PutApart ==
  ASSUME TypeOK, NEW e \in Entries, queue' = Append(queue, e), ~Queued(e.id),
         \A i, j \in DOMAIN queue : queue[i].id = queue[j].id => i = j
  PROVE  \A i, j \in DOMAIN queue' : queue'[i].id = queue'[j].id => i = j
<1>1. queue \in Seq(Entries) BY DEF TypeOK
<1>2. /\ DOMAIN queue = 1..Len(queue) /\ Len(queue) \in Nat
      /\ DOMAIN queue' = 1..(Len(queue) + 1)
      /\ \A i \in 1..Len(queue) : queue'[i] = queue[i] /\ queue[i].id # e.id
      /\ queue'[Len(queue) + 1] = e
  BY <1>1 DEF Queued
<1> QED BY <1>2

LEMMA GetApart ==
  ASSUME TypeOK, queue # <<>>, queue' = Tail(queue),
         \A i, j \in DOMAIN queue : queue[i].id = queue[j].id => i = j
  PROVE  /\ \A i, j \in DOMAIN queue' : queue'[i].id = queue'[j].id => i = j
         /\ \A i \in DOMAIN queue' : queue'[i].id # Head(queue).id
<1>1. queue \in Seq(Entries) BY DEF TypeOK
<1>2. /\ DOMAIN queue = 1..Len(queue) /\ Len(queue) \in Nat /\ Len(queue) > 0
      /\ DOMAIN queue' = 1..(Len(queue) - 1)
      /\ \A i \in 1..(Len(queue) - 1) : queue'[i] = queue[i + 1]
      /\ Head(queue) = queue[1]
  BY <1>1
<1>3. \A i \in DOMAIN queue' : i + 1 \in DOMAIN queue /\ i \in Nat /\ i + 1 # 1
                               /\ queue'[i] = queue[i + 1]
  BY <1>2
<1>4. 1 \in DOMAIN queue BY <1>2
<1> QED BY <1>2, <1>3, <1>4

LEMMA NextOnce ==
  ASSUME MaxDisables = 0, ~EarlyCalls
  PROVE  TypeOK /\ Carries /\ Serving /\ Once /\ Begun /\ [Next]_vars => Once'
<1> SUFFICES ASSUME TypeOK, Carries, Serving, Once, Begun, [Next]_vars PROVE Once'
  OBVIOUS
<1> USE DEF walVars, store, confVars, lifeVars, workVars, callVars, restVars
<1>0. wal \in [Tasks -> RowStates] /\ Works \subseteq Tasks /\ ReplayIds \subseteq Tasks
  BY DEF TypeOK, Tasks
<1>1. CASE LifeStep
  <2>1. CASE Enable
    BY <2>1 DEF Enable, Once, Entering, InHands, Queued, WorksOn
  <2>2. CASE ReplaySelect
    <3>1. \A t \in Tasks : ~InHands(t)' /\ ~Queued(t)'
      BY <2>2 DEF ReplaySelect, Serving, InHands, Queued, WorksOn, DlqIdle
    <3>2. queue' = <<>> BY <2>2 DEF ReplaySelect, Serving
    <3>3. \A k \in Workers, t \in Tasks : ~WorksOn(k, t)'
      BY <2>2 DEF ReplaySelect, Serving, WorksOn
    <3>4. \A t \in replay' : wal'[t] = "pending"
      BY <1>0, <2>2 DEF ReplaySelect, Unfinished, RowStates
    <3> QED BY <3>1, <3>2, <3>3, <3>4 DEF Once
  <2>3. CASE ReplayPut
    <3>1. PICK t \in replay : /\ queue' = Append(queue, [id |-> t, ev |-> FALSE])
                              /\ replay' = replay \ {t}
      BY <2>3 DEF ReplayPut
    <3>2. [id |-> t, ev |-> FALSE] \in Entries /\ t \in Tasks
      BY <3>1 DEF TypeOK, Entries
    <3>3. ~Queued(t) BY <3>1, <3>2 DEF Once
    <3>4. /\ \A i, j \in DOMAIN queue' : queue'[i].id = queue'[j].id => i = j
          /\ \A u : Queued(u)' => Queued(u) \/ u = t
      BY <3>1, <3>2, <3>3, PutApart, PutQueues DEF Once
    <3>5. \A u : ~Entering(u)' /\ \A k \in Workers : ~WorksOn(k, u)'
      BY <2>3 DEF ReplayPut, Serving, Entering, WorksOn, DlqIdle
    <3>6. wal' = wal BY <2>3 DEF ReplayPut
    <3> QED BY <3>1, <3>2, <3>4, <3>5, <3>6 DEF Once, InHands, Entering
  <2>4. CASE ReplayFull
    BY <2>4 DEF ReplayFull, Once, Entering, InHands, Queued, WorksOn
  <2>5. CASE StartWorker
    <3>1. \A k \in Workers, t \in Tasks : ~WorksOn(k, t)'
      BY <2>5 DEF StartWorker, Serving, WorksOn, TypeOK
    <3> QED BY <2>5, <3>1 DEF StartWorker, Once, Entering, InHands, Queued
  <2>6. ~(DisableSignal \/ DisableJoin \/ DisableClose \/ DisableForget \/ DisableReset)
    BY DEF DisableSignal, DisableJoin, DisableClose, DisableForget, DisableReset,
       Serving, TypeOK
  <2> QED BY <1>1, <2>1, <2>2, <2>3, <2>4, <2>5, <2>6 DEF LifeStep
<1>2. ASSUME NEW w \in Works, CallStep(w) PROVE Once'
  <2>1. /\ UNCHANGED <<life, replay, wpc, wtask, dlq>>
        /\ \A v \in Works \ {w} : call'[v] = call[v]
        /\ \A t \in Tasks \ {w} : wal'[t] = wal[t]
    BY <1>2, CallFrame
  <2>2. /\ \A t \in Tasks \ {w} : Entering(t)' <=> Entering(t)
        /\ Entering(w)' => call'[w] \in {"put", "full"}
    BY <2>1, QueueAssumption DEF Entering, TypeOK, DlqIdle
  <2>3. \A k, t : WorksOn(k, t)' <=> WorksOn(k, t) BY <2>1 DEF WorksOn
  <2>4. CASE Persist(w)
    <3>1. wal[w] = "none" BY <2>4 DEF Persist, Begun, Rowless
    <3>2. wal'[w] = "pending"
      BY <1>0, <2>4 DEF Persist, PersistWal, Serving
    <3>3. ~Queued(w) /\ \A k \in Workers : ~WorksOn(k, w)
      BY <1>0, <3>1 DEF Once, InHands
    <3>4. queue' = queue BY <2>4 DEF Persist
    <3> QED BY <2>1, <2>2, <2>3, <3>2, <3>3, <3>4 DEF Once, InHands, Entering, Queued, Serving
  <2>5. CASE PutNowait(w)
    <3>1. Entering(w) /\ wal' = wal BY <2>5 DEF PutNowait, Entering
    <3>2. ~Queued(w) /\ \A k \in Workers : ~WorksOn(k, w) BY <1>0, <3>1 DEF Once
    <3>3. CASE HasRoom
      <4>1. [id |-> w, ev |-> w \in Sync] \in Entries BY DEF Entries, Tasks
      <4>2. queue' = Append(queue, [id |-> w, ev |-> w \in Sync])
        BY <2>5, <3>3 DEF PutNowait
      <4>3. /\ \A i, j \in DOMAIN queue' : queue'[i].id = queue'[j].id => i = j
            /\ \A u : Queued(u)' => Queued(u) \/ u = w
        BY <3>2, <4>1, <4>2, PutApart, PutQueues DEF Once
      <4>4. ~Entering(w)' BY <2>2, <2>5, <3>3 DEF PutNowait, TypeOK
      <4>5. w \notin replay BY <2>5 DEF PutNowait, Serving
      <4>6. wal[w] = "pending" BY <1>0, <3>1 DEF Once, Entering, InHands
      <4> QED BY <2>1, <2>2, <2>3, <3>1, <3>2, <4>3, <4>4, <4>5, <4>6
              DEF Once, InHands, Entering
    <3>4. CASE ~HasRoom
      <4>1. queue' = queue BY <2>5, <3>4 DEF PutNowait
      <4> QED BY <2>1, <2>2, <2>3, <3>1, <3>2, <4>1 DEF Once, InHands, Entering, Queued
    <3> QED BY <3>3, <3>4
  <2>6. CASE Refuse(w)
    <3>1. Entering(w) /\ queue' = queue BY <2>6 DEF Refuse, Entering
    <3>2. ~Queued(w) /\ \A k \in Workers : ~WorksOn(k, w) BY <1>0, <3>1 DEF Once
    <3>3. ~Entering(w)' BY <2>2, <2>6 DEF Refuse, TypeOK
    <3>4. w \notin replay BY <2>6 DEF Refuse, Serving
    <3> QED BY <2>1, <2>2, <2>3, <3>1, <3>2, <3>3, <3>4 DEF Once, InHands, Entering, Queued
  <2>7. CASE CallQueued(w) \/ CallDirect(w) \/ RunDirect(w) \/ Return(w)
    <3>1. UNCHANGED <<wal, queue>> BY <2>7 DEF CallQueued, CallDirect, RunDirect, Return
    <3>2. ~Entering(w)'
      BY <2>2, <2>7 DEF CallQueued, CallDirect, RunDirect, Return, TypeOK
    <3> QED BY <2>1, <2>2, <2>3, <3>1, <3>2 DEF Once, InHands, Entering, Queued
  <2> QED BY <1>2, <2>4, <2>5, <2>6, <2>7 DEF CallStep
<1>3. CASE DlqStep
  <2>1. UNCHANGED <<life, replay, wpc, wtask, call>> BY <1>3, DlqFrame
  <2>2. \A k, t : WorksOn(k, t)' <=> WorksOn(k, t) BY <2>1 DEF WorksOn
  <2>3. replay = {}
    BY <1>3 DEF DlqStep, DlqReplay, DlqRetire, DlqPut, DlqRefuse, DlqClear, MayCall,
       Serving, DlqIdle
  <2>4. ASSUME NEW u \in Tasks, NEW n \in ReplayIds, DlqReplay(u, n) PROVE Once'
    <3>1. wal[n] = "none" BY <1>0, <2>4, QueueAssumption
      DEF DlqReplay, Carries, CarriedTasks, WorkOf
    <3>2. ~InHands(n) BY <1>0, <3>1 DEF Once
    <3>3. /\ wal' = [wal EXCEPT ![n] = "pending"] /\ queue' = queue
          /\ dlq.pc = "idle" /\ dlq'.pc # "idle" /\ dlq'.new = n
      BY <2>4 DEF DlqReplay, PersistWal
    <3> QED BY <1>0, <2>1, <2>2, <2>3, <3>2, <3>3 DEF Once, InHands, Entering, Queued
  <2>5. CASE DlqRetire
    <3>1. dlq.old \in Tasks /\ wal[dlq.old] = "dead"
      BY <2>5 DEF DlqRetire, Begun, TypeOK, DlqIdle
    <3>2. ~InHands(dlq.old) BY <3>1 DEF Once
    <3>3. /\ \A t \in Tasks : t # dlq.old => wal'[t] = wal[t]
          /\ queue' = queue
          /\ dlq'.pc # "idle" => dlq.pc # "idle" /\ dlq'.new = dlq.new
      BY <2>5 DEF DlqRetire, RetireWal, TypeOK, DlqIdle
    <3> QED BY <2>1, <2>2, <2>3, <3>1, <3>2, <3>3 DEF Once, InHands, Entering, Queued
  <2>6. CASE DlqPut
    <3>0. PICK n : n = dlq.new OBVIOUS
    <3>1. n \in Tasks /\ n \in ReplayIds /\ Entering(n) /\ wal' = wal
      BY <1>0, <2>6, <3>0 DEF DlqPut, TypeOK, DlqIdle, Entering
    <3>2. ~Queued(n) /\ \A k \in Workers : ~WorksOn(k, n) BY <3>1 DEF Once
    <3>3. CASE HasRoom
      <4>1. [id |-> n, ev |-> FALSE] \in Entries BY <3>1 DEF Entries
      <4>2. queue' = Append(queue, [id |-> n, ev |-> FALSE]) /\ dlq' = DlqIdle
        BY <2>6, <3>0, <3>3 DEF DlqPut
      <4>3. /\ \A i, j \in DOMAIN queue' : queue'[i].id = queue'[j].id => i = j
            /\ \A u : Queued(u)' => Queued(u) \/ u = n
        BY <3>2, <4>1, <4>2, PutApart, PutQueues DEF Once
      <4>4. \A t : Entering(t)' => Entering(t) /\ t # n
        BY <2>1, <3>1, <4>2, QueueAssumption DEF Entering, DlqIdle
      <4>5. wal[n] = "pending" BY <3>1 DEF Once, Entering, InHands
      <4> QED BY <2>1, <2>2, <2>3, <3>1, <3>2, <4>3, <4>4, <4>5
              DEF Once, InHands, Entering
    <3>4. CASE ~HasRoom
      <4>1. queue' = queue BY <2>6, <3>4 DEF DlqPut
      <4>2. \A t : Entering(t)' => Entering(t)
        BY <2>1, <2>6, <3>4 DEF DlqPut, Entering, TypeOK, DlqIdle
      <4> QED BY <2>1, <2>2, <3>1, <4>1, <4>2 DEF Once, InHands, Entering, Queued
    <3> QED BY <3>3, <3>4
  <2>7. CASE DlqRefuse
    <3>1. Entering(dlq.new) /\ dlq.new \in Tasks /\ dlq.new \in ReplayIds /\ queue' = queue
      BY <1>0, <2>7 DEF DlqRefuse, TypeOK, DlqIdle, Entering
    <3>2. ~Queued(dlq.new) /\ \A k \in Workers : ~WorksOn(k, dlq.new) BY <3>1 DEF Once
    <3>3. \A t : Entering(t)' => Entering(t) /\ t # dlq.new
      BY <2>1, <2>7, <3>1, QueueAssumption DEF DlqRefuse, Entering, DlqIdle
    <3>4. \A t \in Tasks : t # dlq.new => wal'[t] = wal[t]
      BY <1>0, <2>7 DEF DlqRefuse, DeleteWal
    <3> QED BY <2>1, <2>2, <2>3, <3>1, <3>2, <3>3, <3>4 DEF Once, InHands, Entering, Queued
  <2>8. CASE DlqClear
    <3>1. \A t \in Tasks : wal[t] = "pending" => wal'[t] = "pending"
      BY <2>8 DEF DlqClear, IsDead
    <3> QED BY <2>1, <2>2, <2>8, <3>1 DEF DlqClear, Once, InHands, Entering, Queued
  <2> QED BY <1>3, <2>4, <2>5, <2>6, <2>7, <2>8 DEF DlqStep
<1>4. ASSUME NEW k \in Workers, WorkerStep(k) PROVE Once'
  <2>1. /\ UNCHANGED <<life, replay, call, dlq>>
        /\ \A j \in Workers \ {k} : wpc[j] = "off" /\ wpc'[j] = "off"
        /\ replay = {} /\ conn = "open"
    BY <1>4, WorkerFrame, OthersWork DEF Serving
  <2>2. /\ \A t : Entering(t)' <=> Entering(t)
        /\ \A j \in Workers \ {k}, t \in Tasks : ~WorksOn(j, t) /\ ~WorksOn(j, t)'
    BY <2>1 DEF Entering, WorksOn
  <2>3. CASE WorkerGet(k)
    <3>1. PICK h : h = Head(queue).id OBVIOUS
    <3>2. Queued(h) /\ h \in Tasks
      BY <2>3, <3>1, GetQueues DEF WorkerGet, Entries
    <3>3. /\ \A i, j \in DOMAIN queue' : queue'[i].id = queue'[j].id => i = j
          /\ ~Queued(h)'
          /\ \A t : Queued(t)' => Queued(t)
      BY <2>3, <3>1, GetApart, GetQueues DEF WorkerGet, Once, Queued
    <3>4. /\ \A t : WorksOn(k, t)' <=> t = h
          /\ \A t : ~WorksOn(k, t)
      BY <2>3, <3>1 DEF WorkerGet, WorksOn, TypeOK
    <3>5. wal' = wal BY <2>3 DEF WorkerGet
    <3> QED BY <2>1, <2>2, <3>2, <3>3, <3>4, <3>5 DEF Once, InHands, Entering
  <2>4. CASE WorkerMark(k)
    <3>1. /\ \A t : ~WorksOn(k, t)' /\ queue' = queue
          /\ \A t \in Tasks : t # wtask[k].id => wal'[t] = wal[t]
      BY <1>0, <2>1, <2>4 DEF WorkerMark, WorksOn, DeleteWal, MarkDeadWal, TypeOK
    <3>2. wtask[k].id \in Tasks /\ WorksOn(k, wtask[k].id)
      BY <2>4 DEF WorkerMark, WorksOn, Carries, Busy, GoodEntries, Entries
    <3>3. ~Queued(wtask[k].id) /\ ~Entering(wtask[k].id) BY <3>2 DEF Once
    <3> QED BY <2>1, <2>2, <3>1, <3>2, <3>3 DEF Once, InHands, Entering, Queued
  <2>5. CASE WorkerApply(k) \/ WorkerFail(k)
    <3>1. /\ \A t : WorksOn(k, t)' <=> WorksOn(k, t)
          /\ UNCHANGED <<wal, queue>>
      BY <2>1, <2>5 DEF WorkerApply, WorkerFail, WorksOn, TypeOK
    <3> QED BY <2>1, <2>2, <3>1 DEF Once, InHands, Entering, Queued
  <2>6. CASE WorkerCheck(k) \/ WorkerTimeout(k) \/ WorkerNotify(k)
    <3>1. (\A t : ~WorksOn(k, t)') /\ UNCHANGED <<wal, queue>>
      BY <2>6 DEF WorkerCheck, WorkerTimeout, WorkerNotify, WorksOn, TypeOK
    <3> QED BY <2>1, <2>2, <3>1 DEF Once, InHands, Entering, Queued
  <2> QED BY <1>4, <2>3, <2>4, <2>5, <2>6 DEF WorkerStep
<1>5. CASE Crash
  <2>1. /\ queue' = <<>> /\ replay' = {} /\ dlq' = DlqIdle
        /\ \A k \in Workers : wpc'[k] = "off"
        /\ \A w \in Works : call'[w] \notin {"put", "full"}
    BY <1>5 DEF Crash, TypeOK
  <2> QED BY <2>1 DEF Once, InHands, Entering, Queued, WorksOn, DlqIdle
<1>6. CASE UNCHANGED vars
  BY <1>6 DEF vars, Once, InHands, Entering, Queued, WorksOn
<1> QED BY <1>1, <1>2, <1>3, <1>4, <1>5, <1>6 DEF Next

\* A call leaves its rowless states when its row is inserted, and comes back only
\* when the row is deleted again; a copied write is past all that.
LEMMA NextBegun ==
  ASSUME MaxDisables = 0, ~EarlyCalls
  PROVE  TypeOK /\ Carries /\ Serving /\ Once /\ Begun /\ [Next]_vars => Begun'
<1> SUFFICES ASSUME TypeOK, Carries, Serving, Once, Begun, [Next]_vars PROVE Begun'
  OBVIOUS
<1> USE DEF walVars, store, confVars, lifeVars, workVars, callVars, restVars
<1>0. /\ wal \in [Tasks -> RowStates] /\ Works \subseteq Tasks /\ ReplayIds \subseteq Tasks
      /\ \A w \in Works : w \notin ReplayIds
  BY QueueAssumption DEF TypeOK, Tasks
<1>1. \A w \in Works : call'[w] # call[w] => CallStep(w) \/ Crash
  <2>1. CASE LifeStep
    BY <2>1 DEF LifeStep, Enable, ReplaySelect, ReplayPut, ReplayFull, StartWorker,
       DisableSignal, DisableJoin, DisableClose, DisableForget, DisableReset
  <2>2. ASSUME NEW v \in Works, CallStep(v)
        PROVE  \A w \in Works : call'[w] # call[w] => w = v
    BY <2>2, CallFrame
  <2>3. ASSUME NEW k \in Workers, WorkerStep(k) PROVE UNCHANGED call
    BY <2>3, WorkerFrame
  <2> QED BY <2>1, <2>2, <2>3, DlqFrame DEF Next, vars
\* How a call comes to be without a row.
<1>2. ASSUME NEW w \in Works, call'[w] \in Rowless
      PROVE  call[w] \in Rowless \/ Refuse(w)
  <2>1. CASE call'[w] = call[w] BY <1>2, <2>1
  <2>2. CASE Crash BY <1>2, <2>2 DEF Crash, Rowless
  <2>3. CASE CallStep(w)
    BY <1>2, <2>3 DEF CallStep, CallQueued, CallDirect, RunDirect, Persist, PutNowait, Return,
       Rowless, TypeOK
  <2> QED BY <1>1, <2>1, <2>2, <2>3
<1>3. ASSUME NEW w \in Works, Refuse(w)
      PROVE  wal'[w] = "none" /\ Entering(w) /\ wal[w] = "pending"
  BY <1>0, <1>3 DEF Refuse, Serving, DeleteWal, Entering, Once, InHands
<1>4. ASSUME NEW w \in Works, call'[w] \in Rowless PROVE wal'[w] = "none"
  <2>1. CASE Refuse(w) BY <1>3, <2>1
  <2>2. CASE call[w] \in Rowless
    <3>1. wal[w] = "none" BY <2>2 DEF Begun
    <3>2. ~Persist(w)
      BY <1>4 DEF Persist, Serving, Rowless, TypeOK
    <3>3. ~(DlqRetire /\ dlq.old = w) BY <3>1 DEF DlqRetire, Begun
    <3>4. ASSUME NEW k \in Workers, WorkerMark(k) PROVE wtask[k].id # w
      <4>1. WorksOn(k, wtask[k].id) BY <3>4 DEF WorkerMark, WorksOn
      <4> QED BY <1>0, <3>1, <4>1 DEF Once, InHands
    <3> QED BY <1>0, <3>1, <3>2, <3>3, <3>4, RowSteps
  <2> QED BY <1>2, <1>4, <2>1, <2>2
<1>5. ASSUME NEW n \in ReplayIds, NEW w \in Works, copyOf'[n] = w
      PROVE  wal'[w] # "pending" /\ call'[w] \notin Rowless
  <2>1. CASE wal[w] # "pending" /\ call[w] \notin Rowless
    <3>1. call'[w] \notin Rowless BY <1>2, <1>3, <2>1
    <3>2. wal'[w] # "pending"
      <4>1. ~Persist(w) BY <2>1 DEF Persist, Rowless
      <4> QED BY <1>0, <2>1, <4>1, RowSteps
    <3> QED BY <3>1, <3>2
  <2>2. CASE copyOf[n] = w BY <2>1, <2>2 DEF Begun
  <2>3. ASSUME NEW u \in Tasks, NEW m \in ReplayIds, DlqReplay(u, m), WorkOf(u) = w
        PROVE  wal[w] # "pending" /\ call[w] \notin Rowless
    <3>1. CASE u = w BY <2>3, <3>1 DEF DlqReplay, Begun
    <3>2. CASE u # w
      <4>1. u \in ReplayIds /\ copyOf[u] = w BY <2>3, <3>2 DEF WorkOf, Tasks
      <4> QED BY <4>1 DEF Begun
    <3> QED BY <3>1, <3>2
  <2>4. CASE copyOf[n] # w
    <3>1. CASE LifeStep
      BY <1>5, <2>4, <3>1 DEF LifeStep, Enable, ReplaySelect, ReplayPut, ReplayFull,
         StartWorker, DisableSignal, DisableJoin, DisableClose, DisableForget, DisableReset
    <3>2. ASSUME NEW v \in Works, CallStep(v) PROVE UNCHANGED copyOf
      BY <3>2, CallFrame
    <3>3. CASE DlqStep
      <4>1. PICK u \in Tasks, m \in ReplayIds : DlqReplay(u, m) /\ copyOf' # copyOf
        BY <1>5, <2>4, <3>3 DEF DlqStep, DlqRetire, DlqPut, DlqRefuse, DlqClear
      <4>2. WorkOf(u) = w BY <1>5, <2>4, <4>1 DEF DlqReplay, TypeOK
      <4> QED BY <2>1, <2>3, <4>1, <4>2
    <3>4. ASSUME NEW k \in Workers, WorkerStep(k) PROVE UNCHANGED copyOf
      BY <3>4, WorkerFrame
    <3> QED BY <1>5, <2>4, <3>1, <3>2, <3>3, <3>4 DEF Next, Crash, vars
  <2> QED BY <2>2, <2>4
<1>6. ASSUME dlq'.pc = "retire" PROVE wal'[dlq'.old] = "dead"
  <2>1. ASSUME NEW t \in Tasks, wal[t] = "dead", dlq.pc # "full", ~DlqRetire, ~DlqClear
        PROVE  wal'[t] = "dead"
    <3>1. ~(t \in Works /\ Persist(t)) BY <2>1 DEF Persist, Begun, Rowless
    <3>2. ~(t \in Works /\ Refuse(t)) BY <1>3, <2>1
    <3>3. ASSUME NEW k \in Workers, WorkerMark(k) PROVE wtask[k].id # t
      <4>1. WorksOn(k, wtask[k].id) BY <3>3 DEF WorkerMark, WorksOn
      <4> QED BY <2>1, <4>1 DEF Once, InHands
    <3>4. ASSUME NEW u \in Tasks, t \in ReplayIds PROVE ~DlqReplay(u, t)
      BY <1>0, <2>1, <3>4, QueueAssumption DEF DlqReplay, Carries, CarriedTasks, WorkOf
    <3> QED BY <2>1, <3>1, <3>2, <3>3, <3>4, RowSteps DEF DlqRefuse
  <2>2. CASE dlq' = dlq
    <3>1. dlq.old \in Tasks /\ wal[dlq.old] = "dead"
      BY <1>6, <2>2 DEF Begun, TypeOK, DlqIdle
    <3>2. ~DlqRetire /\ ~DlqClear
      BY <1>6, <2>2 DEF DlqRetire, DlqClear, DlqIdle, TypeOK
    <3> QED BY <1>6, <2>1, <2>2, <3>1, <3>2
  <2>3. CASE DlqStep
    <3>1. ASSUME NEW u \in Tasks, NEW n \in ReplayIds, DlqReplay(u, n)
          PROVE  wal'[dlq'.old] = "dead"
      <4>1. /\ dlq'.old = u /\ wal[u] = "dead" /\ dlq.pc = "idle"
            /\ dlq'.pc = "retire"
        BY <3>1 DEF DlqReplay
      <4>2. ~DlqRetire /\ ~DlqClear
        BY <4>1 DEF DlqRetire, DlqClear
      <4> QED BY <2>1, <4>1, <4>2
    <3>2. CASE DlqRetire \/ DlqPut \/ DlqRefuse
      BY <1>6, <3>2 DEF DlqRetire, DlqPut, DlqRefuse, DlqIdle, TypeOK
    <3>3. CASE DlqClear BY <2>2, <3>3 DEF DlqClear
    <3> QED BY <2>3, <3>1, <3>2, <3>3 DEF DlqStep
  <2>4. CASE LifeStep
    BY <2>2, <2>4 DEF LifeStep, Enable, ReplaySelect, ReplayPut, ReplayFull,
       StartWorker, DisableSignal, DisableJoin, DisableClose, DisableForget, DisableReset
  <2>5. CASE Crash BY <1>6, <2>5 DEF Crash, DlqIdle
  <2> QED BY <2>2, <2>3, <2>4, <2>5, CallFrame, WorkerFrame DEF Next, vars
<1> QED BY <1>4, <1>5, <1>6 DEF Begun

\* What holds of the queue in the server.
ServerInv == TypeOK /\ Carries /\ WorkerTold /\ Serving /\ Once /\ Begun

LEMMA ServerInvariant ==
  ASSUME MaxDisables = 0, ~EarlyCalls
  PROVE  Spec => []ServerInv
<1>1. Init => ServerInv
  <2> SUFFICES ASSUME Init PROVE ServerInv
    OBVIOUS
  <2>1. WorkerTold /\ Serving BY DEF Init, WorkerTold, Serving
  <2>2. Once BY DEF Init, Once, InHands, Entering, Queued, WorksOn, DlqIdle
  <2>3. Begun BY QueueAssumption DEF Init, Begun, Rowless, DlqIdle, Tasks
  <2> QED BY <2>1, <2>2, <2>3, InitType, InitCarries DEF ServerInv
<1>2. ServerInv /\ [Next]_vars => ServerInv'
  BY NextType, NextCarries, NextWorkerTold, NextServing, NextOnce, NextBegun DEF ServerInv
<1> QED BY <1>1, <1>2, PTL DEF Spec

\* What a worker runs is pending, so it belongs to a call that has begun; the same
\* for what it runs in the name of a copy.
LEMMA RunsBegun ==
  ASSUME ServerInv, NEW k \in Workers, WorkerApply(k)
  PROVE  /\ wtask[k].id \in Tasks /\ wal[wtask[k].id] = "pending"
         /\ WorkOf(wtask[k].id) \in Works
         /\ call[WorkOf(wtask[k].id)] \notin Rowless \union {"put", "full"}
         /\ \/ wtask[k].id = WorkOf(wtask[k].id)
            \/ wtask[k].id \in ReplayIds /\ copyOf[wtask[k].id] = WorkOf(wtask[k].id)
<1> DEFINE t == wtask[k].id
<1>1. t \in Tasks /\ WorkOf(t) \in Works /\ WorksOn(k, t)
  BY DEF ServerInv, WorkerApply, WorksOn, Carries, Busy, GoodEntries, CarriedTasks
<1>2. wal[t] = "pending" /\ ~Entering(t) BY <1>1 DEF ServerInv, Once, InHands
<1>3. CASE t \in Works
  <2>1. WorkOf(t) = t /\ call[t] \notin Rowless /\ call[t] \notin {"put", "full"}
    BY <1>2, <1>3 DEF WorkOf, ServerInv, Begun, Entering
  <2> QED BY <1>1, <1>2, <2>1
<1>4. CASE t \notin Works
  <2>1. t \in ReplayIds /\ copyOf[t] = WorkOf(t) BY <1>1, <1>4 DEF WorkOf, Tasks
  <2>2. wal[WorkOf(t)] # "pending" /\ call[WorkOf(t)] \notin Rowless
    BY <1>1, <2>1 DEF ServerInv, Begun
  <2>3. ~Entering(WorkOf(t))
    BY <1>1, <2>2 DEF ServerInv, Once, InHands, Entering, Tasks
  <2> QED BY <1>1, <1>2, <2>1, <2>2, <2>3 DEF Entering
<1> QED BY <1>3, <1>4

\* A call that has not come to its put has had no effect.
Untouched ==
  \A w \in Works : call[w] \in {"new", "direct", "persist", "put", "full", "refused"} => applied[w] = 0

LEMMA NextUntouched ==
  ServerInv /\ Untouched /\ [Next]_vars => Untouched'
<1> SUFFICES ASSUME ServerInv, Untouched, [Next]_vars,
                    NEW w \in Works,
                    call'[w] \in {"new", "direct", "persist", "put", "full", "refused"}
             PROVE  applied'[w] = 0
  BY DEF Untouched
<1> USE DEF walVars, store, confVars, lifeVars, workVars, callVars, restVars
<1> DEFINE early == {"new", "direct", "persist", "put", "full", "refused"}
<1>0. TypeOK BY DEF ServerInv
<1>1. CASE LifeStep
  BY <1>1 DEF LifeStep, Enable, ReplaySelect, ReplayPut, ReplayFull,
     StartWorker, DisableSignal, DisableJoin, DisableClose, DisableForget, DisableReset,
     Untouched
<1>2. ASSUME NEW v \in Works, CallStep(v) PROVE applied'[w] = 0
  <2>1. call[w] \in early
    BY <1>0, <1>2 DEF CallStep, CallQueued, CallDirect, RunDirect, Persist, PutNowait, Refuse,
       Return, TypeOK
  <2>2. applied'[w] = applied[w]
    BY <1>0, <1>2 DEF CallStep, CallQueued, CallDirect, RunDirect, Persist, PutNowait, Refuse,
       Return, TypeOK
  <2> QED BY <2>1, <2>2 DEF Untouched
<1>3. CASE DlqStep BY <1>3, DlqFrame DEF Untouched
<1>4. ASSUME NEW k \in Workers, WorkerStep(k) PROVE applied'[w] = 0
  <2>1. call' = call BY <1>4, WorkerFrame
  <2>2. CASE WorkerApply(k)
    <3>1. WorkOf(wtask[k].id) # w BY <2>1, <2>2, RunsBegun DEF Rowless
    <3> QED BY <1>0, <2>1, <2>2, <3>1 DEF WorkerApply, Untouched, TypeOK
  <2>3. CASE ~WorkerApply(k)
    <3>1. applied' = applied
      BY <1>4, <2>3 DEF WorkerStep, WorkerCheck, WorkerGet, WorkerTimeout, WorkerFail,
         WorkerMark, WorkerNotify
    <3> QED BY <2>1, <3>1 DEF Untouched
  <2> QED BY <2>2, <2>3
<1>5. CASE Crash
  <2>1. call[w] \in early BY <1>0, <1>5 DEF Crash, TypeOK
  <2> QED BY <1>5, <2>1 DEF Crash, Untouched
<1>6. CASE UNCHANGED vars BY <1>6 DEF vars, Untouched
<1> QED BY <1>1, <1>2, <1>3, <1>4, <1>5, <1>6 DEF Next

\* A caller that got QueueBacklogError may simply try again: nothing of its first
\* try is left that would take effect now or after a restart, with any backlog,
\* any number of callers, crashes and replayed dead letters (the handler of
\* queue.Full in enqueue_sync and enqueue_async).
THEOREM RefusalIsClean ==
  ASSUME MaxDisables = 0, ~EarlyCalls
  PROVE  Spec => []RefusedLeavesNoTrace
<1>1. Init => Untouched BY DEF Init, Untouched
<1>2. ServerInv /\ Untouched => RefusedLeavesNoTrace
  <2> SUFFICES ASSUME ServerInv, Untouched, NEW w \in Works, call[w] = "refused"
               PROVE  applied[w] = 0 /\ \A t \in TasksOf(w) : wal[t] = "none"
    BY DEF RefusedLeavesNoTrace
  <2>1. call[w] \in Rowless BY DEF Rowless
  <2>2. TasksOf(w) = {w}
    BY <2>1, QueueAssumption DEF TasksOf, WorkOf, Tasks, ServerInv, Begun
  <2> QED BY <2>1, <2>2 DEF Untouched, ServerInv, Begun
<1> QED BY <1>1, <1>2, NextUntouched, ServerInvariant, PTL DEF Spec

-----------------------------------------------------------------------------
(***************************************************************************)
(* AckedNeverReapplied. Once an operation has succeeded in the hands of a  *)
(* worker that holds a caller's own task, nothing of the write is left     *)
(* that a worker could meet again.                                         *)
(***************************************************************************)

Succeeded(w) ==
  \/ call[w] \in {"ok", "ran"} \/ event[w] = "ok"
  \/ \E k \in Workers : wpc[k] = "notify" /\ wok[k] /\ wtask[k].id = w

Spent(w) ==
  /\ wal[w] = "none" /\ \A n \in ReplayIds : copyOf[n] # w
  /\ call[w] \notin {"new", "direct", "persist", "put", "full"}

SuccessIsSpent == \A w \in Works : Succeeded(w) => Spent(w)

LEMMA StaysSpent ==
  ASSUME ServerInv, [Next]_vars, NEW w \in Works, Spent(w)
  PROVE  Spent(w)'
<1> USE DEF walVars, store, confVars, lifeVars, workVars, callVars, restVars
<1>0. TypeOK /\ Once /\ Begun /\ w \in Tasks /\ w \notin ReplayIds
  BY QueueAssumption DEF ServerInv, Tasks
<1>1. wal'[w] = "none"
  <2>1. ASSUME NEW k \in Workers, WorkerMark(k) PROVE wtask[k].id # w
    <3>1. WorksOn(k, wtask[k].id) BY <2>1 DEF WorkerMark, WorksOn
    <3> QED BY <1>0, <3>1 DEF Spent, Once, InHands
  <2>2. ~Persist(w) BY DEF Persist, Spent
  <2>3. ~(DlqRetire /\ dlq.old = w) BY <1>0 DEF DlqRetire, Begun, Spent
  <2> QED BY <1>0, <2>1, <2>2, <2>3, RowSteps DEF Spent
<1>2. ASSUME NEW u \in Tasks, NEW n \in ReplayIds, DlqReplay(u, n) PROVE WorkOf(u) # w
  BY <1>2 DEF DlqReplay, Spent, WorkOf, Tasks
<1>3. CASE LifeStep
  BY <1>1, <1>3 DEF LifeStep, Enable, ReplaySelect, ReplayPut, ReplayFull, StartWorker,
     DisableSignal, DisableJoin, DisableClose, DisableForget, DisableReset, Spent
<1>4. ASSUME NEW v \in Works, CallStep(v) PROVE Spent(w)'
  <2>1. call'[w] \notin {"new", "direct", "persist", "put", "full"}
    BY <1>0, <1>4 DEF CallStep, CallQueued, CallDirect, RunDirect, Persist, PutNowait, Refuse,
       Return, TypeOK, Spent
  <2> QED BY <1>0, <1>1, <1>4, <2>1, CallFrame DEF Spent
<1>5. CASE DlqStep
  <2>1. UNCHANGED call BY <1>5, DlqFrame
  <2>2. ASSUME NEW u \in Tasks, NEW n \in ReplayIds, DlqReplay(u, n)
        PROVE  \A m \in ReplayIds : copyOf'[m] # w
    <3>1. WorkOf(u) # w BY <1>2, <2>2
    <3> QED BY <1>0, <2>2, <3>1 DEF DlqReplay, TypeOK, Spent
  <2>3. CASE DlqRetire \/ DlqPut \/ DlqRefuse \/ DlqClear
    BY <1>1, <2>1, <2>3 DEF DlqRetire, DlqPut, DlqRefuse, DlqClear, Spent
  <2> QED BY <1>1, <1>5, <2>1, <2>2, <2>3 DEF DlqStep, Spent
<1>6. ASSUME NEW k \in Workers, WorkerStep(k) PROVE Spent(w)'
  BY <1>1, <1>6, WorkerFrame DEF Spent
<1>7. CASE Crash
  BY <1>0, <1>1, <1>7 DEF Crash, Spent, TypeOK
<1>8. CASE UNCHANGED vars BY <1>8 DEF vars, Spent
<1> QED BY <1>3, <1>4, <1>5, <1>6, <1>7, <1>8 DEF Next

LEMMA NextSpent ==
  ServerInv /\ SuccessIsSpent /\ [Next]_vars => SuccessIsSpent'
<1> SUFFICES ASSUME ServerInv, SuccessIsSpent, [Next]_vars,
                    NEW w \in Works, Succeeded(w)'
             PROVE  Spent(w)'
  BY DEF SuccessIsSpent
<1> USE DEF walVars, store, confVars, lifeVars, workVars, callVars, restVars
<1>0. TypeOK /\ Carries /\ Serving /\ Once /\ Begun /\ w \in Tasks /\ w \notin ReplayIds
  BY QueueAssumption DEF ServerInv, Tasks
<1>1. CASE Succeeded(w) BY <1>1, StaysSpent DEF SuccessIsSpent
<1>2. CASE ~Succeeded(w)
  <2>1. CASE LifeStep
    <3>1. UNCHANGED <<call, event, wok>> /\ (\A k \in Workers : wpc'[k] = "notify" => wpc[k] = "notify")
          /\ UNCHANGED wtask
      BY <1>0, <2>1 DEF LifeStep, Enable, ReplaySelect, ReplayPut, ReplayFull, StartWorker,
         DisableSignal, DisableJoin, DisableClose, DisableForget, DisableReset, TypeOK
    <3> QED BY <1>2, <3>1 DEF Succeeded
  <2>2. ASSUME NEW v \in Works, CallStep(v) PROVE Spent(w)'
    <3>1. UNCHANGED <<event, wpc, wok, wtask>> BY <1>0, <2>2, CallFrame
    <3>2. call'[w] \in {"ok", "ran"} /\ call[w] \notin {"ok", "ran"}
      BY <1>2, <3>1 DEF Succeeded
    <3>3. v = w BY <1>0, <2>2, <3>2, CallFrame
    <3>4. RunDirect(w) \/ Return(w)
      BY <1>0, <2>2, <3>2, <3>3 DEF CallStep, CallQueued, CallDirect, Persist, PutNowait,
         Refuse, TypeOK
    <3>5. ~Return(w)
      BY <1>0, <1>2, <3>2 DEF Return, Succeeded, TypeOK
    <3>6. RunDirect(w) /\ call[w] = "direct" BY <3>4, <3>5 DEF RunDirect
    <3>7. wal[w] = "none" /\ \A n \in ReplayIds : copyOf[n] # w
      BY <1>0, <3>6 DEF Begun, Rowless
    <3> QED BY <3>2, <3>6, <3>7 DEF RunDirect, Spent
  <2>3. CASE DlqStep BY <1>2, <2>3, DlqFrame DEF Succeeded
  <2>4. ASSUME NEW k \in Workers, WorkerStep(k) PROVE Spent(w)'
    <3>1. UNCHANGED <<call, copyOf>> /\ conn = "open"
          /\ \A j \in Workers \ {k} : wpc'[j] = wpc[j] /\ wok'[j] = wok[j] /\ wtask'[j] = wtask[j]
      BY <1>0, <2>4, WorkerFrame, OthersWork DEF Serving
    <3>2. CASE WorkerNotify(k)
      <4>1. \A j \in Workers : wpc'[j] = "notify" =>
              wpc[j] = "notify" /\ wok'[j] = wok[j] /\ wtask'[j] = wtask[j]
        BY <1>0, <3>1, <3>2 DEF WorkerNotify, TypeOK
      <4>2. event'[w] = "ok" /\ event[w] # "ok" BY <1>2, <3>1, <4>1 DEF Succeeded
      <4>3. wtask[k].id = w /\ wok[k] /\ wpc[k] = "notify"
        BY <1>0, <3>2, <4>2 DEF WorkerNotify, Outcome, TypeOK
      <4> QED BY <1>2, <4>3 DEF Succeeded
    <3>3. CASE WorkerMark(k)
      <4>1. event' = event BY <3>3 DEF WorkerMark
      <4>2. wok[k] /\ wtask[k].id = w
        BY <1>0, <1>2, <3>1, <3>3, <4>1 DEF Succeeded, WorkerMark, TypeOK
      <4>3. WorksOn(k, w) BY <3>3, <4>2 DEF WorkerMark, WorksOn
      <4>4. wal[w] = "pending" /\ ~Entering(w) BY <1>0, <4>3 DEF Once, InHands
      <4>5. wal'[w] = "none"
        BY <1>0, <3>1, <3>3, <4>2 DEF WorkerMark, DeleteWal, TypeOK
      <4>6. call[w] \notin Rowless BY <4>4, <1>0 DEF Begun
      <4> QED BY <1>0, <3>1, <4>4, <4>5, <4>6 DEF Spent, Begun, Entering, Rowless
    <3>4. CASE ~WorkerNotify(k) /\ ~WorkerMark(k)
      <4>1. event' = event /\ (wpc'[k] # "notify")
        BY <1>0, <2>4, <3>1, <3>4 DEF WorkerStep, WorkerCheck, WorkerGet, WorkerTimeout,
           WorkerApply, WorkerFail, TypeOK
      <4> QED BY <1>2, <3>1, <4>1 DEF Succeeded
    <3> QED BY <3>2, <3>3, <3>4
  <2>5. CASE Crash BY <1>0, <1>2, <2>5 DEF Crash, Succeeded, TypeOK
  <2>6. CASE UNCHANGED vars BY <1>2, <2>6 DEF vars, Succeeded
  <2> QED BY <2>1, <2>2, <2>3, <2>4, <2>5, <2>6 DEF Next
<1> QED BY <1>1, <1>2

\* What enqueue_sync has returned is settled: no later crash and replay, and no
\* dlq_replay, applies the same write a second time over newer data.
THEOREM AckIsFinal ==
  ASSUME MaxDisables = 0, ~EarlyCalls
  PROVE  Spec => AckedNeverReapplied
<1> DEFINE Keep == \A w \in Works : call[w] \in {"ok", "ran"} => applied'[w] = applied[w]
<1>1. Init => SuccessIsSpent BY DEF Init, SuccessIsSpent, Succeeded
<1>2. ServerInv /\ SuccessIsSpent /\ [Next]_vars => [Keep]_vars
  <2> SUFFICES ASSUME ServerInv, SuccessIsSpent, Next,
                      NEW w \in Works, call[w] \in {"ok", "ran"}
               PROVE  applied'[w] = applied[w]
    OBVIOUS
  <2> USE DEF walVars, store, confVars, lifeVars, workVars, callVars, restVars
  <2>0. TypeOK /\ Spent(w) BY DEF ServerInv, SuccessIsSpent, Succeeded
  <2>1. CASE LifeStep
    BY <2>1 DEF LifeStep, Enable, ReplaySelect, ReplayPut, ReplayFull,
       StartWorker, DisableSignal, DisableJoin, DisableClose, DisableForget, DisableReset
  <2>2. ASSUME NEW v \in Works, CallStep(v) PROVE applied'[w] = applied[w]
    BY <2>0, <2>2 DEF CallStep, CallQueued, CallDirect, RunDirect, Persist, PutNowait, Refuse,
       Return, TypeOK
  <2>3. ASSUME NEW k \in Workers, WorkerStep(k) PROVE applied'[w] = applied[w]
    <3>1. CASE WorkerApply(k)
      <4>1. WorkOf(wtask[k].id) # w BY <2>0, <3>1, RunsBegun DEF Spent
      <4> QED BY <2>0, <3>1, <4>1 DEF WorkerApply, TypeOK
    <3> QED
      BY <2>3, <3>1 DEF WorkerStep, WorkerCheck, WorkerGet, WorkerTimeout, WorkerFail,
         WorkerMark, WorkerNotify
  <2>4. CASE Crash BY <2>4 DEF Crash
  <2> QED BY <2>1, <2>2, <2>3, <2>4, DlqFrame DEF Next
<1>3. [][Keep]_vars => AckedNeverReapplied BY DEF AckedNeverReapplied
<1> HIDE DEF Keep
<1> QED BY <1>1, <1>2, <1>3, NextSpent, ServerInvariant, PTL DEF Spec

-----------------------------------------------------------------------------
(***************************************************************************)
(* RealTimeOrder. A write that was accepted before another call began has  *)
(* taken effect or went through the dead letters, or else it is pending    *)
(* and the other one waits behind it: in the queue, in the order of the    *)
(* rows, or not even inserted.                                             *)
(***************************************************************************)

Resolved(v) ==
  \/ applied[v] > 0 \/ wal[v] = "dead" \/ v \in cleared
  \/ \E n \in ReplayIds : copyOf[n] = v

\* Nobody takes w from the queue while v is in it.
WaitsFor(w, v) ==
  \A j \in DOMAIN queue :
    queue[j].id = w =>
      \/ \E k \in Workers : WorksOn(k, v)
      \/ \E i \in DOMAIN queue : i < j /\ queue[i].id = v

Behind(w, v) ==
  /\ applied[w] = 0 /\ wal[w] \in {"none", "pending"}
  /\ \A n \in ReplayIds : copyOf[n] # w
  /\ \A k \in Workers : ~WorksOn(k, w)
  /\ wal[w] = "pending" => v \in older[w]
  /\ WaitsFor(w, v)

CopyNamed == dlq.pc = "retire" => copyOf[dlq.new] = WorkOf(dlq.old)

AcceptedKeptOn == \A v \in Works : Accepted(v) => Resolved(v) \/ wal[v] = "pending"

InOrder ==
  \A w \in Works : \A v \in ahead[w] :
    v # w /\ call[w] \notin {"new", "direct"} /\ Accepted(v) /\ (Resolved(v) \/ Behind(w, v))

LEMMA NextCopyNamed ==
  ServerInv /\ CopyNamed /\ [Next]_vars => CopyNamed'
<1> SUFFICES ASSUME ServerInv, CopyNamed, [Next]_vars, dlq'.pc = "retire"
             PROVE  (copyOf[dlq.new] = WorkOf(dlq.old))'
  BY DEF CopyNamed
<1> USE DEF walVars, store, confVars, lifeVars, workVars, callVars, restVars
<1>0. TypeOK /\ Carries BY DEF ServerInv
<1>1. CASE dlq' = dlq
  <2>1. dlq.old \in Tasks /\ dlq.new \in ReplayIds /\ wal[dlq.old] = "dead"
    BY <1>0, <1>1 DEF TypeOK, DlqIdle, ServerInv, Begun
  <2>2. dlq.old \in CarriedTasks BY <1>0, <2>1 DEF Carries
  <2>3. copyOf[dlq.new] = WorkOf(dlq.old) /\ WorkOf(dlq.old) \in Works
    BY <1>1, <2>2 DEF CopyNamed, CarriedTasks
  <2>4. PICK o, n : o = dlq.old /\ n = dlq.new OBVIOUS
  <2>5. copyOf'[n] = copyOf[n] BY <1>0, <2>1, <2>3, <2>4, CopiesStay
  <2>6. WorkOf(o)' = WorkOf(o) BY <1>0, <2>2, <2>4, CarriedGrows
  <2> QED BY <1>1, <2>3, <2>4, <2>5, <2>6 DEF WorkOf
<1>2. CASE DlqStep
  <2>1. ASSUME NEW t \in Tasks, NEW n \in ReplayIds, DlqReplay(t, n)
        PROVE  (copyOf[dlq.new] = WorkOf(dlq.old))'
    <3>1. dlq'.new = n /\ dlq'.old = t /\ copyOf'[n] = WorkOf(t) /\ t \in CarriedTasks
      BY <1>0, <2>1 DEF DlqReplay, TypeOK, Carries
    <3>2. WorkOf(t)' = WorkOf(t) BY <1>0, <3>1, CarriedGrows
    <3> QED BY <3>1, <3>2 DEF WorkOf
  <2>2. CASE DlqRetire \/ DlqPut \/ DlqRefuse
    BY <1>0, <2>2 DEF DlqRetire, DlqPut, DlqRefuse, DlqIdle, TypeOK
  <2>3. CASE DlqClear BY <1>1, <2>3 DEF DlqClear
  <2> QED BY <1>2, <2>1, <2>2, <2>3 DEF DlqStep
<1>3. CASE LifeStep
  BY <1>1, <1>3 DEF LifeStep, Enable, ReplaySelect, ReplayPut, ReplayFull,
     StartWorker, DisableSignal, DisableJoin, DisableClose, DisableForget, DisableReset
<1>4. CASE Crash BY <1>4 DEF Crash, DlqIdle
<1> QED BY <1>0, <1>1, <1>2, <1>3, <1>4, CallFrame, WorkerFrame DEF Next, vars

\* What is known of a write's fate stays known; a pending one gets a fate or stays
\* pending, unless its caller takes it back.
LEMMA FateStays ==
  ASSUME ServerInv, CopyNamed, [Next]_vars, NEW v \in Works,
         Resolved(v) \/ wal[v] = "pending"
  PROVE  Resolved(v)' \/ (wal'[v] = "pending" /\ ~Resolved(v)) \/ call'[v] = "refused"
<1> USE DEF walVars, store, confVars, lifeVars, workVars, callVars, restVars
<1>0. TypeOK /\ Carries /\ v \in Tasks /\ v \notin ReplayIds
  BY QueueAssumption DEF ServerInv, Tasks
<1>1. (\E n \in ReplayIds : copyOf[n] = v) => Resolved(v)'
  BY <1>0, CopiesStay DEF Resolved
<1>2. applied[v] > 0 => Resolved(v)' BY <1>0, AppliedGrows DEF Resolved
<1>3. cleared \subseteq cleared'
  <2>1. DlqStep => cleared \subseteq cleared'
    BY DEF DlqStep, DlqReplay, DlqRetire, DlqPut, DlqRefuse, DlqClear
  <2>2. LifeStep => cleared' = cleared
    BY DEF LifeStep, Enable, ReplaySelect, ReplayPut, ReplayFull,
       StartWorker, DisableSignal, DisableJoin, DisableClose, DisableForget, DisableReset
  <2> QED BY <1>0, <2>1, <2>2, CallFrame, WorkerFrame DEF Next, Crash, vars
<1>4. v \in cleared => Resolved(v)' BY <1>3 DEF Resolved
<1>5. CASE wal'[v] = wal[v] BY <1>1, <1>2, <1>4, <1>5 DEF Resolved
<1>6. CASE wal'[v] # wal[v] /\ wal[v] \in {"pending", "dead"}
  <2>1. ASSUME DlqRetire, dlq.old = v PROVE Resolved(v)'
    <3>1. copyOf[dlq.new] = v /\ dlq.new \in ReplayIds
      BY <1>0, <2>1 DEF CopyNamed, DlqRetire, WorkOf, TypeOK, DlqIdle
    <3> QED BY <1>1, <3>1
  <2>2. ASSUME DlqClear, wal[v] = "dead" PROVE Resolved(v)'
    <3>1. CASE \E n \in ReplayIds : copyOf[n] = v BY <1>1, <3>1
    <3>2. CASE ~\E n \in ReplayIds : copyOf[n] = v
      <4>1. TasksOf(v) = {v} BY <3>2 DEF TasksOf, WorkOf, Tasks
      <4>2. HasRow(v, "dead") /\ ~HasRow(v, "pending") BY <2>2, <4>1 DEF HasRow
      <4> QED BY <2>2, <4>2 DEF DlqClear, Resolved
    <3> QED BY <3>1, <3>2
  <2>3. ASSUME NEW k \in Workers, wtask[k].id = v, wok[k] PROVE Resolved(v)'
    <3>1. applied[v] > 0 BY <2>3 DEF ServerInv, WorkerTold, WorkOf
    <3> QED BY <1>2, <3>1
  <2>4. wal'[v] = "dead" => Resolved(v)' BY DEF Resolved
  <2>5. ~Persist(v) BY <1>6 DEF Persist, ServerInv, Begun, Rowless
  <2>6. Refuse(v) => call'[v] = "refused" BY <1>0 DEF Refuse, ServerInv, Serving, TypeOK
  <2>7. ~(DlqRefuse /\ dlq.new = v) BY <1>0 DEF DlqRefuse, TypeOK, DlqIdle
  <2> QED BY <1>0, <1>6, <2>1, <2>2, <2>3, <2>4, <2>5, <2>6, <2>7, RowSteps
<1> QED BY <1>1, <1>2, <1>4, <1>5, <1>6 DEF Resolved

LEMMA NextAcceptedKeptOn ==
  ServerInv /\ CopyNamed /\ AcceptedKeptOn /\ [Next]_vars => AcceptedKeptOn'
<1> SUFFICES ASSUME ServerInv, CopyNamed, AcceptedKeptOn, [Next]_vars,
                    NEW v \in Works, Accepted(v)'
             PROVE  Resolved(v)' \/ wal'[v] = "pending"
  BY DEF AcceptedKeptOn
<1>0. TypeOK /\ v \in Tasks BY DEF ServerInv, Tasks
<1>1. Accepted(v) \/ call[v] = "put"
  <2>1. CASE LifeStep
    BY <2>1 DEF LifeStep, Enable, ReplaySelect, ReplayPut, ReplayFull, StartWorker,
       DisableSignal, DisableJoin, DisableClose, DisableForget, DisableReset, Accepted,
       callVars
  <2>2. ASSUME NEW w \in Works, CallStep(w) PROVE Accepted(v) \/ call[v] = "put"
    BY <1>0, <2>2 DEF CallStep, CallQueued, CallDirect, RunDirect, Persist, PutNowait, Refuse,
       Return, TypeOK, Accepted
  <2>3. CASE Crash BY <1>0, <2>3 DEF Crash, Accepted, TypeOK
  <2> QED BY <2>1, <2>2, <2>3, DlqFrame, WorkerFrame DEF Next, vars, Accepted, callVars
<1>2. call[v] = "put" => wal[v] = "pending"
  BY <1>0 DEF ServerInv, Once, InHands
<1>3. Resolved(v) \/ wal[v] = "pending" BY <1>1, <1>2 DEF AcceptedKeptOn
<1> QED BY <1>3, FateStays DEF Accepted

\* Who puts w puts it behind v.
LEMMA PutBehind ==
  ASSUME TypeOK, NEW e \in Entries, queue' = Append(queue, e), UNCHANGED <<wpc, wtask>>,
         NEW w, NEW v, WaitsFor(w, v),
         e.id = w => Queued(v) \/ \E k \in Workers : WorksOn(k, v)
  PROVE  WaitsFor(w, v)'
<1>1. queue \in Seq(Entries) BY DEF TypeOK
<1>2. /\ DOMAIN queue = 1..Len(queue) /\ Len(queue) \in Nat
      /\ DOMAIN queue' = 1..(Len(queue) + 1)
      /\ \A i \in 1..Len(queue) : queue'[i] = queue[i]
      /\ queue'[Len(queue) + 1] = e
  BY <1>1
<1>3. \A k : WorksOn(k, v)' <=> WorksOn(k, v) BY DEF WorksOn
<1>4. SUFFICES ASSUME NEW j \in DOMAIN queue', queue'[j].id = w,
                      ~\E k \in Workers : WorksOn(k, v)
               PROVE  \E i \in DOMAIN queue' : i < j /\ queue'[i].id = v
  BY <1>3 DEF WaitsFor
<1>5. CASE j \in DOMAIN queue
  <2>1. PICK i \in DOMAIN queue : i < j /\ queue[i].id = v
    BY <1>2, <1>4, <1>5 DEF WaitsFor
  <2> QED BY <1>2, <2>1
<1>6. CASE j \notin DOMAIN queue
  <2>1. j = Len(queue) + 1 /\ e.id = w BY <1>2, <1>4, <1>6
  <2>2. PICK i \in DOMAIN queue : queue[i].id = v BY <1>4, <2>1 DEF Queued
  <2> QED BY <1>2, <2>1, <2>2
<1> QED BY <1>5, <1>6

\* The worker that takes a task while nobody works on v does not take w.
LEMMA GetBehind ==
  ASSUME TypeOK, NEW k \in Workers, WorkerGet(k), NEW w, NEW v, v # w, WaitsFor(w, v),
         \A j \in Workers : ~WorksOn(j, v)
  PROVE  Head(queue).id # w /\ WaitsFor(w, v)'
<1>1. queue \in Seq(Entries) /\ queue # <<>> /\ queue' = Tail(queue)
  BY DEF TypeOK, WorkerGet
<1>2. /\ DOMAIN queue = 1..Len(queue) /\ Len(queue) \in Nat /\ Len(queue) > 0
      /\ DOMAIN queue' = 1..(Len(queue) - 1)
      /\ \A i \in 1..(Len(queue) - 1) : queue'[i] = queue[i + 1]
      /\ Head(queue) = queue[1]
  BY <1>1
<1>3. Head(queue).id # w BY <1>2 DEF WaitsFor
<1>4. Head(queue).id = v => WorksOn(k, v)' BY DEF WorkerGet, WorksOn, TypeOK
<1>5. ASSUME NEW j \in DOMAIN queue', queue'[j].id = w, Head(queue).id # v
      PROVE  \E i \in DOMAIN queue' : i < j /\ queue'[i].id = v
  <2>1. j + 1 \in DOMAIN queue /\ queue[j + 1].id = w BY <1>2, <1>5
  <2>2. PICK i \in DOMAIN queue : i < j + 1 /\ queue[i].id = v BY <2>1 DEF WaitsFor
  <2>3. i # 1 BY <1>2, <1>5, <2>2
  <2>4. i - 1 \in DOMAIN queue' /\ i - 1 < j /\ queue'[i - 1] = queue[i]
    BY <1>2, <1>5, <2>2, <2>3
  <2> QED BY <2>2, <2>4
<1> QED BY <1>3, <1>4, <1>5 DEF WaitsFor

\* One step of Behind, for two writes whose calls and fates stay as they are.
LEMMA StaysBehind ==
  ASSUME ServerInv, Scheduled, [Next]_vars, NEW w \in Works, NEW v \in Works, v # w,
         call[w] \notin {"new", "direct"}, Accepted(v), ~Resolved(v)', wal[v] = "pending", Behind(w, v)
  PROVE  Behind(w, v)'
<1> USE DEF walVars, store, confVars, lifeVars, workVars, callVars, restVars
<1>0. /\ TypeOK /\ Carries /\ Serving /\ Once /\ Begun
      /\ w \in Tasks /\ v \in Tasks /\ w \notin ReplayIds /\ v \notin ReplayIds
      /\ older \in [Tasks -> SUBSET Tasks]
  BY QueueAssumption DEF ServerInv, Tasks, TypeOK
<1>1. ~Entering(v)
  BY <1>0 DEF Entering, Accepted, TypeOK, DlqIdle
<1>2. life = "on" => Queued(v) \/ \E k \in Workers : WorksOn(k, v)
  BY <1>0, <1>1 DEF Scheduled, Serving, InHands, Entering
\* The row of w.
<1>3. wal'[w] \in {"none", "pending"} /\ (wal'[w] = "pending" => v \in older'[w])
  <2>1. ASSUME NEW k \in Workers, WorkerMark(k) PROVE wtask[k].id # w
    BY <2>1 DEF WorkerMark, WorksOn, Behind
  <2>2. ~(DlqRetire /\ dlq.old = w) BY <1>0 DEF DlqRetire, Begun, Behind
  <2>3. CASE Persist(w)
    <3>1. wal[v] # "none" /\ conn = "open"
      BY <1>0, <2>3 DEF Persist, Serving
    <3>2. older'[w] = {u \in Tasks : wal[u] # "none"} /\ wal'[w] = "pending"
      BY <1>0, <2>3, <3>1 DEF Persist, PersistWal, TypeOK
    <3> QED BY <1>0, <3>1, <3>2
  <2>4. CASE ~Persist(w)
    <3>1. wal'[w] \in {"none", "pending"} /\ (wal'[w] = "pending" => wal[w] = "pending")
      BY <1>0, <2>1, <2>2, <2>4, RowSteps DEF Behind
    <3>2. older'[w] = older[w]
      <4>1. CASE LifeStep
        BY <4>1 DEF LifeStep, Enable, ReplaySelect, ReplayPut, ReplayFull, StartWorker,
           DisableSignal, DisableJoin, DisableClose, DisableForget, DisableReset
      <4>2. ASSUME NEW u \in Works, CallStep(u) PROVE older'[w] = older[w]
        <5>1. CASE u # w BY <1>0, <4>2, <5>1, CallFrame
        <5>2. CASE u = w
          BY <2>4, <4>2, <5>2
          DEF CallStep, CallQueued, CallDirect, RunDirect, PutNowait, Refuse, Return
        <5> QED BY <5>1, <5>2
      <4>3. CASE DlqStep
        BY <1>0, <4>3 DEF DlqStep, DlqReplay, PersistWal, DlqRetire, DlqPut, DlqRefuse,
           DlqClear
      <4> QED BY <4>1, <4>2, <4>3, WorkerFrame DEF Next, Crash, vars
    <3> QED BY <3>1, <3>2 DEF Behind
  <2> QED BY <2>3, <2>4
<1>4. CASE LifeStep
  <2>1. UNCHANGED <<applied, copyOf, wtask>>
    BY <1>4 DEF LifeStep, Enable, ReplaySelect, ReplayPut, ReplayFull, StartWorker,
       DisableSignal, DisableJoin, DisableClose, DisableForget, DisableReset
  <2>2. \A t, k : k \in Workers => (WorksOn(k, t)' <=> WorksOn(k, t))
    BY <1>0, <1>4 DEF LifeStep, Enable, ReplaySelect, ReplayPut, ReplayFull, StartWorker,
       DisableSignal, DisableJoin, DisableClose, DisableForget, DisableReset, WorksOn, TypeOK
  <2>3. WaitsFor(w, v)'
    <3>1. CASE ReplayPut
      <4>1. PICK t \in replay : /\ FirstRow(t)
                                /\ queue' = Append(queue, [id |-> t, ev |-> FALSE])
        BY <3>1 DEF ReplayPut
      <4>2. [id |-> t, ev |-> FALSE] \in Entries BY <1>0, <4>1 DEF TypeOK, Entries
      <4>3. UNCHANGED <<wpc, wtask>> BY <3>1 DEF ReplayPut
      <4>4. ASSUME t = w PROVE Queued(v)
        <5>1. wal[w] = "pending" BY <1>0, <4>1, <4>4 DEF Once
        <5>2. v \notin replay BY <4>1, <4>4, <5>1 DEF FirstRow, Behind
        <5>3. \A k \in Workers : ~WorksOn(k, v)
          BY <1>0, <3>1 DEF ReplayPut, Serving, WorksOn
        <5>4. InHands(v) BY <1>0, <3>1, <5>2 DEF ReplayPut, Scheduled
        <5> QED BY <1>1, <5>3, <5>4 DEF InHands, Entering
      <4> QED BY <1>0, <4>1, <4>2, <4>3, <4>4, PutBehind DEF Behind
    <3>2. CASE queue' = queue BY <2>2, <3>2 DEF Behind, WaitsFor
    <3> QED
      BY <1>4, <3>1, <3>2 DEF LifeStep, Enable, ReplaySelect, ReplayFull, StartWorker,
         DisableSignal, DisableJoin, DisableClose, DisableForget, DisableReset
  <2> QED BY <1>3, <2>1, <2>2, <2>3 DEF Behind
<1>5. ASSUME NEW u \in Works, CallStep(u) PROVE Behind(w, v)'
  <2>1. UNCHANGED <<copyOf, wpc, wtask>> BY <1>0, <1>5, CallFrame
  <2>2. applied'[w] = 0
    BY <1>0, <1>5
    DEF CallStep, CallQueued, CallDirect, RunDirect, Persist, PutNowait, Refuse, Return,
       TypeOK, Behind
  <2>3. WaitsFor(w, v)'
    <3>1. CASE PutNowait(u) /\ HasRoom
      <4>1. [id |-> u, ev |-> u \in Sync] \in Entries BY DEF Entries, Tasks
      <4>2. queue' = Append(queue, [id |-> u, ev |-> u \in Sync]) BY <3>1 DEF PutNowait
      <4>3. Queued(v) \/ \E k \in Workers : WorksOn(k, v)
        BY <1>0, <1>2, <3>1 DEF PutNowait, Serving
      <4> QED BY <1>0, <2>1, <4>1, <4>2, <4>3, PutBehind DEF Behind
    <3>2. CASE queue' = queue BY <2>1, <3>2 DEF Behind, WaitsFor, WorksOn
    <3> QED
      BY <1>5, <3>1, <3>2 DEF CallStep, CallQueued, CallDirect, RunDirect, Persist, PutNowait,
         Refuse, Return
  <2> QED BY <1>3, <2>1, <2>2, <2>3 DEF Behind, WorksOn
<1>6. CASE DlqStep
  <2>1. UNCHANGED <<applied, wpc, wtask>> BY <1>6, DlqFrame
  <2>2. \A n \in ReplayIds : copyOf'[n] # w
    <3>1. ASSUME NEW t \in Tasks, NEW n \in ReplayIds, DlqReplay(t, n) PROVE WorkOf(t) # w
      BY <3>1 DEF DlqReplay, Behind, WorkOf, Tasks
    <3> QED BY <1>0, <1>6, <3>1 DEF DlqStep, DlqReplay, DlqRetire, DlqPut, DlqRefuse,
       DlqClear, TypeOK, Behind
  <2>3. WaitsFor(w, v)'
    <3>1. CASE DlqPut /\ HasRoom
      <4>1. dlq.new \in ReplayIds BY <1>0, <3>1 DEF DlqPut, TypeOK, DlqIdle
      <4>2. [id |-> dlq.new, ev |-> FALSE] \in Entries BY <4>1 DEF Entries, Tasks
      <4>3. queue' = Append(queue, [id |-> dlq.new, ev |-> FALSE]) BY <3>1 DEF DlqPut
      <4> QED BY <1>0, <2>1, <4>1, <4>2, <4>3, PutBehind DEF Behind
    <3>2. CASE queue' = queue BY <2>1, <3>2 DEF Behind, WaitsFor, WorksOn
    <3> QED
      BY <1>6, <3>1, <3>2 DEF DlqStep, DlqReplay, DlqRetire, DlqPut, DlqRefuse, DlqClear
  <2> QED BY <1>3, <2>1, <2>2, <2>3 DEF Behind, WorksOn
<1>7. ASSUME NEW k \in Workers, WorkerStep(k) PROVE Behind(w, v)'
  <2>1. /\ UNCHANGED copyOf /\ conn = "open"
        /\ \A j \in Workers \ {k} : wpc[j] = "off" /\ wpc'[j] = "off"
    BY <1>0, <1>7, WorkerFrame, OthersWork DEF Serving
  <2>2. \A j \in Workers \ {k}, t \in Tasks : ~WorksOn(j, t) /\ ~WorksOn(j, t)'
    BY <2>1 DEF WorksOn
  <2>3. CASE WorkerGet(k)
    <3>1. \A j \in Workers : ~WorksOn(j, v)
      BY <1>0, <2>2, <2>3 DEF WorkerGet, WorksOn
    <3>2. Head(queue).id # w /\ WaitsFor(w, v)'
      BY <1>0, <2>3, <3>1, GetBehind DEF Behind
    <3>3. ~WorksOn(k, w)' BY <1>0, <2>3, <3>2 DEF WorkerGet, WorksOn, TypeOK
    <3> QED BY <1>0, <1>3, <2>1, <2>2, <2>3, <3>2, <3>3 DEF WorkerGet, Behind
  <2>4. CASE WorkerApply(k)
    <3>1. WorkOf(wtask[k].id) # w
      <4>1. WorksOn(k, wtask[k].id) BY <2>4 DEF WorkerApply, WorksOn
      <4> QED BY <2>4, <4>1, RunsBegun DEF Behind
    <3>2. applied'[w] = 0 /\ queue' = queue BY <1>0, <2>4, <3>1 DEF WorkerApply, TypeOK, Behind
    <3>3. \A t : WorksOn(k, t)' <=> WorksOn(k, t)
      BY <1>0, <2>4 DEF WorkerApply, WorksOn, TypeOK
    <3> QED BY <1>0, <1>3, <2>1, <2>2, <3>2, <3>3 DEF Behind, WaitsFor
  <2>5. CASE WorkerMark(k)
    <3>1. wtask[k].id # v
      <4>1. CASE wtask[k].id = v /\ wok[k]
        <5>1. applied[v] > 0 BY <4>1 DEF ServerInv, WorkerTold, WorkOf
        <5>2. applied' = applied BY <2>5 DEF WorkerMark
        <5> QED BY <5>1, <5>2 DEF Resolved
      <4>2. CASE wtask[k].id = v /\ ~wok[k]
        <5>1. wal'[v] = "dead"
          BY <1>0, <2>1, <2>5, <4>2 DEF WorkerMark, MarkDeadWal, TypeOK
        <5> QED BY <5>1 DEF Resolved
      <4> QED BY <4>1, <4>2
    <3>2. UNCHANGED <<applied, queue>> /\ (\A t : ~WorksOn(k, t)') /\ ~WorksOn(k, v)
      BY <1>0, <2>1, <2>5, <3>1 DEF WorkerMark, WorksOn, TypeOK
    <3> QED BY <1>0, <1>3, <2>1, <2>2, <3>2 DEF Behind, WaitsFor
  <2>6. CASE WorkerFail(k)
    <3>1. UNCHANGED <<applied, queue>> /\ \A t : WorksOn(k, t)' <=> WorksOn(k, t)
      BY <1>0, <2>1, <2>6 DEF WorkerFail, WorksOn, TypeOK
    <3> QED BY <1>0, <1>3, <2>1, <2>2, <3>1 DEF Behind, WaitsFor
  <2>7. CASE WorkerCheck(k) \/ WorkerTimeout(k) \/ WorkerNotify(k)
    <3>1. /\ UNCHANGED <<applied, queue>>
          /\ \A t : ~WorksOn(k, t)' /\ ~WorksOn(k, t)
      BY <1>0, <2>7 DEF WorkerCheck, WorkerTimeout, WorkerNotify, WorksOn, TypeOK
    <3> QED BY <1>0, <1>3, <2>1, <2>2, <3>1 DEF Behind, WaitsFor
  <2> QED BY <1>7, <2>3, <2>4, <2>5, <2>6, <2>7 DEF WorkerStep
<1>8. CASE Crash
  <2>1. queue' = <<>> /\ (\A k \in Workers : wpc'[k] = "off") /\ UNCHANGED <<applied, copyOf>>
    BY <1>8 DEF Crash
  <2> QED BY <1>3, <2>1 DEF Behind, WaitsFor, WorksOn
<1>9. CASE UNCHANGED vars BY <1>9 DEF vars, Behind, WaitsFor, WorksOn
<1> QED BY <1>4, <1>5, <1>6, <1>7, <1>8, <1>9 DEF Next

OrderInv ==
  ServerInv /\ Untouched /\ Scheduled /\ CopyNamed /\ AcceptedKeptOn /\ InOrder

LEMMA NextInOrder == OrderInv /\ [Next]_vars => InOrder'
<1> SUFFICES ASSUME OrderInv, [Next]_vars, NEW w \in Works, NEW v \in ahead'[w]
             PROVE  (v # w /\ call[w] \notin {"new", "direct"} /\ Accepted(v) /\ (Resolved(v) \/ Behind(w, v)))'
  BY DEF InOrder
<1> USE DEF walVars, store, confVars, lifeVars, workVars, callVars, restVars
<1>0. /\ ServerInv /\ TypeOK /\ Once /\ Begun /\ Serving /\ w \in Tasks
      /\ ahead \in [Works -> SUBSET Works]
  BY DEF OrderInv, ServerInv, Tasks, TypeOK
<1>1. CASE CallQueued(w)
  <2>1. v \in Works /\ Accepted(v) /\ call[w] = "new" /\ v # w
    BY <1>0, <1>1 DEF CallQueued, Accepted, TypeOK
  <2>2. call'[w] = "persist" /\ Accepted(v)' /\ UNCHANGED <<applied, wal, copyOf, wpc, wtask, queue>>
    BY <1>0, <1>1, <2>1 DEF CallQueued, Accepted, TypeOK
  <2>3. wal[w] = "none" /\ applied[w] = 0 /\ \A n \in ReplayIds : copyOf[n] # w
    BY <1>0, <2>1 DEF Begun, Rowless, OrderInv, Untouched
  <2>4. ~InHands(w) BY <1>0, <2>3 DEF Once
  <2>5. Behind(w, v)' BY <2>2, <2>3, <2>4 DEF Behind, WaitsFor, InHands, Queued, WorksOn
  <2> QED BY <2>1, <2>2, <2>5
<1>2. CASE ~CallQueued(w)
  <2>1. v \in ahead[w]
    <3>1. CASE LifeStep
      BY <3>1 DEF LifeStep, Enable, ReplaySelect, ReplayPut, ReplayFull, StartWorker,
         DisableSignal, DisableJoin, DisableClose, DisableForget, DisableReset
    <3>2. ASSUME NEW u \in Works, CallStep(u) PROVE ahead'[w] = ahead[w]
      <4>1. CASE u = w
        BY <1>2, <3>2, <4>1
        DEF CallStep, CallDirect, RunDirect, Persist, PutNowait, Refuse, Return
      <4> QED BY <1>0, <3>2, <4>1, CallFrame
    <3> QED BY <3>1, <3>2, DlqFrame, WorkerFrame DEF Next, Crash, vars
  <2>2. /\ v \in Works /\ v # w /\ call[w] \notin {"new", "direct"} /\ Accepted(v)
        /\ Resolved(v) \/ Behind(w, v)
    BY <1>0, <2>1 DEF OrderInv, InOrder
  <2>3. call'[w] \notin {"new", "direct"} /\ Accepted(v)'
    <3>1. CASE LifeStep
      BY <2>2, <3>1 DEF LifeStep, Enable, ReplaySelect, ReplayPut, ReplayFull, StartWorker,
         DisableSignal, DisableJoin, DisableClose, DisableForget, DisableReset, Accepted
    <3>2. ASSUME NEW u \in Works, CallStep(u) PROVE call'[w] \notin {"new", "direct"} /\ Accepted(v)'
      BY <1>0, <2>2, <3>2
      DEF CallStep, CallQueued, CallDirect, RunDirect, Persist, PutNowait, Refuse,
         Return, TypeOK, Accepted
    <3>3. CASE Crash BY <1>0, <2>2, <3>3 DEF Crash, Accepted, TypeOK
    <3> QED BY <2>2, <3>1, <3>2, <3>3, DlqFrame, WorkerFrame DEF Next, vars, Accepted
  <2>4. Resolved(v) \/ wal[v] = "pending" BY <2>2 DEF OrderInv, AcceptedKeptOn
  <2>5. Resolved(v) => Resolved(v)'
    BY <1>0, <2>2, <2>3, FateStays DEF OrderInv, Accepted
  <2>6. CASE ~Resolved(v)' BY <1>0, <2>2, <2>4, <2>5, <2>6, StaysBehind, <2>3 DEF OrderInv
  <2> QED BY <2>2, <2>3, <2>6
<1> QED BY <1>1, <1>2

\* FIFO across restarts: a write accepted before another call began takes effect
\* first, unless it ended among the dead letters, for any number of callers and
\* crashes and with replayed dead letters (queue.Queue, ORDER BY rowid in
\* _replay_wal), as long as no replay found the queue full.
THEOREM InRealTimeOrder ==
  ASSUME MaxDisables = 0, ~EarlyCalls
  PROVE  Spec /\ [][~ReplayFull]_vars => []RealTimeOrder
<1> DEFINE Rest == Untouched /\ Scheduled /\ CopyNamed /\ AcceptedKeptOn /\ InOrder
<1>1. Init => Rest
  BY DEF Init, Untouched, Scheduled, CopyNamed, DlqIdle, AcceptedKeptOn, Accepted, InOrder
<1>2. ServerInv /\ Rest /\ [Next]_vars /\ [~ReplayFull]_vars => Rest'
  <2> SUFFICES ASSUME ServerInv, Rest, [Next]_vars, [~ReplayFull]_vars PROVE Rest'
    OBVIOUS
  <2>1. Untouched' /\ CopyNamed' /\ AcceptedKeptOn' /\ InOrder'
    BY NextUntouched, NextCopyNamed, NextAcceptedKeptOn, NextInOrder DEF OrderInv
  <2>2. Scheduled'
    <3>1. CASE UNCHANGED vars
      BY <3>1 DEF vars, Scheduled, InHands, Queued, WorksOn
    <3> QED BY <3>1, NextScheduled DEF ServerInv
  <2> QED BY <2>1, <2>2
<1>3. ServerInv /\ Rest => RealTimeOrder
  <2> SUFFICES ASSUME Rest, NEW w \in Works, NEW v \in ahead[w], applied[w] > 0, v \in Works
               PROVE  \/ applied[v] > 0
                      \/ HasRow(v, "dead") \/ v \in cleared
                      \/ \E n \in ReplayIds : copyOf[n] = v
    BY DEF RealTimeOrder, ServerInv, TypeOK
  <2>1. Resolved(v) BY DEF InOrder, Behind
  <2>2. v \in TasksOf(v) BY DEF TasksOf, Tasks, WorkOf
  <2> QED BY <2>1, <2>2 DEF Resolved, HasRow
<1> HIDE DEF Rest
<1> QED BY <1>1, <1>2, <1>3, ServerInvariant, PTL DEF Spec

-----------------------------------------------------------------------------
(***************************************************************************)
(* KeepsPromise: the queue implements DurableWrites. What a step does to   *)
(* the rows of a write decides which abstract step it is; the status of    *)
(* every other write stays.                                                *)
(***************************************************************************)

\* The status of a write depends on its call, its rows and its history only.
LEMMA SameStatus ==
  ASSUME NEW v \in Works, applied'[v] = applied[v], v \in cleared' <=> v \in cleared,
         call'[v] = call[v],
         HasRow(v, "pending")' <=> HasRow(v, "pending"),
         HasRow(v, "dead")' <=> HasRow(v, "dead")
  PROVE  StatusOf(v)' = StatusOf(v)
BY DEF StatusOf

\* A statement on one row leaves the rows of the other writes alone.
LEMMA OtherRows ==
  ASSUME UNCHANGED copyOf, NEW t, \A u \in Tasks \ {t} : wal'[u] = wal[u],
         NEW v, WorkOf(t) # v, NEW s
  PROVE  HasRow(v, s)' <=> HasRow(v, s)
BY DEF HasRow, TasksOf, WorkOf, Tasks

LEMMA SameRows ==
  ASSUME UNCHANGED <<copyOf, wal>>, NEW v, NEW s
  PROVE  HasRow(v, s)' <=> HasRow(v, s)
BY DEF HasRow, TasksOf, WorkOf

LEMMA NothingChanges ==
  ASSUME \A v \in Works : StatusOf(v)' = StatusOf(v), UNCHANGED applied
  PROVE  UNCHANGED Promise!avars
BY DEF Promise!avars

LEMMA OneChanges ==
  ASSUME NEW w \in Works, \A v \in Works \ {w} : StatusOf(v)' = StatusOf(v)
  PROVE  [v \in Works |-> StatusOf(v)]' =
           [[v \in Works |-> StatusOf(v)] EXCEPT ![w] = StatusOf(w)']
OBVIOUS

\* A write with a dead letter or a copy is past its call's put.
LEMMA OldRow ==
  ASSUME ServerInv, NEW w \in Works, NEW t \in TasksOf(w), t # w \/ wal[t] = "dead"
  PROVE  call[w] \notin Rowless \union {"put", "full"}
<1>0. Once /\ Begun /\ w \in Tasks BY DEF ServerInv, Tasks
<1>1. call[w] \in {"put", "full"} => wal[w] = "pending"
  BY <1>0 DEF Once, InHands
<1>2. CASE t = w BY <1>0, <1>1, <1>2 DEF Begun
<1>3. CASE t # w
  <2>1. t \in ReplayIds /\ copyOf[t] = w BY <1>3 DEF TasksOf, WorkOf, Tasks
  <2> QED BY <1>0, <1>1, <2>1 DEF Begun
<1> QED BY <1>2, <1>3

\* A cleared write has no row left, and gets none.
ClearedGone ==
  \A w \in cleared : /\ ~HasRow(w, "pending") /\ ~HasRow(w, "dead")
                     /\ call[w] \notin Rowless \union {"put", "full"}

LEMMA NextClearedGone ==
  ServerInv /\ ClearedGone /\ [Next]_vars => ClearedGone'
<1> SUFFICES ASSUME ServerInv, ClearedGone, [Next]_vars, NEW w \in cleared'
             PROVE  /\ ~HasRow(w, "pending")' /\ ~HasRow(w, "dead")'
                    /\ call'[w] \notin Rowless \union {"put", "full"}
  BY DEF ClearedGone
<1> USE DEF walVars, store, confVars, lifeVars, workVars, callVars, restVars
<1>0. TypeOK /\ Once /\ Begun /\ w \in Works /\ w \in Tasks /\ TypeOK'
  <2>1. TypeOK' BY NextType DEF ServerInv
  <2> QED BY <2>1 DEF ServerInv, Tasks, TypeOK
<1>1. CASE w \notin cleared
  <2>1. DlqClear /\ HasRow(w, "dead")
    <3>1. LifeStep => cleared' = cleared
      BY DEF LifeStep, Enable, ReplaySelect, ReplayPut, ReplayFull, StartWorker,
         DisableSignal, DisableJoin, DisableClose, DisableForget, DisableReset
    <3>2. DlqStep => DlqClear \/ cleared' = cleared
      BY DEF DlqStep, DlqReplay, DlqRetire, DlqPut, DlqRefuse
    <3>3. DlqClear BY <1>0, <1>1, <3>1, <3>2, CallFrame, WorkerFrame DEF Next, Crash, vars
    <3> QED BY <1>1, <3>3 DEF DlqClear
  <2>2. ~HasRow(w, "pending") BY <1>1, <2>1 DEF DlqClear
  <2>3. \A t \in Tasks : /\ wal'[t] # "dead" /\ (wal'[t] = "pending" => wal[t] = "pending")
                         /\ WorkOf(t)' = WorkOf(t)
    BY <2>1 DEF DlqClear, IsDead, WorkOf
  <2>4. ~HasRow(w, "pending")' /\ ~HasRow(w, "dead")'
    BY <2>2, <2>3 DEF HasRow, TasksOf
  <2>5. call[w] \notin Rowless \union {"put", "full"}
    BY <1>0, <2>1, OldRow DEF HasRow
  <2> QED BY <2>1, <2>4, <2>5 DEF DlqClear
<1>2. CASE w \in cleared
  <2>0. /\ ~HasRow(w, "pending") /\ ~HasRow(w, "dead")
        /\ call[w] \notin Rowless \union {"put", "full"}
    BY <1>2 DEF ClearedGone
  <2>1. call'[w] \notin Rowless \union {"put", "full"}
    <3>1. CASE LifeStep
      BY <2>0, <3>1 DEF LifeStep, Enable, ReplaySelect, ReplayPut, ReplayFull, StartWorker,
         DisableSignal, DisableJoin, DisableClose, DisableForget, DisableReset
    <3>2. ASSUME NEW v \in Works, CallStep(v)
          PROVE  call'[w] \notin Rowless \union {"put", "full"}
      <4>1. CASE v = w
        <5>1. Return(w)
          BY <2>0, <3>2, <4>1
          DEF CallStep, CallQueued, CallDirect, RunDirect, Persist, PutNowait,
             Refuse, Rowless
        <5> QED BY <1>0, <5>1 DEF Return, Rowless, TypeOK
      <4> QED BY <1>0, <2>0, <3>2, <4>1, CallFrame
    <3>3. CASE Crash
      BY <1>0, <2>0, <3>3 DEF Crash, Rowless, TypeOK
    <3> QED BY <2>0, <3>1, <3>2, <3>3, DlqFrame, WorkerFrame DEF Next, vars
  <2>2. SUFFICES ASSUME NEW t \in Tasks, WorkOf(t)' = w, wal'[t] \in {"pending", "dead"}
                 PROVE  FALSE
    BY <2>1 DEF HasRow, TasksOf, WorkOf, Tasks
  <2>3. CASE \E u \in Tasks, n \in ReplayIds : DlqReplay(u, n) /\ t = n
    <3>1. PICK u \in Tasks, n \in ReplayIds : DlqReplay(u, n) /\ t = n BY <2>3
    <3>2. copyOf'[n] = WorkOf(u) /\ n \notin Works /\ wal[u] = "dead"
      BY <1>0, <3>1, QueueAssumption DEF DlqReplay, TypeOK
    <3>3. WorkOf(u) = w BY <2>2, <3>1, <3>2 DEF WorkOf
    <3> QED BY <2>0, <3>2, <3>3 DEF HasRow, TasksOf
  <2>4. CASE ~\E u \in Tasks, n \in ReplayIds : DlqReplay(u, n) /\ t = n
    <3>1. WorkOf(t) = w
      <4>1. CASE t \in Works BY <2>2, <4>1 DEF WorkOf
      <4>2. CASE t \notin Works
        <5>1. t \in ReplayIds /\ copyOf'[t] = w BY <2>2, <4>2 DEF WorkOf, Tasks
        <5>2. CASE DlqStep
          BY <1>0, <2>4, <5>1, <5>2, <4>2 DEF DlqStep, DlqReplay, DlqRetire, DlqPut,
             DlqRefuse, DlqClear, TypeOK, WorkOf
        <5>3. CASE LifeStep
          BY <5>1, <5>3, <4>2 DEF LifeStep, Enable, ReplaySelect, ReplayPut, ReplayFull,
             StartWorker, DisableSignal, DisableJoin, DisableClose, DisableForget,
             DisableReset, WorkOf
        <5> QED BY <1>0, <4>2, <5>1, <5>2, <5>3, CallFrame, WorkerFrame
                DEF Next, Crash, vars, WorkOf
      <4> QED BY <4>1, <4>2
    <3>2. wal[t] \notin {"pending", "dead"} BY <2>0, <3>1 DEF HasRow, TasksOf
    <3>3. ASSUME NEW k \in Workers, WorkerMark(k) PROVE wtask[k].id # t
      <4>1. WorksOn(k, wtask[k].id) BY <3>3 DEF WorkerMark, WorksOn
      <4> QED BY <1>0, <3>2, <4>1 DEF Once, InHands
    <3>4. ~(t \in Works /\ Persist(t))
      BY <2>0, <3>1 DEF Persist, WorkOf, Rowless
    <3> QED BY <1>0, <2>2, <2>4, <3>2, <3>3, <3>4, RowSteps
  <2> QED BY <2>3, <2>4
<1> QED BY <1>1, <1>2

\* A step that changes the status or the effects of one write as DurableWrites
\* allows is a step of DurableWrites.
LEMMA OneMoves ==
  ASSUME NEW w \in Works, \A v \in Works \ {w} : StatusOf(v)' = StatusOf(v),
         \/ /\ UNCHANGED applied
            /\ StatusOf(w) = "new" /\ StatusOf(w)' \in {"open", "refused"}
         \/ /\ applied' = [applied EXCEPT ![w] = @ + 1]
            /\ StatusOf(w) = "new" /\ StatusOf(w)' = "settled"
         \/ /\ applied' = [applied EXCEPT ![w] = @ + 1]
            /\ StatusOf(w) = "open" /\ StatusOf(w)' = "open"
         \/ /\ UNCHANGED applied
            /\ StatusOf(w) = "open"
            /\ StatusOf(w)' = "buried" \/ (StatusOf(w)' = "settled" /\ applied[w] > 0)
         \/ /\ UNCHANGED applied
            /\ StatusOf(w) = "buried" /\ StatusOf(w)' = "open"
  PROVE  Promise!ANext
<1> DEFINE st == [v \in Works |-> StatusOf(v)]
<1>1. st' = [st EXCEPT ![w] = StatusOf(w)'] BY OneChanges
<1>2. st[w] = StatusOf(w) OBVIOUS
<1>3. CASE UNCHANGED applied /\ StatusOf(w) = "new" /\ StatusOf(w)' \in {"open", "refused"}
  <2> DEFINE accept == IF StatusOf(w)' = "open" THEN {w} ELSE {}
             refuse == IF StatusOf(w)' = "open" THEN {} ELSE {w}
  <2>1. /\ accept \in SUBSET {v \in Works : st[v] = "new"}
        /\ refuse \in SUBSET {v \in Works : st[v] = "new"}
    BY <1>2, <1>3
  <2>2. st' = [v \in Works |-> IF v \in accept THEN "open"
                               ELSE IF v \in refuse THEN "refused" ELSE st[v]]
    BY <1>3
  <2>3. Promise!Decide(accept, refuse) BY <1>3, <2>2 DEF Promise!Decide
  <2> HIDE DEF accept, refuse
  <2> QED BY <2>1, <2>3 DEF Promise!ANext
<1>4. CASE applied' = [applied EXCEPT ![w] = @ + 1] /\ StatusOf(w) = "new"
             /\ StatusOf(w)' = "settled"
  <2>1. Promise!Bypass(w) BY <1>1, <1>2, <1>4 DEF Promise!Bypass
  <2> QED BY <2>1 DEF Promise!ANext
<1>5. CASE applied' = [applied EXCEPT ![w] = @ + 1] /\ StatusOf(w) = "open"
             /\ StatusOf(w)' = "open"
  <2>1. st' = st BY <1>5
  <2>2. Promise!TakeEffect(w) BY <1>2, <1>5, <2>1 DEF Promise!TakeEffect
  <2> QED BY <2>2 DEF Promise!ANext
<1>6. CASE UNCHANGED applied /\ StatusOf(w) = "open" /\ StatusOf(w)' = "buried"
  <2>1. Promise!Bury(w) BY <1>1, <1>2, <1>6 DEF Promise!Bury
  <2> QED BY <2>1 DEF Promise!ANext
<1>7. CASE UNCHANGED applied /\ StatusOf(w) = "open" /\ applied[w] > 0
             /\ StatusOf(w)' = "settled"
  <2>1. Promise!Settle(w) BY <1>1, <1>2, <1>7 DEF Promise!Settle
  <2> QED BY <2>1 DEF Promise!ANext
<1>8. CASE UNCHANGED applied /\ StatusOf(w) = "buried" /\ StatusOf(w)' = "open"
  <2>1. Promise!Revive(w) BY <1>1, <1>2, <1>8 DEF Promise!Revive
  <2> QED BY <2>1 DEF Promise!ANext
<1> QED BY <1>3, <1>4, <1>5, <1>6, <1>7, <1>8

\* What the simulation needs to know of the states of the queue.
PromiseInv == ServerInv /\ Untouched /\ CopyNamed /\ ClearedGone

\* The call of a write is decided when it returns or its task is in the queue.
LEMMA CallsKeepPromise ==
  ASSUME PromiseInv, NEW w \in Works, CallStep(w)
  PROVE  [Promise!ANext]_(Promise!avars)
<1> USE DEF walVars, store, confVars, lifeVars, workVars, callVars, restVars
<1>0. /\ ServerInv /\ TypeOK /\ Once /\ Begun /\ Serving /\ w \in Tasks /\ w \in TasksOf(w)
      /\ WorkOf(w) = w
  BY DEF PromiseInv, ServerInv, Tasks, TasksOf, WorkOf
<1>1. /\ \A v \in Works \ {w} : call'[v] = call[v]
      /\ UNCHANGED <<copyOf, cleared>>
      /\ \A t \in Tasks \ {w} : wal'[t] = wal[t]
  BY <1>0, CallFrame
<1>2. \A v \in Works \ {w} : \A s : HasRow(v, s)' <=> HasRow(v, s)
  BY <1>0, <1>1, OtherRows
<1>3. \A v \in Works \ {w} : applied'[v] = applied[v]
  BY <1>0
  DEF CallStep, CallQueued, CallDirect, RunDirect, Persist, PutNowait, Refuse, Return, TypeOK
<1>4. \A v \in Works \ {w} : StatusOf(v)' = StatusOf(v)
  BY <1>1, <1>2, <1>3, SameStatus
\* A call without a row has left no other trace.
<1>5. ASSUME call[w] \in Rowless \union {"put", "full"}
      PROVE  w \notin cleared /\ TasksOf(w) = {w} /\ TasksOf(w)' = {w}
  <2>1. w \notin cleared BY <1>5 DEF PromiseInv, ClearedGone
  <2>2. TasksOf(w) = {w} BY <1>0, <1>5, OldRow
  <2>3. TasksOf(w)' = TasksOf(w) BY <1>1 DEF TasksOf, WorkOf
  <2> QED BY <2>1, <2>2, <2>3
<1>6. CASE CallQueued(w)
  <2>1. StatusOf(w) = "new" /\ StatusOf(w)' = "new" /\ UNCHANGED applied
    BY <1>0, <1>6 DEF CallQueued, StatusOf, TypeOK
  <2> QED BY <1>4, <2>1, NothingChanges
<1>12. CASE CallDirect(w)
  <2>1. StatusOf(w) = "new" /\ StatusOf(w)' = "new" /\ UNCHANGED applied
    BY <1>0, <1>12 DEF CallDirect, StatusOf, TypeOK
  <2> QED BY <1>4, <2>1, NothingChanges
<1>7. CASE RunDirect(w)
  <2>1. call[w] = "direct" /\ wal[w] = "none" /\ applied[w] = 0 /\ UNCHANGED <<wal, cleared>>
    BY <1>0, <1>7 DEF RunDirect, Begun, Rowless, PromiseInv, Untouched
  <2>2. w \notin cleared /\ TasksOf(w)' = {w} BY <1>5, <2>1 DEF Rowless
  <2>3. ~HasRow(w, "pending")' /\ ~HasRow(w, "dead")' /\ w \notin cleared'
    BY <2>1, <2>2 DEF HasRow
  <2>4. StatusOf(w) = "new" BY <2>1 DEF StatusOf
  <2>5. CASE call'[w] = "ran" /\ applied' = [applied EXCEPT ![w] = @ + 1]
    <3>1. StatusOf(w)' = "settled" BY <2>3, <2>5 DEF StatusOf
    <3> QED BY <1>4, <2>4, <2>5, <3>1, OneMoves
  <2>6. CASE call'[w] = "raised" /\ UNCHANGED applied
    <3>1. StatusOf(w)' = "refused" BY <2>1, <2>3, <2>6 DEF StatusOf
    <3> QED BY <1>4, <2>4, <2>6, <3>1, OneMoves
  <2> QED BY <1>0, <1>7, <2>5, <2>6 DEF RunDirect, TypeOK
<1>8. CASE Persist(w)
  <2>1. StatusOf(w) = "new" /\ StatusOf(w)' = "new" /\ UNCHANGED applied
    BY <1>0, <1>8 DEF Persist, StatusOf, Serving, TypeOK
  <2> QED BY <1>4, <2>1, NothingChanges
<1>9. CASE PutNowait(w)
  <2>1. /\ StatusOf(w) = "new" /\ UNCHANGED <<applied, wal>>
        /\ call'[w] \in {"wait", "queued", "full"}
    BY <1>0, <1>9 DEF PutNowait, StatusOf, TypeOK
  <2>2. CASE call'[w] = "full"
    <3>1. StatusOf(w)' = "new" BY <2>2 DEF StatusOf
    <3> QED BY <1>4, <2>1, <3>1, NothingChanges
  <2>3. CASE call'[w] \in {"wait", "queued"}
    <3>1. wal[w] = "pending" BY <1>0, <1>9 DEF PutNowait, Once, InHands
    <3>2. HasRow(w, "pending")' BY <1>0, <1>1, <2>1, <3>1 DEF HasRow, TasksOf, WorkOf
    <3>3. StatusOf(w)' = "open" BY <2>3, <3>2 DEF StatusOf
    <3> QED BY <1>4, <2>1, <3>3, OneMoves
  <2> QED BY <2>1, <2>2, <2>3
<1>10. CASE Refuse(w)
  <2>1. /\ call[w] = "full" /\ call'[w] = "refused" /\ wal'[w] = "none"
        /\ UNCHANGED <<applied, cleared>> /\ applied[w] = 0
    BY <1>0, <1>10 DEF Refuse, DeleteWal, Serving, TypeOK, PromiseInv, Untouched
  <2>2. w \notin cleared /\ TasksOf(w)' = {w} BY <1>5, <2>1
  <2>3. ~HasRow(w, "pending")' /\ ~HasRow(w, "dead")' BY <2>1, <2>2 DEF HasRow
  <2>4. StatusOf(w) = "new" /\ StatusOf(w)' = "refused"
    BY <2>1, <2>2, <2>3 DEF StatusOf
  <2> QED BY <1>4, <2>1, <2>4, OneMoves
<1>11. CASE Return(w)
  <2>1. /\ call[w] = "wait" /\ call'[w] \in {"ok", "error"}
        /\ UNCHANGED <<applied, cleared, wal>>
    BY <1>0, <1>11 DEF Return, TypeOK
  <2>2. \A s : HasRow(w, s)' <=> HasRow(w, s) BY <1>1, <2>1, SameRows
  <2>3. StatusOf(w)' = StatusOf(w) BY <2>1, <2>2 DEF StatusOf
  <2> QED BY <1>4, <2>1, <2>3, NothingChanges
<1> QED BY <1>6, <1>7, <1>8, <1>9, <1>10, <1>11, <1>12 DEF CallStep

\* The operator revives dead letters one by one and drops them all at once.
LEMMA OperatorKeepsPromise ==
  ASSUME PromiseInv, DlqStep, ~DlqRefuse
  PROVE  [Promise!ANext]_(Promise!avars)
<1> USE DEF walVars, store, confVars, lifeVars, workVars, callVars, restVars
<1>0. /\ ServerInv /\ TypeOK /\ Carries /\ Once /\ Begun /\ Serving
      /\ UNCHANGED <<applied, call>>
  BY DlqFrame DEF PromiseInv, ServerInv
<1>1. ASSUME NEW t \in Tasks, NEW n \in ReplayIds, DlqReplay(t, n)
      PROVE  [Promise!ANext]_(Promise!avars)
  <2>1. PICK w \in Works : WorkOf(t) = w
    BY <1>0, <1>1 DEF DlqReplay, Carries, CarriedTasks
  <2>2. /\ copyOf[n] = None /\ copyOf' = [copyOf EXCEPT ![n] = w]
        /\ wal' = [wal EXCEPT ![n] = "pending"] /\ wal[t] = "dead"
        /\ cleared' = cleared /\ n \in Tasks /\ n \notin Works
    BY <1>1, <2>1, QueueAssumption DEF DlqReplay, PersistWal, Tasks
  <2>3. \A v \in Works \ {w} : TasksOf(v)' = TasksOf(v) /\ n \notin TasksOf(v)
    BY <1>0, <2>2, QueueAssumption DEF TasksOf, WorkOf, Tasks, TypeOK
  <2>4. \A v \in Works \ {w} : \A s : HasRow(v, s)' <=> HasRow(v, s)
    BY <1>0, <2>2, <2>3 DEF HasRow, TasksOf, TypeOK
  <2>5. \A v \in Works \ {w} : StatusOf(v)' = StatusOf(v)
    BY <1>0, <2>2, <2>4, SameStatus
  <2>6. t \in TasksOf(w) /\ n \in TasksOf(w)'
    BY <1>0, <2>1, <2>2 DEF TasksOf, WorkOf, TypeOK
  <2>7. call[w] \notin Rowless \union {"put", "full"} BY <1>0, <2>2, <2>6, OldRow
  <2>8. StatusOf(w) \in {"open", "buried"}
    BY <2>2, <2>6, <2>7 DEF StatusOf, HasRow, Rowless
  <2>9. StatusOf(w)' = "open"
    <3>1. wal'[n] = "pending" BY <1>0, <2>2 DEF TypeOK
    <3> QED BY <1>0, <2>6, <2>7, <3>1 DEF StatusOf, HasRow, Rowless
  <2>10. CASE StatusOf(w) = "open"
    BY <1>0, <2>5, <2>9, <2>10, NothingChanges
  <2>11. CASE StatusOf(w) = "buried"
    BY <1>0, <2>5, <2>9, <2>11, OneMoves
  <2> QED BY <2>8, <2>10, <2>11
<1>2. CASE DlqRetire
  <2>1. UNCHANGED <<copyOf, cleared>> /\ conn = "open"
    BY <1>0, <1>2 DEF DlqRetire, Serving, DlqIdle
  <2>2. PICK o \in Tasks, n \in ReplayIds : o = dlq.old /\ n = dlq.new
    BY <1>0, <1>2 DEF DlqRetire, TypeOK, DlqIdle
  <2>3. copyOf[n] = WorkOf(o) /\ wal[o] = "dead"
    BY <1>0, <1>2, <2>2 DEF DlqRetire, Begun, PromiseInv, CopyNamed
  <2>4. PICK w \in Works : WorkOf(o) = w
    BY <1>0, <2>3 DEF Carries, CarriedTasks
  <2>5. n \in Tasks /\ n \notin Works /\ wal[n] = "pending"
    <3>1. n \in Tasks /\ Entering(n) BY <1>2, <2>2 DEF Entering, DlqRetire, Tasks
    <3> QED BY <1>0, <2>2, <3>1, QueueAssumption DEF Once, InHands, Entering
  <2>6. (\A u \in Tasks \ {o} : wal'[u] = wal[u]) /\ wal'[o] # "pending" /\ wal'[n] = "pending"
    BY <1>0, <1>2, <2>1, <2>2, <2>3, <2>5 DEF DlqRetire, RetireWal, TypeOK
  <2>7. \A v \in Works \ {w} : StatusOf(v)' = StatusOf(v)
    BY <1>0, <2>1, <2>4, <2>6, OtherRows, SameStatus
  <2>8. HasRow(w, "pending") /\ HasRow(w, "pending")'
    <3>1. WorkOf(n) = w /\ WorkOf(n)' = w BY <2>1, <2>3, <2>4, <2>5 DEF WorkOf
    <3> QED BY <2>5, <2>6, <3>1 DEF HasRow, TasksOf
  <2>9. StatusOf(w)' = StatusOf(w) BY <1>0, <2>8 DEF StatusOf
  <2> QED BY <1>0, <2>7, <2>9, NothingChanges
<1>3. CASE DlqPut
  <2>1. UNCHANGED <<wal, copyOf, cleared>> BY <1>3 DEF DlqPut
  <2>2. \A v \in Works : StatusOf(v)' = StatusOf(v) BY <1>0, <2>1, SameRows, SameStatus
  <2> QED BY <1>0, <2>2, NothingChanges
<1>4. CASE DlqClear
  <2> DEFINE ws == {w \in Works : HasRow(w, "dead") /\ ~HasRow(w, "pending")}
             st == [v \in Works |-> StatusOf(v)]
  <2>1. /\ UNCHANGED copyOf /\ cleared' = cleared \union ws
        /\ \A t \in Tasks : /\ wal'[t] # "dead"
                            /\ wal'[t] = "pending" <=> wal[t] = "pending"
    BY <1>4 DEF DlqClear, IsDead
  <2>2. \A v \in Works : /\ ~HasRow(v, "dead")'
                         /\ HasRow(v, "pending")' <=> HasRow(v, "pending")
    BY <2>1 DEF HasRow, TasksOf, WorkOf
  <2>3. ASSUME NEW v \in ws PROVE StatusOf(v) = "buried" /\ StatusOf(v)' = "dropped"
    <3>1. call[v] \notin Rowless \union {"put", "full"}
      <4>1. PICK t \in TasksOf(v) : wal[t] = "dead" BY DEF HasRow
      <4> QED BY <1>0, <4>1, OldRow
    <3> QED BY <1>0, <2>1, <2>2, <3>1 DEF StatusOf, Rowless
  <2>4. ASSUME NEW v \in Works \ ws PROVE StatusOf(v)' = StatusOf(v)
    BY <1>0, <2>1, <2>2 DEF StatusOf
  <2>5. CASE ws = {} BY <1>0, <2>4, <2>5, NothingChanges
  <2>6. CASE ws # {}
    <3>1. st' = [v \in Works |-> IF v \in ws THEN "dropped" ELSE st[v]]
      BY <2>3, <2>4
    <3>2. Promise!Drop(ws) BY <1>0, <2>6, <3>1 DEF Promise!Drop
    <3>3. ws \in SUBSET {v \in Works : st[v] = "buried"} BY <2>3
    <3> HIDE DEF ws
    <3> QED BY <3>2, <3>3 DEF Promise!ANext
  <2> QED BY <2>5, <2>6
<1> QED BY <1>1, <1>2, <1>3, <1>4 DEF DlqStep

\* A worker applies a write that is open, then settles or buries it, unless a
\* second row keeps it open.
LEMMA WorkersKeepPromise ==
  ASSUME PromiseInv, NEW k \in Workers, WorkerStep(k)
  PROVE  [Promise!ANext]_(Promise!avars)
<1> USE DEF walVars, store, confVars, lifeVars, workVars, callVars, restVars
<1>0. /\ ServerInv /\ TypeOK /\ Carries /\ Once /\ Begun
      /\ UNCHANGED <<call, copyOf, cleared>> /\ conn = "open"
  BY WorkerFrame DEF PromiseInv, ServerInv, Serving
\* The write a busy worker has in hands is open.
<1>1. ASSUME wpc[k] \in {"run", "mark"}
      PROVE  \E t \in Tasks, w \in Works :
               /\ t = wtask[k].id /\ w = WorkOf(t) /\ t \in TasksOf(w) /\ wal[t] = "pending"
               /\ call[w] \notin Rowless \union {"put", "full"}
               /\ StatusOf(w) = "open"
  <2>1. PICK t \in Tasks, w \in Works : t = wtask[k].id /\ w = WorkOf(t)
    BY <1>0, <1>1 DEF Carries, Busy, GoodEntries, CarriedTasks
  <2>2. WorksOn(k, t) /\ t \in TasksOf(w) BY <1>1, <2>1 DEF WorksOn, TasksOf
  <2>3. wal[t] = "pending" /\ ~Entering(t) BY <1>0, <2>2 DEF Once, InHands
  <2>4. call[w] \notin Rowless \union {"put", "full"}
    <3>1. CASE t = w BY <1>0, <2>3, <3>1 DEF Begun, Entering
    <3> QED BY <1>0, <2>2, <3>1, OldRow
  <2>5. StatusOf(w) = "open" BY <2>2, <2>3, <2>4 DEF StatusOf, HasRow, Rowless
  <2> QED BY <2>1, <2>2, <2>3, <2>4, <2>5
<1>2. CASE WorkerApply(k)
  <2>1. PICK t \in Tasks, w \in Works : /\ t = wtask[k].id /\ w = WorkOf(t)
                                        /\ call[w] \notin Rowless \union {"put", "full"}
                                        /\ StatusOf(w) = "open"
    BY <1>1, <1>2 DEF WorkerApply
  <2>2. applied' = [applied EXCEPT ![w] = @ + 1] /\ UNCHANGED wal
    BY <1>2, <2>1 DEF WorkerApply
  <2>3. \A v \in Works : \A s : HasRow(v, s)' <=> HasRow(v, s) BY <1>0, <2>2, SameRows
  <2>4. \A v \in Works \ {w} : StatusOf(v)' = StatusOf(v)
    BY <1>0, <2>2, <2>3, SameStatus DEF TypeOK
  <2>5. HasRow(w, "pending") BY <2>1 DEF StatusOf
  <2>6. StatusOf(w)' = "open" BY <1>0, <2>1, <2>3, <2>5 DEF StatusOf, Rowless
  <2> QED BY <2>1, <2>2, <2>4, <2>6, OneMoves
<1>3. CASE WorkerMark(k)
  <2>1. PICK t \in Tasks, w \in Works : /\ t = wtask[k].id /\ w = WorkOf(t)
                                        /\ t \in TasksOf(w) /\ wal[t] = "pending"
                                        /\ call[w] \notin Rowless \union {"put", "full"}
                                        /\ StatusOf(w) = "open"
    BY <1>1, <1>3 DEF WorkerMark
  <2>2. /\ \A u \in Tasks \ {t} : wal'[u] = wal[u]
        /\ wal'[t] = IF wok[k] THEN "none" ELSE "dead"
        /\ UNCHANGED applied
    BY <1>0, <1>3, <2>1 DEF WorkerMark, DeleteWal, MarkDeadWal, TypeOK
  <2>3. \A v \in Works \ {w} : StatusOf(v)' = StatusOf(v)
    BY <1>0, <2>1, <2>2, OtherRows, SameStatus
  <2>4. w \notin cleared' BY <1>0, <2>1 DEF PromiseInv, ClearedGone, HasRow
  <2>5. wok[k] => applied[w] > 0 BY <1>0, <2>1 DEF ServerInv, WorkerTold
  <2>6. ~wok[k] => HasRow(w, "dead")'
    BY <1>0, <2>1, <2>2 DEF HasRow, TasksOf, WorkOf
  <2>7. CASE HasRow(w, "pending")'
    <3>1. StatusOf(w)' = "open" BY <1>0, <2>1, <2>7 DEF StatusOf, Rowless
    <3> QED BY <2>1, <2>2, <2>3, <3>1, NothingChanges
  <2>8. CASE ~HasRow(w, "pending")' /\ HasRow(w, "dead")'
    <3>1. StatusOf(w)' = "buried" BY <1>0, <2>1, <2>8 DEF StatusOf, Rowless
    <3> QED BY <2>1, <2>2, <2>3, <3>1, OneMoves
  <2>9. CASE ~HasRow(w, "pending")' /\ ~HasRow(w, "dead")'
    <3>1. wok[k] /\ applied[w] > 0 BY <2>5, <2>6, <2>9
    <3>2. applied'[w] # 0 BY <1>0, <2>2, <3>1 DEF TypeOK
    <3>3. StatusOf(w)' = "settled" BY <1>0, <2>1, <2>4, <2>9, <3>2 DEF StatusOf, Rowless
    <3> QED BY <2>1, <2>2, <2>3, <3>1, <3>3, OneMoves
  <2> QED BY <2>7, <2>8, <2>9
<1>4. CASE ~WorkerApply(k) /\ ~WorkerMark(k)
  <2>1. UNCHANGED <<wal, applied>>
    BY <1>0, <1>4 DEF WorkerStep, WorkerCheck, WorkerGet, WorkerTimeout, WorkerFail,
       WorkerNotify
  <2>2. \A v \in Works : StatusOf(v)' = StatusOf(v) BY <1>0, <2>1, SameRows, SameStatus
  <2> QED BY <2>1, <2>2, NothingChanges
<1> QED BY <1>2, <1>3, <1>4

\* A crash decides the calls it interrupts: by whether their row is there.
LEMMA CrashKeepsPromise ==
  ASSUME PromiseInv, Crash
  PROVE  [Promise!ANext]_(Promise!avars)
<1> USE DEF walVars, store, confVars, lifeVars, workVars, callVars, restVars
<1> DEFINE st == [v \in Works |-> StatusOf(v)]
           accept == {v \in Works : call[v] \in {"put", "full"}}
           refuse == {v \in Works : call[v] \in {"direct", "persist"}}
<1>0. /\ ServerInv /\ TypeOK /\ Once /\ Begun
      /\ UNCHANGED <<wal, copyOf, applied, cleared>>
  BY DEF PromiseInv, ServerInv, Crash
<1>1. \A v \in Works : \A s : HasRow(v, s)' <=> HasRow(v, s) BY <1>0, SameRows
<1>2. \A v \in Works :
        call'[v] = CASE call[v] \in {"direct", "persist", "put", "full"} -> "gone"
                     [] call[v] = "wait" -> "orphan"
                     [] OTHER -> call[v]
  BY DEF Crash
<1>3. ASSUME NEW v \in accept PROVE StatusOf(v) = "new" /\ StatusOf(v)' = "open"
  <2>1. v \in Tasks /\ v \in TasksOf(v) /\ wal[v] = "pending"
    BY <1>0 DEF Once, InHands, Tasks, TasksOf, WorkOf
  <2>2. HasRow(v, "pending")' BY <1>1, <2>1 DEF HasRow
  <2> QED BY <1>2, <2>2 DEF StatusOf
<1>4. ASSUME NEW v \in refuse PROVE StatusOf(v) = "new" /\ StatusOf(v)' = "refused"
  <2>1. v \in Works /\ call[v] \in {"direct", "persist"} OBVIOUS
  <2>2. wal[v] = "none" /\ applied[v] = 0 /\ v \notin cleared
    BY <1>0, <2>1 DEF Begun, PromiseInv, Untouched, ClearedGone, Rowless
  <2>3. TasksOf(v) = {v}
    BY <1>0, <2>1, OldRow DEF TasksOf, WorkOf, Tasks, Rowless
  <2>4. ~HasRow(v, "pending")' /\ ~HasRow(v, "dead")'
    BY <1>1, <2>1, <2>2, <2>3 DEF HasRow
  <2> QED BY <1>0, <1>2, <2>1, <2>2, <2>4 DEF StatusOf
<1>5. ASSUME NEW v \in Works \ (accept \union refuse) PROVE StatusOf(v)' = StatusOf(v)
  <2>1. \/ call'[v] = call[v]
        \/ call[v] = "wait" /\ call'[v] = "orphan"
    BY <1>2
  <2> QED BY <1>0, <1>1, <2>1 DEF StatusOf
<1>6. CASE accept \union refuse = {}
  BY <1>0, <1>5, <1>6, NothingChanges
<1>7. CASE accept \union refuse # {}
  <2>1. st' = [v \in Works |-> IF v \in accept THEN "open"
                               ELSE IF v \in refuse THEN "refused" ELSE st[v]]
    BY <1>3, <1>4, <1>5
  <2>2. accept \intersect refuse = {} OBVIOUS
  <2>3. Promise!Decide(accept, refuse) BY <1>0, <1>7, <2>1, <2>2 DEF Promise!Decide
  <2>4. /\ accept \in SUBSET {v \in Works : st[v] = "new"}
        /\ refuse \in SUBSET {v \in Works : st[v] = "new"}
    BY <1>3, <1>4
  <2> HIDE DEF accept, refuse
  <2> QED BY <2>3, <2>4 DEF Promise!ANext
<1> QED BY <1>6, <1>7

LEMMA StepsKeepPromise ==
  PromiseInv /\ [Next]_vars /\ ~DlqRefuse => [Promise!ANext]_(Promise!avars)
<1> SUFFICES ASSUME PromiseInv, [Next]_vars, ~DlqRefuse
             PROVE  [Promise!ANext]_(Promise!avars)
  OBVIOUS
<1>1. ASSUME UNCHANGED <<wal, copyOf, applied, cleared, call>>
      PROVE  [Promise!ANext]_(Promise!avars)
  BY <1>1, SameRows, SameStatus, NothingChanges
<1>2. CASE LifeStep
  BY <1>1, <1>2 DEF LifeStep, Enable, ReplaySelect, ReplayPut, ReplayFull, StartWorker,
     DisableSignal, DisableJoin, DisableClose, DisableForget, DisableReset, store, walVars,
     callVars, restVars
<1>3. CASE UNCHANGED vars BY <1>1, <1>3 DEF vars
<1> QED BY <1>2, <1>3, CallsKeepPromise, OperatorKeepsPromise, WorkersKeepPromise,
           CrashKeepsPromise DEF Next

LEMMA PromiseInit == Init => Promise!AInit
BY DEF Init, Promise!AInit, StatusOf

\* The write-through queue keeps the promise of its header: a write is refused, or
\* stays open until it has taken effect at least once or sits among the dead
\* letters, from where only the operator moves it, through crashes at any point,
\* for any number of callers, workers, retries and any backlog, as long as no
\* dlq_replay met a full queue (it deletes the only row that tells of the write).
THEOREM KeepsThePromise ==
  ASSUME MaxDisables = 0, ~EarlyCalls
  PROVE  Spec /\ [][~DlqRefuse]_vars => KeepsPromise
<1> DEFINE Rest == Untouched /\ CopyNamed /\ ClearedGone
<1>1. Init => Rest /\ Promise!AInit
  BY PromiseInit DEF Init, Untouched, CopyNamed, DlqIdle, ClearedGone
<1>2. ServerInv /\ Rest /\ [Next]_vars => Rest'
  BY NextUntouched, NextCopyNamed, NextClearedGone
<1>3. ServerInv /\ Rest /\ [Next]_vars /\ [~DlqRefuse]_vars
        => [Promise!ANext]_(Promise!avars)
  <2> SUFFICES ASSUME ServerInv, Rest, [Next]_vars, [~DlqRefuse]_vars
               PROVE  [Promise!ANext]_(Promise!avars)
    OBVIOUS
  <2>1. PromiseInv BY DEF PromiseInv
  <2>2. CASE ~DlqRefuse BY <2>1, <2>2, StepsKeepPromise
  <2>3. CASE UNCHANGED vars
    BY <2>3, SameRows, SameStatus, NothingChanges DEF vars
  <2> QED BY <2>2, <2>3
<1> HIDE DEF Rest
<1> QED BY <1>1, <1>2, <1>3, ServerInvariant, PTL DEF Spec, KeepsPromise, Promise!ASpec

-----------------------------------------------------------------------------
(***************************************************************************)
(* DuplicatesNeedCrashes. The rows of a write that can still be executed   *)
(* are counted with its executions: an execution uses up a row, the copy   *)
(* of a dead letter takes the place of the letter, and only a crash        *)
(* revives rows, those of a worker and of an operator between a write and  *)
(* the statement that records it.                                          *)
(***************************************************************************)

PerCrash == IF ReplayIds = {} THEN 1 ELSE 2

LEMMA Allowance ==
  ASSUME TypeOK
  PROVE  PerCrash * crashes \in Nat /\ PerCrash * (crashes + 1) = PerCrash * crashes + PerCrash
<1>1. crashes \in Nat BY QueueAssumption DEF TypeOK
<1> QED BY <1>1 DEF PerCrash

LEMMA DueFinite ==
  ASSUME NEW w \in Works
  PROVE  IsFiniteSet(Due(w)) /\ Cardinality(Due(w)) \in Nat
<1>1. Due(w) \in SUBSET ({w} \union ReplayIds) BY DEF Due, TasksOf, WorkOf, Tasks
<1>2. IsFiniteSet(ReplayIds \union {w}) BY FS_AddElement, QueueAssumption
<1>3. IsFiniteSet(Due(w)) BY <1>1, <1>2, FS_Subset
<1> QED BY <1>3, FS_CardinalityType

LEMMA DueFiniteNext ==
  ASSUME NEW w \in Works
  PROVE  IsFiniteSet(Due(w)') /\ Cardinality(Due(w)') \in Nat
<1>1. Due(w)' \in SUBSET ({w} \union ReplayIds) BY DEF Due, TasksOf, WorkOf, Tasks
<1>2. IsFiniteSet(ReplayIds \union {w}) BY FS_AddElement, QueueAssumption
<1>3. IsFiniteSet(Due(w)') BY <1>1, <1>2, FS_Subset
<1> QED BY <1>3, FS_CardinalityType

\* What one element more, one less or one for another does to a set's size.
LEMMA Gains ==
  ASSUME NEW D, NEW E, IsFiniteSet(D), NEW t, E \subseteq D \union {t}
  PROVE  IsFiniteSet(E) /\ Cardinality(E) <= Cardinality(D) + 1
<1>0. Cardinality(D) \in Nat BY FS_CardinalityType
<1>1. IsFiniteSet(D \union {t}) /\ Cardinality(D \union {t}) <= Cardinality(D) + 1
  <2>1. IsFiniteSet(D \union {t}) BY FS_AddElement
  <2>2. Cardinality(D \union {t}) =
          IF t \in D THEN Cardinality(D) ELSE Cardinality(D) + 1
    BY FS_AddElement
  <2> QED BY <1>0, <2>1, <2>2
<1>2. E \in SUBSET (D \union {t}) OBVIOUS
<1>3. IsFiniteSet(E) /\ Cardinality(E) <= Cardinality(D \union {t}) BY <1>1, <1>2, FS_Subset
<1>4. /\ Cardinality(E) \in Nat /\ Cardinality(D) \in Nat
      /\ Cardinality(D \union {t}) \in Nat
  BY <1>1, <1>3, FS_CardinalityType
<1> QED BY <1>1, <1>3, <1>4

LEMMA Swaps ==
  ASSUME NEW D, NEW E, IsFiniteSet(D), NEW t \in D, NEW n, E \subseteq (D \ {t}) \union {n}
  PROVE  Cardinality(E) <= Cardinality(D)
<1> DEFINE B == D \ {t}
<1>1. IsFiniteSet(B) /\ Cardinality(B) = Cardinality(D) - 1 BY FS_RemoveElement
<1>2. Cardinality(D) \in Nat /\ Cardinality(B) \in Nat BY <1>1, FS_CardinalityType
<1>3. IsFiniteSet(E) /\ Cardinality(E) <= Cardinality(B) + 1 BY <1>1, Gains
<1>4. Cardinality(E) \in Nat BY <1>3, FS_CardinalityType
<1> QED BY <1>1, <1>2, <1>3, <1>4

LEMMA Loses ==
  ASSUME NEW D, NEW E, IsFiniteSet(D), NEW t \in D, E \subseteq D \ {t}
  PROVE  Cardinality(E) + 1 <= Cardinality(D)
<1>1. IsFiniteSet(D \ {t}) /\ Cardinality(D \ {t}) = Cardinality(D) - 1
  BY FS_RemoveElement
<1>2. E \in SUBSET (D \ {t}) OBVIOUS
<1>3. IsFiniteSet(E) /\ Cardinality(E) <= Cardinality(D \ {t}) BY <1>1, <1>2, FS_Subset
<1>4. Cardinality(E) \in Nat /\ Cardinality(D) \in Nat BY <1>3, FS_CardinalityType
<1> QED BY <1>1, <1>3, <1>4

Counted(w) == applied[w] + Cardinality(Due(w)) <= 1 + PerCrash * crashes

\* A step that neither runs a write nor revives a row of it.
LEMMA NoMoreDue ==
  ASSUME TypeOK, NEW w \in Works, Counted(w), Due(w)' \subseteq Due(w),
         applied'[w] = applied[w], crashes' = crashes
  PROVE  Counted(w)'
<1>1. /\ IsFiniteSet(Due(w)) /\ Cardinality(Due(w)) \in Nat
      /\ Cardinality(Due(w)') \in Nat
  BY DueFinite, DueFiniteNext
<1>2. Due(w)' \in SUBSET Due(w) OBVIOUS
<1>3. Cardinality(Due(w)') <= Cardinality(Due(w)) BY <1>1, <1>2, FS_Subset
<1>4. applied[w] \in Nat /\ PerCrash * crashes \in Nat BY Allowance DEF TypeOK
<1>5. applied'[w] + Cardinality(Due(w)') <= 1 + PerCrash * crashes'
  BY <1>1, <1>3, <1>4 DEF Counted
<1>6. PerCrash' = PerCrash BY DEF PerCrash
<1> QED BY <1>5, <1>6 DEF Counted

\* A call's first execution, or its first row.
LEMMA FirstDue ==
  ASSUME TypeOK, NEW w \in Works, crashes' = crashes,
         \/ applied'[w] = 1 /\ Due(w)' = {}
         \/ applied'[w] = 0 /\ Due(w)' \subseteq {w}
  PROVE  Counted(w)'
<1>1. applied'[w] + Cardinality(Due(w)') <= 1
  <2>1. Cardinality({}) = 0 /\ IsFiniteSet({}) BY FS_EmptySet
  <2>2. CASE applied'[w] = 1 /\ Due(w)' = {} BY <2>1, <2>2
  <2>3. CASE applied'[w] = 0 /\ Due(w)' \subseteq {w}
    <3>1. Due(w)' \subseteq {} \union {w} BY <2>3
    <3>2. Cardinality(Due(w)') <= 1 BY <2>1, <3>1, Gains
    <3> QED BY <2>3, <3>2, DueFiniteNext
  <2> QED BY <2>2, <2>3
<1>2. PerCrash * crashes \in Nat BY Allowance
<1>3. applied'[w] + Cardinality(Due(w)') <= 1 + PerCrash * crashes'
  <2>1. Cardinality(Due(w)') \in Nat /\ applied'[w] \in Nat BY DueFiniteNext
  <2> QED BY <1>1, <1>2, <2>1
<1>4. PerCrash' = PerCrash BY DEF PerCrash
<1> QED BY <1>3, <1>4 DEF Counted

CountInv == ServerInv /\ Untouched /\ CopyNamed

\* A write whose call is not past its insertion has no row, and no copy.
LEMMA NothingDue ==
  ASSUME ServerInv, NEW w \in Works, call[w] \in Rowless
  PROVE  TasksOf(w) = {w} /\ Due(w) = {}
<1>1. TasksOf(w) = {w}
  BY QueueAssumption DEF TasksOf, WorkOf, Tasks, ServerInv, Begun
<1>2. wal[w] = "none" BY DEF ServerInv, Begun
<1> QED BY <1>1, <1>2 DEF Due

\* A pending row is due unless the worker that has it has recorded its success.
LEMMA PendingIsDue ==
  ASSUME ServerInv, NEW w \in Works, NEW t \in TasksOf(w), wal[t] = "pending",
         \A k \in Workers : wpc[k] # "mark"
  PROVE  t \in Due(w)
BY DEF Due, ServerInv, Begun

LEMMA CallsCounted ==
  ASSUME CountInv, NEW v \in Works, CallStep(v), NEW w \in Works, Counted(w)
  PROVE  Counted(w)'
<1> USE DEF walVars, store, confVars, lifeVars, workVars, callVars, restVars
<1>0. /\ ServerInv /\ TypeOK /\ Untouched
      /\ UNCHANGED <<copyOf, dlq, crashes, wpc, wtask, wok>>
      /\ TasksOf(w)' = TasksOf(w)
      /\ \A t \in Tasks \ {v} : wal'[t] = wal[t]
  BY CallFrame DEF CountInv, ServerInv, TasksOf, WorkOf
<1>1. CASE v # w
  <2>1. v \notin TasksOf(w) BY <1>1 DEF TasksOf, WorkOf
  <2>2. Due(w)' \subseteq Due(w) BY <1>0, <2>1 DEF Due, TasksOf
  <2>3. applied'[w] = applied[w]
    BY <1>0, <1>1 DEF CallStep, CallQueued, CallDirect, RunDirect, Persist, PutNowait, Refuse,
       Return, TypeOK
  <2> QED BY <1>0, <2>2, <2>3, NoMoreDue
<1>2. CASE v = w /\ RunDirect(w)
  <2>1. call[w] \in Rowless /\ call[w] = "direct" BY <1>2 DEF RunDirect, Rowless
  <2>2. Due(w) = {} /\ applied[w] = 0 BY <1>0, <2>1, NothingDue DEF Untouched
  <2>3. wal' = wal BY <1>2 DEF RunDirect
  <2>4. Due(w)' = {} BY <1>0, <2>2, <2>3 DEF Due
  <2>5. applied'[w] \in {0, 1} BY <1>0, <1>2, <2>2 DEF RunDirect, TypeOK
  <2> QED BY <1>0, <2>4, <2>5, FirstDue
<1>3. CASE v = w /\ Persist(w)
  <2>1. call[w] \in Rowless /\ call[w] = "persist" BY <1>3 DEF Persist, Rowless
  <2>2. TasksOf(w) = {w} /\ applied[w] = 0 BY <1>0, <2>1, NothingDue DEF Untouched
  <2>3. Due(w)' \subseteq {w} BY <1>0, <2>2 DEF Due
  <2>4. applied'[w] = 0 BY <1>3, <2>2 DEF Persist
  <2> QED BY <1>0, <2>3, <2>4, FirstDue
<1>4. CASE v = w /\ ~RunDirect(w) /\ ~Persist(w)
  <2>1. applied' = applied /\ \A t \in Tasks : wal'[t] \in {wal[t], "none"}
    BY <1>0, <1>4 DEF CallStep, CallQueued, CallDirect, PutNowait, Refuse, DeleteWal,
       Return, TypeOK
  <2>2. Due(w)' \subseteq Due(w) BY <1>0, <2>1 DEF Due, TasksOf
  <2> QED BY <1>0, <2>1, <2>2, NoMoreDue
<1> QED BY <1>1, <1>2, <1>3, <1>4

LEMMA OperatorCounted ==
  ASSUME CountInv, DlqStep, NEW w \in Works, Counted(w)
  PROVE  Counted(w)'
<1> USE DEF walVars, store, confVars, lifeVars, workVars, callVars, restVars
<1>0. /\ ServerInv /\ TypeOK /\ Carries /\ Once /\ Begun /\ Serving
      /\ UNCHANGED <<applied, crashes, wpc, wtask, wok>>
  BY DlqFrame DEF CountInv, ServerInv
<1>1. ASSUME NEW t \in Tasks, NEW n \in ReplayIds, DlqReplay(t, n)
      PROVE  Counted(w)'
  <2>1. /\ copyOf[n] = None /\ copyOf' = [copyOf EXCEPT ![n] = WorkOf(t)]
        /\ wal[t] = "dead" /\ wal' = [wal EXCEPT ![n] = "pending"]
        /\ dlq.pc = "idle" /\ dlq' = [pc |-> "retire", old |-> t, new |-> n]
        /\ n \in Tasks /\ n \notin Works
    BY <1>1, QueueAssumption DEF DlqReplay, PersistWal, Tasks
  <2>2. /\ WorkOf(t) \in Works /\ n # t
        /\ \A u \in Tasks \ {n} : WorkOf(u)' = WorkOf(u) /\ wal'[u] = wal[u]
        /\ WorkOf(n) = None /\ WorkOf(n)' = WorkOf(t) /\ w # None
    BY <1>0, <2>1, QueueAssumption DEF Carries, CarriedTasks, WorkOf, Tasks, TypeOK
  <2>3. n \notin TasksOf(w) /\ TasksOf(w)' \subseteq TasksOf(w) \union {n}
    BY <2>2 DEF TasksOf
  <2>4. CASE WorkOf(t) = w
    <3>1. \A k \in Workers : ~WorksOn(k, t) BY <1>0, <2>1 DEF Once, InHands
    <3>2. t \in Due(w) BY <2>1, <2>4, <3>1 DEF Due, TasksOf, WorksOn
    <3>3. Due(w)' \subseteq (Due(w) \ {t}) \union {n}
      BY <1>0, <2>1, <2>2, <2>3 DEF Due, TasksOf
    <3>4. /\ IsFiniteSet(Due(w)) /\ Cardinality(Due(w)) \in Nat
          /\ Cardinality(Due(w)') \in Nat
      BY DueFinite, DueFiniteNext
    <3>5. Cardinality(Due(w)') <= Cardinality(Due(w)) BY <3>2, <3>3, <3>4, Swaps
    <3>6. applied[w] \in Nat /\ PerCrash * crashes \in Nat BY <1>0, Allowance DEF TypeOK
    <3>7. applied'[w] + Cardinality(Due(w)') <= 1 + PerCrash * crashes'
      BY <1>0, <3>4, <3>5, <3>6 DEF Counted
    <3>8. PerCrash' = PerCrash BY DEF PerCrash
    <3> QED BY <3>7, <3>8 DEF Counted
  <2>5. CASE WorkOf(t) # w
    <3>1. TasksOf(w)' \subseteq TasksOf(w) BY <2>2, <2>3, <2>5 DEF TasksOf
    <3>2. Due(w)' \subseteq Due(w) BY <1>0, <2>1, <2>2, <2>3, <3>1 DEF Due, TasksOf
    <3> QED BY <1>0, <3>2, NoMoreDue
  <2> QED BY <2>4, <2>5
<1>2. CASE DlqRetire
  <2>1. conn = "open" BY <1>0, <1>2 DEF DlqRetire, Serving, DlqIdle
  <2>2. /\ UNCHANGED copyOf /\ dlq'.pc = "put"
        /\ \A t \in Tasks : wal'[t] = IF t = dlq.old THEN "replayed" ELSE wal[t]
    BY <1>0, <1>2, <2>1 DEF DlqRetire, RetireWal, Begun, TypeOK, DlqIdle
  <2>3. TasksOf(w)' = TasksOf(w) BY <2>2 DEF TasksOf, WorkOf
  <2>4. Due(w)' \subseteq Due(w) BY <1>0, <2>2, <2>3 DEF Due, TasksOf
  <2> QED BY <1>0, <2>4, NoMoreDue
<1>3. CASE DlqPut \/ DlqRefuse \/ DlqClear
  <2>1. UNCHANGED copyOf /\ dlq.pc # "retire"
    BY <1>3 DEF DlqPut, DlqRefuse, DlqClear
  <2>2. \A t \in Tasks : wal'[t] \in {wal[t], "none"}
    BY <1>0, <1>3 DEF DlqPut, DlqRefuse, DeleteWal, DlqClear, TypeOK
  <2>3. TasksOf(w)' = TasksOf(w) BY <2>1 DEF TasksOf, WorkOf
  <2>4. Due(w)' \subseteq Due(w) BY <1>0, <2>1, <2>2, <2>3 DEF Due, TasksOf
  <2> QED BY <1>0, <2>4, NoMoreDue
<1> QED BY <1>1, <1>2, <1>3 DEF DlqStep

LEMMA WorkersCounted ==
  ASSUME CountInv, NEW k \in Workers, WorkerStep(k), NEW w \in Works, Counted(w)
  PROVE  Counted(w)'
<1> USE DEF walVars, store, confVars, lifeVars, workVars, callVars, restVars
<1>0. /\ ServerInv /\ TypeOK /\ Carries /\ Once /\ Begun /\ Serving
      /\ UNCHANGED <<copyOf, crashes, dlq>> /\ conn = "open"
      /\ \A j \in Workers \ {k} : wpc[j] = "off"
      /\ TasksOf(w)' = TasksOf(w)
  BY WorkerFrame DEF CountInv, ServerInv, Serving, TasksOf, WorkOf
<1>1. CASE WorkerApply(k)
  <2> DEFINE t == wtask[k].id
  <2>1. t \in Tasks /\ wal[t] = "pending" /\ WorkOf(t) \in Works BY <1>0, <1>1, RunsBegun
  <2>2. /\ wpc[k] = "run" /\ wal' = wal /\ wtask' = wtask
        /\ wpc'[k] = "mark" /\ wok'[k] = TRUE
        /\ \A j \in Workers \ {k} : wpc'[j] = wpc[j] /\ wok'[j] = wok[j]
    BY <1>0, <1>1 DEF WorkerApply, TypeOK
  <2>3. Due(w)' \subseteq Due(w) \ {t} BY <1>0, <2>1, <2>2 DEF Due, TasksOf
  <2>4. CASE WorkOf(t) = w
    <3>1. t \in TasksOf(w) BY <2>1, <2>4 DEF TasksOf
    <3>2. t \in Due(w) BY <1>0, <2>1, <2>2, <3>1, PendingIsDue
    <3>3. applied'[w] = applied[w] + 1 BY <1>0, <1>1, <2>4 DEF WorkerApply, TypeOK
    <3> HIDE DEF t
    <3>4. /\ IsFiniteSet(Due(w)) /\ Cardinality(Due(w)) \in Nat
          /\ Cardinality(Due(w)') \in Nat
      BY DueFinite, DueFiniteNext
    <3>5. Cardinality(Due(w)') + 1 <= Cardinality(Due(w)) BY <2>3, <3>2, <3>4, Loses
    <3>6. applied[w] \in Nat /\ PerCrash * crashes \in Nat BY <1>0, Allowance DEF TypeOK
    <3>7. applied'[w] + Cardinality(Due(w)') <= 1 + PerCrash * crashes'
      BY <1>0, <3>3, <3>4, <3>5, <3>6 DEF Counted
    <3>8. PerCrash' = PerCrash BY DEF PerCrash
    <3> QED BY <3>7, <3>8 DEF Counted
  <2>5. CASE WorkOf(t) # w
    <3>1. applied'[w] = applied[w] BY <1>0, <1>1, <2>5 DEF WorkerApply, TypeOK
    <3> QED BY <1>0, <2>3, <3>1, NoMoreDue
  <2> QED BY <2>4, <2>5
<1>2. CASE WorkerMark(k)
  <2> DEFINE t == wtask[k].id
  <2>1. t \in Tasks /\ WorksOn(k, t)
    BY <1>0, <1>2 DEF WorkerMark, Carries, Busy, GoodEntries, Entries, WorksOn
  <2>2. wal[t] = "pending" BY <1>0, <2>1 DEF Once, InHands
  <2>3. /\ \A u \in Tasks \ {t} : wal'[u] = wal[u]
        /\ wok[k] => wal'[t] = "none"
        /\ UNCHANGED <<applied, wok, wtask>> /\ wpc[k] = "mark" /\ wpc'[k] = "notify"
        /\ \A j \in Workers \ {k} : wpc'[j] = wpc[j]
    BY <1>0, <1>2, <2>1 DEF WorkerMark, DeleteWal, MarkDeadWal, TypeOK
  <2>4. Due(w)' \subseteq Due(w) BY <1>0, <2>2, <2>3 DEF Due, TasksOf
  <2> QED BY <1>0, <2>3, <2>4, NoMoreDue
<1>3. CASE ~WorkerApply(k) /\ ~WorkerMark(k)
  <2>1. /\ UNCHANGED <<wal, applied>> /\ wpc[k] # "mark"
        /\ \A j \in Workers \ {k} : wpc'[j] = wpc[j] /\ wok'[j] = wok[j]
                                      /\ wtask'[j] = wtask[j]
    BY <1>0, <1>3 DEF WorkerStep, WorkerCheck, WorkerGet, WorkerTimeout, WorkerFail,
       WorkerNotify, TypeOK
  <2>2. Due(w)' \subseteq Due(w) BY <1>0, <2>1 DEF Due, TasksOf
  <2> QED BY <1>0, <2>1, <2>2, NoMoreDue
<1> QED BY <1>1, <1>2, <1>3

\* A crash revives the row of the dead letter that has been copied and not yet
\* retired, and the row of the write that has been applied and not yet deleted.
LEMMA CrashCounted ==
  ASSUME CountInv, Crash, NEW w \in Works, Counted(w)
  PROVE  Counted(w)'
<1> USE DEF walVars, store
<1>0. /\ TypeOK /\ Serving /\ UNCHANGED <<wal, copyOf, applied>> /\ crashes' = crashes + 1
      /\ dlq'.pc = "idle" /\ \A k \in Workers : wpc'[k] = "off"
      /\ TasksOf(w)' = TasksOf(w)
  BY DEF CountInv, ServerInv, Crash, DlqIdle, TasksOf, WorkOf
<1> DEFINE old  == dlq.old
           mine == wtask[cur].id
           kept == Due(w) \union {mine}
           due  == {t \in TasksOf(w) : wal[t] \in {"pending", "dead"}}
<1>1. Due(w)' = due BY <1>0 DEF Due
<1>2. due \subseteq kept \union {old} BY <1>0 DEF Due, Serving
<1>3. ReplayIds = {} => due \subseteq kept
  <2> SUFFICES ASSUME ReplayIds = {} PROVE due \subseteq kept
    OBVIOUS
  <2>1. dlq.pc # "retire" BY <1>0 DEF TypeOK, DlqIdle
  <2> QED BY <1>0, <2>1 DEF Due, Serving
<1>4. IsFiniteSet(Due(w)) /\ Cardinality(Due(w)) \in Nat BY DueFinite
<1> HIDE DEF due, old, mine
<1>5. IsFiniteSet(kept) /\ Cardinality(kept) <= Cardinality(Due(w)) + 1 BY <1>4, Gains
<1>6. Cardinality(kept) \in Nat BY <1>5, FS_CardinalityType
<1> HIDE DEF kept
<1>7. IsFiniteSet(due) /\ Cardinality(due) \in Nat BY <1>1, DueFiniteNext
<1>8. Cardinality(due) <= Cardinality(Due(w)) + PerCrash
  <2>1. CASE ReplayIds = {}
    <3>1. due \in SUBSET kept BY <1>3, <2>1
    <3>2. Cardinality(due) <= Cardinality(kept) BY <1>5, <3>1, FS_Subset
    <3> QED BY <1>4, <1>5, <1>6, <1>7, <2>1, <3>2 DEF PerCrash
  <2>2. CASE ReplayIds # {}
    <3>1. Cardinality(due) <= Cardinality(kept) + 1 BY <1>2, <1>5, Gains
    <3> QED BY <1>4, <1>5, <1>6, <1>7, <2>2, <3>1 DEF PerCrash
  <2> QED BY <2>1, <2>2
<1>9. /\ applied[w] \in Nat /\ PerCrash * crashes \in Nat /\ PerCrash \in Nat
       /\ PerCrash * (crashes + 1) = PerCrash * crashes + PerCrash
  BY <1>0, Allowance DEF TypeOK, PerCrash
<1>10. applied'[w] + Cardinality(due) <= 1 + PerCrash * crashes'
  BY <1>0, <1>4, <1>7, <1>8, <1>9 DEF Counted
<1>11. PerCrash' = PerCrash BY DEF PerCrash
<1> QED BY <1>1, <1>10, <1>11 DEF Counted

LEMMA NextCounted ==
  ASSUME CountInv, [Next]_vars, NEW w \in Works, Counted(w)
  PROVE  Counted(w)'
<1> USE DEF walVars, store, confVars, lifeVars, workVars, callVars, restVars
<1>0. TypeOK BY DEF CountInv, ServerInv
<1>1. ASSUME UNCHANGED <<wal, copyOf, dlq, wtask, wok, applied, crashes>>,
             \A k \in Workers : wpc[k] = "mark" => wpc'[k] = "mark"
      PROVE  Counted(w)'
  <2>1. Due(w)' \subseteq Due(w) BY <1>1 DEF Due, TasksOf, WorkOf
  <2> QED BY <1>0, <1>1, <2>1, NoMoreDue
<1>2. CASE LifeStep
  <2>1. /\ UNCHANGED <<wal, copyOf, dlq, wtask, wok, applied, crashes>>
        /\ \A k \in Workers : wpc[k] = "mark" => wpc'[k] = "mark"
    BY <1>0, <1>2 DEF LifeStep, Enable, ReplaySelect, ReplayPut, ReplayFull, StartWorker,
       DisableSignal, DisableJoin, DisableClose, DisableForget, DisableReset, TypeOK
  <2> QED BY <1>1, <2>1
<1>3. CASE UNCHANGED vars BY <1>1, <1>3 DEF vars
<1> QED BY <1>2, <1>3, CallsCounted, OperatorCounted, WorkersCounted, CrashCounted
        DEF Next

\* At least once, and no more often than the crashes explain: for any number of
\* callers, crashes, replays of dead letters and retries, a write has run, and will
\* still run, at most once and once more per crash, twice if there is an operator
\* to copy dead letters (_worker_loop between the operation and _mark_done_wal;
\* dlq_replay between its INSERT and its UPDATE).
THEOREM CrashesExplainDuplicates ==
  ASSUME MaxDisables = 0, ~EarlyCalls
  PROVE  Spec => []DuplicatesNeedCrashes
<1> DEFINE Inv == \A w \in Works : Counted(w)
           Rest == Untouched /\ CopyNamed /\ Inv
<1>1. Init => Rest
  <2> SUFFICES ASSUME Init PROVE Rest
    OBVIOUS
  <2>1. Untouched /\ CopyNamed BY DEF Init, Untouched, CopyNamed, DlqIdle
  <2>2. ASSUME NEW w \in Works PROVE Counted(w)
    <3>1. Due(w) = {} BY DEF Init, Due, TasksOf
    <3>2. TypeOK BY InitType
    <3>3. PerCrash * crashes \in Nat BY <3>2, Allowance
    <3> QED BY <3>1, <3>3, FS_EmptySet DEF Init, Counted
  <2> QED BY <2>1, <2>2
<1>2. ServerInv /\ Rest /\ [Next]_vars => Rest'
  <2> SUFFICES ASSUME ServerInv, Rest, [Next]_vars PROVE Rest'
    OBVIOUS
  <2>1. CountInv BY DEF CountInv
  <2>2. Inv' BY <2>1, NextCounted
  <2> QED BY <2>2, NextUntouched, NextCopyNamed
<1>3. Inv => DuplicatesNeedCrashes BY DEF DuplicatesNeedCrashes, Counted, PerCrash
<1> HIDE DEF Inv
<1>4. Rest => Inv OBVIOUS
<1> HIDE DEF Rest
<1> QED BY <1>1, <1>2, <1>3, <1>4, ServerInvariant, PTL DEF Spec
=============================================================================
