---------------------------- MODULE DuckDBQueue ----------------------------
(***************************************************************************)
(* The DuckDB write-through queue, backend/duckdb_queue.py: writes to the  *)
(* DuckDB store are persisted as rows of a SQLite table (the WAL), handed  *)
(* through a bounded in-memory queue to a worker thread, retried, and      *)
(* moved to a dead-letter state when every attempt fails.                  *)
(*                                                                         *)
(* Actors and the grain of their steps (one step per lock-free call that   *)
(* another thread can observe):                                            *)
(*   - one caller thread per element of Works, in enqueue_sync (Sync) or   *)
(*     enqueue_async (the others);                                         *)
(*   - the worker threads: one, unless a join timed out and the queue was  *)
(*     enabled again;                                                      *)
(*   - the lifecycle thread, in enable() or disable();                     *)
(*   - the operator, in dlq_replay() or dlq_clear() (both are handlers of  *)
(*     one event loop without an await, so they never overlap);            *)
(*   - the crash of the process, which keeps the WAL and what was applied. *)
(*                                                                         *)
(* Abstracted: the operation and its parameters (a work is its name), the  *)
(* retry counter, error text and timestamps stored in a row (no statement  *)
(* of the program reads them back to decide anything), the back-off sleep  *)
(* (a worker may pause anywhere), and the rowid of a row, of which only    *)
(* the order matters (variable older).                                     *)
(***************************************************************************)
EXTENDS Naturals, Sequences, FiniteSets

CONSTANTS
  Works,        \* the writes requested by callers, one call each
  Sync,         \* those requested with enqueue_sync
  ReplayIds,    \* ids that dlq_replay may draw for a re-enqueued task
  Workers,      \* worker threads that may be started during a run
  None,         \* the absence of a work, task or thread
  MaxBacklog,   \* max_backlog: capacity of the in-memory queue
  MaxRetries,   \* max_retries: a task is attempted MaxRetries + 1 times
  MaxCrashes,   \* bound on process crashes
  MaxDisables,  \* bound on calls of disable()
  JoinTimeouts, \* may join(timeout=10) give up on a busy worker?
  EarlyCalls    \* may calls begin while enable() is replaying?

ASSUME QueueAssumption ==
  /\ Sync \subseteq Works
  /\ Works \intersect ReplayIds = {}
  /\ IsFiniteSet(ReplayIds)
  /\ None \notin Works \union ReplayIds \union Workers
  /\ None \notin [id : Works \union ReplayIds, ev : BOOLEAN]
  /\ MaxBacklog \in Nat \ {0}
  /\ MaxRetries \in Nat
  /\ MaxCrashes \in Nat
  /\ MaxDisables \in Nat
  /\ JoinTimeouts \in BOOLEAN
  /\ EarlyCalls \in BOOLEAN

\* The first task of a work carries the work's own name as its uuid.
Tasks == Works \union ReplayIds

\* An element of queue.Queue: a WriteTask and whether it has a done_event.
Entries == [id : Tasks, ev : BOOLEAN]

VARIABLES
  wal,      \* [Tasks -> row status], "none" when there is no row (persistent)
  older,    \* [Tasks -> rows that were there when the row was inserted]
  copyOf,   \* [ReplayIds -> the work a replay id carries, or None]
  applied,  \* [Works -> how often its operation took effect in DuckDB]
  enabled,  \* _enabled
  shutting, \* _shutting_down
  conn,     \* _wal_conn: "none", "open", or "closed" but not yet forgotten
  queue,    \* _queue
  life,     \* where the lifecycle thread is in enable() or disable()
  replay,   \* rows _replay_wal has read and not yet put
  cur,      \* _worker_thread
  wpc,      \* [Workers -> where the thread is in _worker_loop]
  wtask,    \* [Workers -> the entry it took from the queue, or None]
  wtry,     \* [Workers -> attempts left after the current one]
  wok,      \* [Workers -> did the attempts end in success?]
  call,     \* [Works -> where its caller is, or how the call ended]
  event,    \* [Works -> done_event and the result behind it]
  dlq,      \* where the operator is in dlq_replay, with old and new id
  crashes, disables, \* how often each happened
  ahead,    \* history: [Works -> works accepted before its call began]
  cleared,  \* history: works whose last row dlq_clear deleted
  outlived  \* history: workers that were busy when disable() stopped waiting

walVars  == <<wal, older, copyOf>>
store    == <<walVars, applied>>
confVars == <<enabled, shutting, conn>>
lifeVars == <<life, replay, cur, outlived>>
workVars == <<wpc, wtask, wtry, wok>>
callVars == <<call, event, ahead>>
restVars == <<dlq, crashes, disables, cleared>>

vars == <<wal, older, copyOf, applied, enabled, shutting, conn, queue, life,
          replay, cur, wpc, wtask, wtry, wok, call, event, dlq, crashes,
          disables, ahead, cleared, outlived>>

RowStates  == {"none", "pending", "dead", "replayed"}
LifeStates == {"off", "select", "replay", "on", "join", "close", "forget", "reset"}
WorkerPcs  == {"off", "check", "get", "run", "mark", "notify"}
\* gone: the caller died with the process before its task was in the queue;
\* orphan: it died waiting; direct, ran, raised: direct calls; broken: sqlite
\* raised.
CallPcs    == {"new", "persist", "put", "full", "wait", "queued", "ok", "error",
               "refused", "direct", "ran", "raised", "broken", "gone", "orphan"}
DlqIdle    == [pc |-> "idle", old |-> None, new |-> None]

\* The work a task id carries.
WorkOf(t) == IF t \in Works THEN t ELSE copyOf[t]

TasksOf(w) == {t \in Tasks : WorkOf(t) = w}

Accepted(w) == call[w] \in {"wait", "queued", "ok", "error", "orphan"}

HasRow(w, status) == \E t \in TasksOf(w) : wal[t] = status

(***************************************************************************)
(* A definition whose comment begins with "Fault:" is not part of the      *)
(* model. It is the definition after it with a plausible bug, kept to show *)
(* that the properties notice the bug.                                     *)
(***************************************************************************)

\* Fault: the bound is off by one.
HasRoomForOneMore == Len(queue) <= MaxBacklog

\* put_nowait raises queue.Full otherwise.
HasRoom == Len(queue) < MaxBacklog

-----------------------------------------------------------------------------
\* SQLite. Each statement commits by itself (isolation_level=None). The
\* methods return silently when _wal_conn is None; on a closed connection
\* sqlite3 raises, which the actions below treat as their own outcome.

\* INSERT of a pending row by _persist_wal.
PersistWal(t) ==
  IF conn = "open"
  THEN /\ wal' = [wal EXCEPT ![t] = "pending"]
       /\ older' = [older EXCEPT ![t] = {u \in Tasks : wal[u] # "none"}]
  ELSE UNCHANGED <<wal, older>>

\* Fault: the row stays.
DeleteWalNot(t) == UNCHANGED wal

\* DELETE by _delete_wal and _mark_done_wal.
DeleteWal(t) ==
  wal' = IF conn = "open" THEN [wal EXCEPT ![t] = "none"] ELSE wal

\* Fault: the failed task is dropped like a finished one.
MarkDeadWalDeletes(t) == DeleteWal(t)

\* UPDATE ... SET status = 'dead' WHERE id = ? by _mark_dead_wal: no row, no effect.
MarkDeadWal(t) ==
  wal' = IF conn = "open" /\ wal[t] # "none" THEN [wal EXCEPT ![t] = "dead"]
                                             ELSE wal

-----------------------------------------------------------------------------
\* on_startup returns from enable() before the application serves requests;
\* with EarlyCalls, threads of the program do not wait for that.
MayCall == life \in {"select", "replay"} => EarlyCalls

\* Lifecycle: enable()

\* Open the connection, create the table, set _enabled.
Enable ==
  /\ life = "off" /\ ~enabled
  /\ conn' = "open"
  /\ enabled' = TRUE
  /\ life' = "select"
  /\ UNCHANGED <<store, shutting, queue, replay, cur, outlived, workVars, callVars,
                 restVars>>

\* Fault: only rows that no statement of the program ever writes are replayed.
OnlyProcessing == {t \in Tasks : wal[t] = "processing"}

\* Fault: dead letters are replayed as well.
UnfinishedOrDead == {t \in Tasks : wal[t] \in {"pending", "dead"}}

\* WHERE status IN ('pending', 'processing').
Unfinished == {t \in Tasks : wal[t] \in {"pending", "processing"}}

\* _replay_wal reads the unfinished rows.
ReplaySelect ==
  /\ life = "select"
  /\ replay' = Unfinished
  /\ life' = "replay"
  /\ UNCHANGED <<store, confVars, queue, cur, outlived, workVars, callVars, restVars>>

\* Fault: rows are replayed in any order.
AnyRow(t) == t \in replay

\* Rows come back in rowid order.
FirstRow(t) == t \in replay /\ older[t] \intersect replay = {}

\* A replayed task has no done_event.
ReplayPut ==
  /\ life = "replay"
  /\ HasRoom
  /\ \E t \in replay :
       /\ FirstRow(t)
       /\ queue' = Append(queue, [id |-> t, ev |-> FALSE])
       /\ replay' = replay \ {t}
  /\ UNCHANGED <<store, confVars, life, cur, outlived, workVars, callVars, restVars>>

\* queue.Full: log a warning and leave the loop.
ReplayFull ==
  /\ life = "replay" /\ replay # {}
  /\ ~HasRoom
  /\ replay' = {}
  /\ UNCHANGED <<store, confVars, queue, life, cur, outlived, workVars, callVars, restVars>>

\* The worker thread is created and started after the replay.
StartWorker ==
  /\ life = "replay" /\ replay = {}
  /\ \E k \in Workers :
       /\ wpc[k] = "off"
       /\ wpc' = [wpc EXCEPT ![k] = "check"]
       /\ cur' = k
       /\ outlived' = outlived \ {k}
  /\ life' = "on"
  /\ UNCHANGED <<store, confVars, queue, replay, wtask, wtry, wok, callVars, restVars>>

-----------------------------------------------------------------------------
\* Lifecycle: disable()

DisableSignal ==
  /\ life = "on" /\ disables < MaxDisables
  /\ disables' = disables + 1
  /\ shutting' = TRUE
  /\ life' = "join"
  /\ UNCHANGED <<store, enabled, conn, queue, replay, cur, outlived, workVars, callVars,
                 dlq, crashes, cleared>>

\* Fault: nobody waits for the worker.
JoinNeverWaits == TRUE

\* join(timeout=10.0): the thread has ended, or an operation or a statement
\* waiting for a lock still keeps it busy.
JoinReturns ==
  wpc[cur] = "off" \/ (JoinTimeouts /\ wpc[cur] \in {"run", "mark"})

DisableJoin ==
  /\ life = "join" /\ JoinReturns
  /\ life' = "close"
  /\ outlived' = outlived \union {k \in Workers : k = cur /\ wpc[k] \in {"run", "mark"}}
  /\ UNCHANGED <<store, confVars, queue, replay, cur, workVars, callVars, restVars>>

DisableClose ==
  /\ life = "close"
  /\ conn' = "closed"
  /\ life' = "forget"
  /\ UNCHANGED <<store, enabled, shutting, queue, replay, cur, outlived, workVars, callVars,
                 restVars>>

DisableForget ==
  /\ life = "forget"
  /\ conn' = "none"
  /\ life' = "reset"
  /\ UNCHANGED <<store, enabled, shutting, queue, replay, cur, outlived, workVars, callVars,
                 restVars>>

\* The flags are reset; _queue keeps whatever it holds.
DisableReset ==
  /\ life = "reset"
  /\ enabled' = FALSE
  /\ shutting' = FALSE
  /\ life' = "off"
  /\ UNCHANGED <<store, conn, queue, replay, cur, outlived, workVars, callVars, restVars>>

-----------------------------------------------------------------------------
\* Callers: enqueue_sync and enqueue_async

\* The queue is enabled: a fresh uuid is drawn.
CallQueued(w) ==
  /\ call[w] = "new" /\ MayCall
  /\ enabled
  /\ call' = [call EXCEPT ![w] = "persist"]
  /\ ahead' = [ahead EXCEPT ![w] = {v \in Works : Accepted(v)}]
  /\ UNCHANGED <<store, confVars, queue, lifeVars, workVars, event, restVars>>

\* The queue is disabled: the call bypasses it.
CallDirect(w) ==
  /\ call[w] = "new" /\ MayCall
  /\ ~enabled
  /\ call' = [call EXCEPT ![w] = "direct"]
  /\ UNCHANGED <<store, confVars, queue, lifeVars, workVars, event, ahead, restVars>>

\* The operation runs in the caller, without a retry; the queue may have been
\* enabled by now.
RunDirect(w) ==
  /\ call[w] = "direct"
  /\ \/ /\ call' = [call EXCEPT ![w] = "ran"]
        /\ applied' = [applied EXCEPT ![w] = @ + 1]
     \/ /\ call' = [call EXCEPT ![w] = "raised"]
        /\ UNCHANGED applied
  /\ UNCHANGED <<walVars, confVars, queue, lifeVars, workVars, event, ahead, restVars>>

\* WAL before queue.
Persist(w) ==
  /\ call[w] = "persist"
  /\ PersistWal(w)
  /\ call' = [call EXCEPT ![w] = IF conn = "closed" THEN "broken" ELSE "put"]
  /\ UNCHANGED <<copyOf, applied, confVars, queue, lifeVars, workVars, event, ahead,
                 restVars>>

\* put_nowait: the task is in the queue, or queue.Full was raised.
PutNowait(w) ==
  /\ call[w] = "put"
  /\ IF HasRoom
     THEN /\ queue' = Append(queue, [id |-> w, ev |-> w \in Sync])
          /\ call' = [call EXCEPT ![w] = IF w \in Sync THEN "wait" ELSE "queued"]
     ELSE /\ call' = [call EXCEPT ![w] = "full"]
          /\ UNCHANGED queue
  /\ UNCHANGED <<store, confVars, lifeVars, workVars, event, ahead, restVars>>

\* The handler of queue.Full takes the row back and raises QueueBacklogError.
Refuse(w) ==
  /\ call[w] = "full"
  /\ DeleteWal(w)
  /\ call' = [call EXCEPT ![w] = IF conn = "closed" THEN "broken" ELSE "refused"]
  /\ UNCHANGED <<older, copyOf, applied, confVars, queue, lifeVars, workVars, event,
                 ahead, restVars>>

\* event.wait() has no timeout; then the result is returned or raised.
Return(w) ==
  /\ call[w] = "wait"
  /\ event[w] # "unset"
  /\ call' = [call EXCEPT ![w] = event[w]]
  /\ UNCHANGED <<store, confVars, queue, lifeVars, workVars, event, ahead, restVars>>

-----------------------------------------------------------------------------
\* The operator: dlq_replay and dlq_clear

\* SELECT of the dead row and INSERT of the new pending row.
DlqReplay(t, n) ==
  /\ dlq.pc = "idle" /\ conn = "open" /\ MayCall
  /\ wal[t] = "dead"
  /\ copyOf[n] = None
  /\ copyOf' = [copyOf EXCEPT ![n] = WorkOf(t)]
  /\ PersistWal(n)
  /\ dlq' = [pc |-> "retire", old |-> t, new |-> n]
  /\ UNCHANGED <<applied, confVars, queue, lifeVars, workVars, callVars, crashes,
                 disables, cleared>>

\* Fault: the old row stays a dead letter.
RetireWalNot(t) == UNCHANGED wal

\* UPDATE ... SET status = 'replayed' WHERE id = ?
RetireWal(t) ==
  wal' = IF wal[t] = "none" THEN wal ELSE [wal EXCEPT ![t] = "replayed"]

\* The old row becomes 'replayed' before the new task is in the queue. Without
\* an open connection the statement raises and the handler ends here.
DlqRetire ==
  /\ dlq.pc = "retire"
  /\ IF conn = "open"
     THEN /\ RetireWal(dlq.old)
          /\ dlq' = [dlq EXCEPT !.pc = "put"]
     ELSE /\ dlq' = DlqIdle
          /\ UNCHANGED wal
  /\ UNCHANGED <<older, copyOf, applied, confVars, queue, lifeVars, workVars, callVars,
                 crashes, disables, cleared>>

DlqPut ==
  /\ dlq.pc = "put"
  /\ IF HasRoom
     THEN /\ queue' = Append(queue, [id |-> dlq.new, ev |-> FALSE])
          /\ dlq' = DlqIdle
     ELSE /\ dlq' = [dlq EXCEPT !.pc = "full"]
          /\ UNCHANGED queue
  /\ UNCHANGED <<store, confVars, lifeVars, workVars, callVars, crashes, disables, cleared>>

\* queue.Full: the new row is deleted, the old one stays 'replayed'.
DlqRefuse ==
  /\ dlq.pc = "full"
  /\ DeleteWal(dlq.new)
  /\ dlq' = DlqIdle
  /\ UNCHANGED <<older, copyOf, applied, confVars, queue, lifeVars, workVars, callVars,
                 crashes, disables, cleared>>

\* Fault: pending rows are deleted as well.
IsUnresolved(t) == wal[t] \in {"pending", "dead"}

IsDead(t) == wal[t] = "dead"

DlqClear ==
  /\ dlq.pc = "idle" /\ conn = "open" /\ MayCall
  /\ \E t \in Tasks : IsDead(t)
  /\ wal' = [t \in Tasks |-> IF IsDead(t) THEN "none" ELSE wal[t]]
  /\ cleared' = cleared \union
                  {w \in Works : HasRow(w, "dead") /\ ~HasRow(w, "pending")}
  /\ UNCHANGED <<older, copyOf, applied, confVars, queue, lifeVars, workVars, callVars,
                 dlq, crashes, disables>>

-----------------------------------------------------------------------------
\* The worker thread

\* while not self._shutting_down
WorkerCheck(k) ==
  /\ wpc[k] = "check"
  /\ wpc' = [wpc EXCEPT ![k] = IF shutting THEN "off" ELSE "get"]
  /\ UNCHANGED <<store, confVars, queue, lifeVars, wtask, wtry, wok, callVars, restVars>>

\* get(timeout=1.0) may still take a task after _shutting_down was set.
WorkerGet(k) ==
  /\ wpc[k] = "get" /\ queue # <<>>
  /\ wtask' = [wtask EXCEPT ![k] = Head(queue)]
  /\ queue' = Tail(queue)
  /\ wtry' = [wtry EXCEPT ![k] = MaxRetries]
  /\ wpc' = [wpc EXCEPT ![k] = "run"]
  /\ UNCHANGED <<store, confVars, lifeVars, wok, callVars, restVars>>

WorkerTimeout(k) ==
  /\ wpc[k] = "get" /\ queue = <<>>
  /\ wpc' = [wpc EXCEPT ![k] = "check"]
  /\ UNCHANGED <<store, confVars, queue, lifeVars, wtask, wtry, wok, callVars, restVars>>

\* An attempt succeeds.
WorkerApply(k) ==
  /\ wpc[k] = "run"
  /\ applied' = [applied EXCEPT ![WorkOf(wtask[k].id)] = @ + 1]
  /\ wok' = [wok EXCEPT ![k] = TRUE]
  /\ wpc' = [wpc EXCEPT ![k] = "mark"]
  /\ UNCHANGED <<walVars, confVars, queue, lifeVars, wtask, wtry, callVars, restVars>>

\* A statement on a closed connection raises outside any handler of the loop:
\* the thread ends, its task is neither marked nor announced.
WorkerDies(k) ==
  /\ wpc' = [wpc EXCEPT ![k] = "off"]
  /\ wtask' = [wtask EXCEPT ![k] = None]
  /\ wok' = [wok EXCEPT ![k] = FALSE]
  /\ UNCHANGED <<wal, wtry>>

\* An attempt raises: try again, after _update_retry_wal, or give up.
WorkerFail(k) ==
  /\ wpc[k] = "run"
  /\ IF wtry[k] = 0
     THEN /\ wpc' = [wpc EXCEPT ![k] = "mark"]
          /\ UNCHANGED <<wal, wtask, wtry, wok>>
     ELSE IF conn = "closed" THEN WorkerDies(k)
     ELSE /\ wtry' = [wtry EXCEPT ![k] = @ - 1]
          /\ UNCHANGED <<wal, wpc, wtask, wok>>
  /\ UNCHANGED <<older, copyOf, applied, confVars, queue, lifeVars, callVars, restVars>>

\* _mark_done_wal or _mark_dead_wal.
WorkerMark(k) ==
  /\ wpc[k] = "mark"
  /\ IF conn = "closed" THEN WorkerDies(k)
     ELSE /\ IF wok[k] THEN DeleteWal(wtask[k].id) ELSE MarkDeadWal(wtask[k].id)
          /\ wpc' = [wpc EXCEPT ![k] = "notify"]
          /\ UNCHANGED <<wtask, wtry, wok>>
  /\ UNCHANGED <<older, copyOf, applied, confVars, queue, lifeVars, callVars, restVars>>

\* Fault: a caller is not told of a failure.
ToldOfSuccess(k) == wtask[k].ev /\ wok[k]

\* if task.done_event
IsAwaited(k) == wtask[k].ev

\* Fault: any result passes for a success.
AlwaysOk(k) == "ok"

Outcome(k) == IF wok[k] THEN "ok" ELSE "error"

\* Set the result and the event of a sync caller, task_done(), next round.
WorkerNotify(k) ==
  /\ wpc[k] = "notify"
  /\ event' = IF IsAwaited(k) THEN [event EXCEPT ![wtask[k].id] = Outcome(k)]
                              ELSE event
  /\ wpc' = [wpc EXCEPT ![k] = "check"]
  /\ wtask' = [wtask EXCEPT ![k] = None]
  /\ wok' = [wok EXCEPT ![k] = FALSE]
  /\ UNCHANGED <<store, confVars, queue, lifeVars, wtry, call, ahead, restVars>>

WorkerStep(k) ==
  \/ WorkerCheck(k) \/ WorkerGet(k) \/ WorkerTimeout(k) \/ WorkerApply(k)
  \/ WorkerFail(k) \/ WorkerMark(k) \/ WorkerNotify(k)

-----------------------------------------------------------------------------
\* The process dies. SQLite rows and applied DuckDB writes survive.
Crash ==
  /\ crashes < MaxCrashes
  /\ crashes' = crashes + 1
  /\ enabled' = FALSE /\ shutting' = FALSE /\ conn' = "none"
  /\ queue' = <<>>
  /\ life' = "off" /\ replay' = {} /\ cur' = None /\ outlived' = {}
  /\ wpc' = [k \in Workers |-> "off"]
  /\ wtask' = [k \in Workers |-> None]
  /\ wtry' = [k \in Workers |-> 0]
  /\ wok' = [k \in Workers |-> FALSE]
  /\ dlq' = DlqIdle
  /\ call' = [w \in Works |->
                CASE call[w] \in {"direct", "persist", "put", "full"} -> "gone"
                  [] call[w] = "wait" -> "orphan"
                  [] OTHER -> call[w]]
  /\ event' = [w \in Works |-> "unset"]
  /\ UNCHANGED <<store, disables, ahead, cleared>>

Init ==
  /\ wal = [t \in Tasks |-> "none"]
  /\ older = [t \in Tasks |-> {}]
  /\ copyOf = [n \in ReplayIds |-> None]
  /\ applied = [w \in Works |-> 0]
  /\ enabled = FALSE /\ shutting = FALSE /\ conn = "none"
  /\ queue = <<>>
  /\ life = "off" /\ replay = {} /\ cur = None
  /\ wpc = [k \in Workers |-> "off"]
  /\ wtask = [k \in Workers |-> None]
  /\ wtry = [k \in Workers |-> 0]
  /\ wok = [k \in Workers |-> FALSE]
  /\ call = [w \in Works |-> "new"]
  /\ event = [w \in Works |-> "unset"]
  /\ dlq = DlqIdle
  /\ crashes = 0 /\ disables = 0
  /\ ahead = [w \in Works |-> {}]
  /\ cleared = {} /\ outlived = {}

LifeStep ==
  \/ Enable \/ ReplaySelect \/ ReplayPut \/ ReplayFull \/ StartWorker
  \/ DisableSignal \/ DisableJoin \/ DisableClose \/ DisableForget \/ DisableReset

CallStep(w) ==
  \/ CallQueued(w) \/ CallDirect(w) \/ RunDirect(w) \/ Persist(w)
  \/ PutNowait(w) \/ Refuse(w) \/ Return(w)

DlqStep ==
  \/ \E t \in Tasks, n \in ReplayIds : DlqReplay(t, n)
  \/ DlqRetire \/ DlqPut \/ DlqRefuse \/ DlqClear

Next ==
  \/ LifeStep
  \/ \E w \in Works : CallStep(w)
  \/ DlqStep
  \/ \E k \in Workers : WorkerStep(k)
  \/ Crash

Spec == Init /\ [][Next]_vars

(***************************************************************************)
(* Fairness. Threads are scheduled, an operation returns or raises, and    *)
(* the container is restarted after a crash (docker-compose.yml, restart:  *)
(* unless-stopped; on_startup then calls enable(): cur = None tells a new  *)
(* process). A disable() or dlq_replay() that has begun goes on. Nobody    *)
(* has to make a call, no operator has to act, and nothing in the program  *)
(* enables the queue again after disable().                                *)
(***************************************************************************)
Fairness ==
  /\ WF_vars(\/ cur = None /\ Enable
             \/ ReplaySelect \/ ReplayPut \/ ReplayFull \/ StartWorker)
  /\ WF_vars(DisableJoin \/ DisableClose \/ DisableForget \/ DisableReset)
  /\ \A w \in Works :
       WF_vars(RunDirect(w) \/ Persist(w) \/ PutNowait(w) \/ Refuse(w) \/ Return(w))
  /\ \A k \in Workers : WF_vars(WorkerStep(k))
  /\ WF_vars(DlqRetire \/ DlqPut \/ DlqRefuse)

FairSpec == Spec /\ Fairness

-----------------------------------------------------------------------------
\* Type invariant.
TypeOK ==
  /\ wal \in [Tasks -> RowStates]
  /\ older \in [Tasks -> SUBSET Tasks]
  /\ copyOf \in [ReplayIds -> Works \union {None}]
  /\ applied \in [Works -> Nat]
  /\ enabled \in BOOLEAN /\ shutting \in BOOLEAN
  /\ conn \in {"none", "open", "closed"}
  /\ queue \in Seq(Entries) /\ Len(queue) <= MaxBacklog
  /\ life \in LifeStates
  /\ replay \in SUBSET Tasks
  /\ cur \in Workers \union {None}
  /\ wpc \in [Workers -> WorkerPcs]
  /\ wtask \in [Workers -> Entries \union {None}]
  /\ wtry \in [Workers -> 0..MaxRetries]
  /\ wok \in [Workers -> BOOLEAN]
  /\ call \in [Works -> CallPcs]
  /\ event \in [Works -> {"unset", "ok", "error"}]
  /\ dlq \in {DlqIdle} \union [pc : {"retire", "put", "full"}, old : Tasks,
                              new : ReplayIds]
  /\ crashes \in 0..MaxCrashes /\ disables \in 0..MaxDisables
  /\ ahead \in [Works -> SUBSET Works]
  /\ cleared \in SUBSET Works
  /\ outlived \in SUBSET Workers
=============================================================================
