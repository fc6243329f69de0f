-------------------------- MODULE DuckDBQueueProps --------------------------
(***************************************************************************)
(* What the write-through queue guarantees, what its documentation claims  *)
(* beyond that, and the promise of DurableWrites that it implements.       *)
(***************************************************************************)
EXTENDS DuckDBQueue

\* A caller that was told of success can rely on it: its operation has taken
\* effect, whatever crashes, disable() calls and duplicates came in between.
AckedIsApplied ==
  \A w \in Works : call[w] \in {"ok", "ran"} => applied[w] > 0

\* An accepted write is never forgotten: until it has taken effect, some row
\* still tells of it, unless the operator cleared it from the dead letters
\* ("a process crash mid-batch loses nothing").
AcceptedNeverLost ==
  \A w \in Works :
    call[w] \in {"wait", "queued", "orphan"} =>
      \/ applied[w] > 0
      \/ HasRow(w, "pending") \/ HasRow(w, "dead")
      \/ w \in cleared

\* A caller that got QueueBacklogError may simply try again: its first task has
\* left no row behind that a restart would replay, and never takes effect.
RefusedLeavesNoTrace ==
  \A w \in Works :
    call[w] = "refused" => applied[w] = 0 /\ \A t \in TasksOf(w) : wal[t] = "none"

\* What enqueue_sync has returned is settled: no later crash and replay applies
\* the same write a second time over newer data.
AckedNeverReapplied ==
  [][\A w \in Works :
       call[w] \in {"ok", "ran"} => applied'[w] = applied[w]]_vars

\* Rows of w that will still be executed, or can be from the dead letters.
Due(w) ==
  {t \in TasksOf(w) :
     /\ wal[t] \in {"pending", "dead"}
     /\ ~(dlq.pc = "retire" /\ dlq.old = t)
     /\ ~\E k \in Workers : wpc[k] = "mark" /\ wok[k] /\ wtask[k].id = t}

\* At least once, and no more often than the crashes explain: a write runs again
\* only when the process died between the DuckDB commit and the deletion of the
\* row or, once the operator replays dead letters, between the two statements
\* of dlq_replay, which one crash can hit together.
DuplicatesNeedCrashes ==
  LET perCrash == IF ReplayIds = {} THEN 1 ELSE 2
  IN  \A w \in Works : applied[w] + Cardinality(Due(w)) <= 1 + perCrash * crashes

\* FIFO across restarts: a write accepted before another call began takes effect
\* before the other one does, unless it ended among the dead letters; replay in
\* any order but that of the rows, or after new calls, would break this.
RealTimeOrder ==
  \A w \in Works : \A v \in ahead[w] :
    applied[w] > 0 =>
      \/ applied[v] > 0
      \/ HasRow(v, "dead") \/ v \in cleared \/ \E n \in ReplayIds : copyOf[n] = v

\* While the queue is up, no pending row waits in vain: its task is in the queue,
\* with a worker, or in the hands of the thread that is about to enqueue it
\* ("pending ops are replayed on startup").
PendingIsScheduled ==
  life = "on" =>
    \A t \in Tasks :
      wal[t] = "pending" =>
        \/ \E i \in DOMAIN queue : queue[i].id = t
        \/ \E k \in Workers : wtask[k] # None /\ wtask[k].id = t
        \/ t \in Works /\ call[t] \in {"put", "full"}
        \/ dlq.pc # "idle" /\ dlq.new = t

\* A pending row leaves the WAL only when its write has taken effect, or when
\* queue.Full makes the thread that inserted it take it back: not by a worker
\* whose attempts failed, not by disable(), not by a second enable().
RowsLeaveResolved ==
  [][\A t \in Tasks :
       wal[t] = "pending" /\ wal'[t] = "none" =>
         \/ applied[WorkOf(t)] > 0
         \/ t \in Works /\ call'[t] = "refused"
         \/ dlq.pc = "full" /\ dlq.new = t]_vars

\* Writes are serialized, as far as disable() waits: two workers run operations at
\* once only if one of them was still busy when a join(timeout=10.0) gave up on it
\* and enable() started the other ("Serializes all DuckDB write operations through
\* a dedicated worker thread"). Direct calls are outside the queue.
Serialized ==
  \A j, k \in Workers :
    wpc[j] = "run" /\ wpc[k] = "run" => j = k \/ j \in outlived \/ k \in outlived

\* No call hangs: enqueue_sync returns or raises, or dies with the process.
CallsEnd ==
  \A w \in Works :
    call[w] \in {"direct", "persist", "put", "full", "wait"} ~>
      call[w] \notin {"direct", "persist", "put", "full", "wait"}

\* Every pending row is resolved in the end, across crashes and restarts.
PendingResolved ==
  \A t \in Tasks : wal[t] = "pending" ~> wal[t] # "pending"

-----------------------------------------------------------------------------
\* Refinement: what the rows, the calls and the history say about a write.
StatusOf(w) ==
  IF call[w] \in {"new", "direct", "persist", "put", "full"} THEN "new"
  ELSE IF HasRow(w, "pending") THEN "open"
  ELSE IF HasRow(w, "dead") THEN "buried"
  ELSE IF w \in cleared THEN "dropped"
  ELSE IF call[w] \in {"refused", "raised", "broken", "gone"} /\ applied[w] = 0
       THEN "refused"
  ELSE "settled"

Promise == INSTANCE DurableWrites
             WITH st <- [w \in Works |-> StatusOf(w)], runs <- applied

\* The queue implements the promise: every step is a step of DurableWrites or
\* leaves the status of every write as it is.
KeepsPromise == Promise!ASpec
=============================================================================
