# IntelShed: models, checks and proofs

TLA+ models of the parts of the WorldBase/IntelShed backend whose correctness depends on
interleavings, crashes, timeouts and limits. Every definition is translated from the source under
`src/`; `PROJECT.json` maps each to its lines. Run a check with
`tlc -config <run>.cfg <module>.tla` and the proofs with `tlapm <module>.tla`.

## The system

One FastAPI process (one event loop, a thread pool, a few threads of its own) polls public feeds,
stores what they say as entities in DuckDB, fuses, scores and briefs it, and serves a React HUD, chat
with an LLM, an MCP server and edge nodes (Raspberry Pis) that synchronise with it. State is kept in
module globals of the process, in several SQLite files and in one DuckDB file. The container restarts
the process whenever it dies (`docker-compose.yml:82`, `restart: unless-stopped`).

| Component | State | Operations | Talks to | Hard because | Correct when |
|---|---|---|---|---|---|
| DuckDB write-through queue (`duckdb_queue.py`) | SQLite WAL rows, in-memory queue, worker thread, flags, an event per waiting caller | enable + replay, disable, enqueue_sync/async, worker loop, dead-letter replay and clear | callers in the pool, DuckDB, operator routes, lifespan | crash between any two statements, full queue, join that times out, second worker | nothing accepted is lost, nothing refused runs, success means applied, order survives restarts |
| FtM store connection (`ftm_connection.py`) | connection, per-thread read connections, recovery counter, three files | init, soft/hard reset, rebuild + swap, run with recovery, status | every reader and writer of entities | invalidation in mid-operation, recovery partly outside the lock, renames, DuckDB's per-process sharing of one path | acknowledged writes are in the file the next start opens, or it is known which step lost them; what the copy loses is in the backup; recovery ends |
| Feed connector (`feeds/runner.py`, `quota_monitor.py`) | memory and disk payloads, circuit breaker, daily count | run, record_success/failure, state | ~40 bridges, HTTP, health dashboard | requests overlap in one await; late answers; an error as a payload | stale data rather than none; the breaker recovers; the quota holds |
| Task watchdog (`lifespan.py`) | a record per task with its error count | register, start, monitor cycle | all background loops | cooldown against counting; cancelled tasks | crashed tasks come back if their cooldown ends before the count does; crash loops end |
| Live aircraft provider (`aircraft_provider.py`) | shared task, last payload | fetch_live_states | map, situations, trails, warm-up, MCP | callers with different timeouts share one task | one fetch at a time; stale data on timeout; no caller hangs |
| Trigger engine, alerting (`trigger_engine.py`) | rules, trigger log, webhooks | evaluate, log, push, dismiss | lifespan loop, node commands | crash between log and push, cooldown read from the log | no repeat within a cooldown without an excuse; a round tells every node or none; alerts arrive |
| Node sync and commands (`node_briefing.py`, `node_ingest.py`, `intel_graph_export.py`) | briefings, node states, command rows; a version and a cursor on the node | pull, push, resolve, poll, ack | edge nodes over HTTP, the FtM store | repeated deliveries, versions and entities that move during a pull | nothing slips between cursor and query; a node catches up; commands are first run in order |
| Push delivery (`push_delivery.py`) | event id, history of 100, a queue per stream | trigger, connect and replay, stream | any EventSource | full queues, reconnects, ids that start again | events in order, once; every gap has a known cause |
| Agent bus, WebSocket gateway | subscriber queues | subscribe, publish | HUD | slow subscribers | a subscriber sees every event or is told |
| Agent orchestrator, blackboard | steps, notes, model circuit | run, retry | LLM | partial failure | a run ends |
| Prediction ledger, retention, archives | SQLite tables, files | register, resolve, prune | lifespan loops | restarts | each prediction is scored once |
| Auth, rate limits, quotas, session guard | tokens, windows, counters | per request | every route | - | sequential |
| Bridges, ingest, queries, analytics, briefing, chat, MCP tools | caches, tables | fetch, parse, compute, format | the above | - | functions of their input |
| HUD front end, containers, scripts | - | - | - | - | not modelled |

`PROJECT.json` lists every component with its files and the reason when it is not modelled, and every
hazard with its line and the properties about it.

## The modules

Each module states its types as `TypeOK`. It is proved for all of them, for FeedConnector but for the
timeouts of the breaker: there it holds when it is added to the cfg as an invariant, with the bounds given. `<module>Proofs` holds
the theorems about a module.

### DuckDBQueue, DuckDBQueueProps, DurableWrites, MCDuckDBQueue, DuckDBQueueProofs

One step per call another thread can observe: a SQLite statement, a `queue.Queue` operation, the start
or join of a thread. `wal` and `applied` survive `Crash`; everything else is lost. `Enable` to
`StartWorker` is `enable()`, statement by statement, with `_replay_wal`; `DisableSignal` to
`DisableReset` is `disable()`; `CallQueued`, `CallDirect`, `Persist`, `PutNowait`, `Refuse`, `Return`
are the two enqueue functions: `CallDirect` is the check of `_enabled`, `RunDirect` the operation
that follows it and may overlap with an `enable()`; `WorkerCheck` to `WorkerNotify` the loop of the worker,
with an operation that may raise at every attempt; `Dlq...` the two operator routes. A work is one call, and
its task carries its name; a task that `dlq_replay` makes has an id of its own (`ReplayIds`, `copyOf`).
Rowids matter only by their order (`older`). `ahead` and `outlived` are history: for each work
the writes that were accepted before its call began, and the workers that were still busy when
`disable()` stopped waiting for them.

`DurableWrites` is the promise without rows, queue and threads: a write is refused, or open until it
took effect or is a dead letter that only an operator moves. `KeepsPromise` is the refinement: the
status of a write is computed from rows, calls and history (`StatusOf`).

| Run | Shows | Bounds |
|---|---|---|
| queue_server | nothing accepted is lost, nothing refused or acknowledged runs later | 3 writes (2 sync), backlog 1, a retry, a crash |
| queue_live | FIFO across the crash, no pending row in nobody's hands, at most two more runs per crash, refinement of DurableWrites; every call ends and every row is resolved | 2 writes, a replayed letter, backlog 3, a retry, a crash |
| queue_lifecycle | operations overlap only with a worker that a timed-out join left behind; success and the disappearance of rows are justified, with disable(), a second enable() beside direct calls and leftover tasks, two workers and a full queue | 2 writes, backlog 1, a replayed letter, joins may time out |

A backlog of one makes the queue full with two writes; three writes make one that is applied, one in
the queue and one refused exist at once. More crashes only repeat the replay, and the theorems below
do not bound them. Calls that begin while enable() is replaying are not in these bounds: with EarlyCalls
`queue_lifecycle` holds too, but has 7.9 million states instead of 1.5; the theorems
without the proviso *server* cover such calls. In
`queue_live` the backlog holds every row, because a truncated replay breaks the
premise of FIFO and of liveness (first row of the table of findings).

*Fairness* (`queue_live`): threads are scheduled, an operation returns or raises, the container
restarts the process and startup calls enable(), a disable() or dlq_replay() that began goes on.
Nobody has to call, no operator has to act, and nothing enables the queue again after disable().

### FtmStore, FtmStoreProofs

A step is what a thread does under `_LOCK`, or one access outside it to a shared global or to the
directory. `init_store` is split where the code is: the check of the counter (`InitCheck`, outside the lock), the
locked probe (`InitProbe`), the reset or the count of attempts after it (`InitReset`, `InitCount`, outside), the
closing and the soft retry (`InitClose`, `InitRetry`), the fallback that deletes (`InitDelete` to `InitReprobe`).
`_rebuild_and_swap` is `RebuildClose`, `Salvage`, `Unback` (removes the old backup), `MoveWal`, `Shelve` (renames
the old file) and `Swap`; `reset_store`, `_run_with_recovery` and `store_status` follow the same way. The
functions call each other: `depth` counts the rebuilds that calls of `init_store` wait for, `hard` says
whether `reset_store` waits for one, `caller` where the outermost call returns.

A file is the set of writes it holds. A write goes to the log beside the file first; a log belongs to its
file, or is left over from another (`stray`: the next open drops it, `bad`: it cannot be replayed). An
open database follows its file when that is renamed or deleted. That connections of one process to one path
share one database is how DuckDB behaves and is marked external. `Salvage` may copy any part of the file,
damaged or not, because the errors of ATTACH and of each table are swallowed.

Such a recovery can lose writes. `perils` is history: it names what happened that may cost one - the copy was
partial, a fallback deleted the file or its log, the process died between the renames, two threads rebuilt at
once, a write was committed beside a rebuild, or a second recovery took the name of the backup. The
properties say that nothing else does, in any order of the steps of threads, readers and crashes.

| Run | Shows | Bounds |
|---|---|---|
| ftm_store | an acknowledged write is in the file unless one of five perils happened; what the copy or a crash lost is in the backup or in a log; the rebuilds of a thread nest at most MaxAttempts deep, and as deep again for each time that another thread clears the counter under it | 2 threads, one of them with a read connection, 1 write, 2 attempts, an invalidation, damage, a full disk, a crash |
| ftm_ends | every operation returns or raises | the same, without the crash |

Two threads are needed for a late reset of the counter, for two rebuilds at once and for a write beside a
rebuild; the reader keeps an invalidated database alive, so that one invalidation is enough to reach the limit
of attempts and the fallback that deletes. In these bounds each of the five perils, alone, does lose a
write, and the depth does pass MaxAttempts: without the exceptions TLC finds `AckedKept` and `RecoveryBounded`
violated. The proofs bound none of these numbers. A crash ends every operation, so `ftm_ends` leaves it out. Deadlock is not checked: with the writes made and the bounds used up the model
really stops. *Fairness* (`ftm_ends`): the threads of the pool run; no thread has to begin an operation.

### FeedConnector, FeedConnectorProofs

`run()` suspends only in `await fetch()`, so a request is one step up to there and one after it;
requests overlap in between. The breaker's float arithmetic is kept where it matters: `TripOverflows`.
Time is counted in ticks relative to now. The disk row and the daily count survive `Restart`.

| Run | Shows | Bounds |
|---|---|---|
| feed_connector | once a good payload is on disk nobody gets an empty answer or an exception; the quota is exceeded only by what overlaps; a closed breaker has headroom, also after late answers and error payloads; after an outage the breaker closes for good | 2 requests, 2 slots, limit 2, threshold 2, 3 openings, a restart |

A threshold of two separates the first failure from the one that trips; two overlapping requests
pass the check of a limit of two together; three openings reach the cap of the back-off. FloatLimit
stands for 1024, where the code's floats end. *Fairness*: time passes, also to the next day; httpx has
timeouts, so fetches end; the dashboard asks for the feed again and again. The upstream need not
recover: the property assumes it (`<>[]up`).

### TaskWatchdog

`_monitor` looks at all tasks without an await: one step per cycle. Time is counted in cycles of some
30 seconds. A cancelled task ends the cycle and the monitor (`Reached`).

It is checked inside `SupervisedAircraft`, which extends it, and proved about in `SupervisedAircraftProofs`.

### AircraftProvider, AircraftProviderProofs

A fetch task is named by the caller that started it. `wait_for` on the task cancels it and waits for
its end; `wait_for` on the shield leaves at once; an interruption prevails over a result that is
already there (`Interrupt`, `Awaited`). Callers time out in any order, because they bring different
timeouts and come at different times.

`aircraft_shared`: one fetch at a time, the caller that started it is served whenever there is a
payload, even when it is cancelled, and every call ends although the upstream may never answer.
Three callers: one leads, one joins, and one comes while the first task is being cancelled; one of
them may be cancelled from outside. *Fairness*: the loop runs ready coroutines, timers fire, a
cancelled task ends; not that the upstream answers.

### SupervisedAircraft, MCSupervisedAircraft, SupervisedAircraftProofs

TaskWatchdog, extended by an instance of AircraftProvider: the warm-up and the trail loop are both
callers of the one and tasks of the other; a third task stands for every other loop and may raise,
return or be cancelled at any time. Requests that fetch aircraft are not repeated here: they act on the
two tasks as these act on each other.

`supervised_tasks`: the error count ends a crash loop; while the monitor lives, a task that crashed and whose
cooldown ends before the count reaches the limit runs again (`InTime`); the trail loop never ends by its
own fetch. `supervised_monitor` is a finding: one timed-out fetch can end the supervision of everything.

The intervals are 1, 1 and 3 cycles and the error limit 3, for 300, 30 and 300 seconds, cycles of 30 seconds
and a limit of 5: as with 10 cycles against 5 errors, the third task is given up when it raises soon after
its start, and waits for its cooldown and comes back when it raises later (the warm-up does not raise, and
its interval is shortened). The theorem `GivenUp` covers every other value. Deadlock is not checked, since
the tasks may all have ended. *Fairness*: the monitor sleeps and runs again; no task has to end.

### TriggerAlerts, TriggerAlertsProofs

One round is `StartRound`, an `Evaluate` per enabled rule, `Evaluated`, and in the autopilot a `Push`
per fired rule and node: each is one row in a transaction of its own, so `Crash` can come between any
two, while requests wait for the end of the round (it never awaits). A row of `trigger_log` that cannot
be written, or an INSERT into `node_commands` that raises, is swallowed as in the code. The table
`node_commands` is kept as the sequence of pending rows of each node; `PollCommands` gives out its first
page, and `AckCommand` removes a row by its id whatever has happened in between. The node's own program
is not in the repository: it runs what it polled in order, acknowledges each, and may lose an
acknowledgement or restart (marked external). `shots` and `slips` are history: the fires, and the
dismissals and lost rows, of the last cooldown, in their order, so that those a tick ends are the first.

`trigger_alerts`: within a cooldown a rule repeats itself only as often as it was dismissed or its row
was lost; a round that ends has told every node of every rule, but for an INSERT that failed itself, or, when a
query raised before the push, nobody of anything (`AllOrNobody`); commands are first run in the order they were
queued; a rule that goes on matching reaches every node again and again (the premise of `AlertsArrive` is
that the rule stays enabled, the node known, and that the rule matches when asked).

Two errors end a round without a push, and their callers swallow them: the cooldown query of one rule after
others were logged (`EvaluationRaises`) and the SELECT on `node_state` (`NodesUnread`).

| Constant | Run | In the code |
|---|---|---|
| NumRules, Nodes | 2, 1 | the rules table, the nodes that sent telemetry |
| Cooldown | 1 tick | minutes per rule |
| Page | 2 | 10 |
| MaxPending | 1 command per node before a round | - |
| MaxTrouble, MaxSlips | 1, 1 per cooldown | - |

Two rules are needed for an evaluation that raises after a rule has fired and for a push that goes on after
a failed INSERT; with one operator command they make three rows on a page of two, so that order within a page,
head-of-line blocking and re-delivery happen. The proofs cover any number of nodes and any cooldown.
*Fairness*: a round that began goes on (it has no await), the autopilot loop and the clock go on; for
the polls and acknowledgements strong fairness, which stands for a network and a node that do not fail
each time for ever.

### NodeSync, NodeSyncProofs

`StartPull` is `node_pull` up to the delta query - briefing, version, conflict, `generated_at` -, which
nothing suspends; `DeltaQuery` runs in a thread under the lock of the store; `Apply` and `PullFails` are
the node. Upserts (`TakeStamp`, `Commit`) take their time before they wait for the lock. Time is counted
in stamps of upserts, versions are `MAX(briefings.id)`, or 0 when reading them fails (`ServerVersions`).

No reply with status 200 names the version of its briefing, so the model does not give it to the node: in
`X-Client-Version` a node may claim any version, one ahead of the server too, or none, and it may send its
hashes or not. What an edit on the node gives way to is therefore not a property of this code (findings). `base`
and the `text` of a pull are history: which briefing the node holds.

`node_sync`: what the node lacks is ahead of its cursor or was skipped for one of two reasons
(`CursorCovers`); and the node catches up (`CatchesUp`) through lost replies, failed delta queries and
restarts.

| Constant | Run | In the code |
|---|---|---|
| Entities, Limit | 2, 1 | the store, 20 |
| MaxStamp, MaxOld | 3 upserts with the current time, 1 with an older | - |
| MaxVersion | 1 briefing | - |

Two entities and a limit of one are the smallest instance in which the delta is cut; three stamps let an
upsert take its time before, during and after a pull. The proofs do not bound any of them. *Fairness*:
upserts get the lock, a pull ends, now and then the node asks without claiming a version, and now and then
a complete reply gets through (strong). Nobody has to force or to edit.

### PushDelivery, PushDeliveryProofs

`TriggerEvent` is `trigger_event`; `Open` and `Reconnect` are the head of `sse_events`, whose puts never
wait because the history fits the queue (`HistoryFits`); `Deliver` and `Disconnect` the stream. `Open` is
a client that puts the id it saw last into the URL, `Reconnect` what an EventSource does by itself: the
same URL again, and a `Last-Event-ID` header that the server does not read. `Missed` cuts the
history where its filter on the id would: ids ascend (`HistoryEnds`). `number` in an event is history: ids start again after `Restart`, numbers do not.

`push_delivery`: every gap comes from a full queue, the end of the history, a restart or a client that
named no event; events come in order and once, but for the first one after a `Reconnect`; every event
arrives or has become such a gap. Bounds: one client (clients share only the history, which they do not
write), 6 events, 2 restarts, a history of 2 and a queue of 3 (100 and 200 in the code): events leave the
history, the queue fills up, and the ids of a process pass those of the one before. *Fairness*: the
client comes back of its own accord, and now and then an event gets through (both strong).

## What is proved

TLAPS proves the theorems below for every value of the constants: any number of callers, workers, tasks,
slots, nodes and entities, any limits, and, unless it says otherwise, any number of crashes. The
`ASSUME`s of the modules (types of the constants, finiteness of the sets that are counted) are the
only assumptions, apart from the provisos that the theorems state. Each proviso is there because TLC
shows a violation without it (table of findings) or because the code makes it true.

### The queue (DuckDBQueueProofs)

| Theorem | Property | Provisos |
|---|---|---|
| TypeCorrect | `TypeOK`, with the bound of the backlog | none |
| AckCorrect | `AckedIsApplied` | none |
| RowsResolved | `RowsLeaveResolved` | none |
| OneAtATime | `Serialized`: a worker left behind by a timed-out join is its exception | none |
| NoRowWaitsInVain | `PendingIsScheduled` | no replay meets a full queue |
| AcceptedKept | `AcceptedNeverLost` | no disable(), no dead letter is replayed into a full queue |
| RefusalIsClean | `RefusedLeavesNoTrace` | server |
| AckIsFinal | `AckedNeverReapplied` | server |
| InRealTimeOrder | `RealTimeOrder` | server, no replay meets a full queue |
| CrashesExplainDuplicates | `DuplicatesNeedCrashes`: once more per crash, twice where dead letters are replayed | server |
| KeepsThePromise | `KeepsPromise`: refinement of DurableWrites | server, no dead letter is replayed into a full queue |

*Server* is how `lifespan.py` uses the class: enable() in the startup handler before requests are
served (`:728`, `~EarlyCalls`), disable() as the process ends (`:879`, `MaxDisables = 0`). The provisos on a
full queue are formulas beside `Spec`: `[][~ReplayFull]_vars`, `[][~DlqRefuse]_vars`.

* `AckedIsApplied` is not inductive: a caller is told by its event, the event by the worker's flag, and
  the flag is only right if the worker's entry carries the caller's work. `AckInv` adds `Carries` (every
  queued, replayed or held entry carries a work that has a row or had one), `WorkerTold` (a worker that
  believes in success has applied its task) and `EventTold` (so has whoever set the event).
* `Serialized` needs `OneWorker` (a worker that is not off is the current one or was left behind by a
  `disable()` that stopped waiting). `AcceptedNeverLost` needs `Kept` (a work has taken effect, was cleared, or
  has a live row under some id) and `CopyKept` (between the two statements of `dlq_replay` the new row carries
  the same work); it allows calls during the replay of `enable()`. `PendingIsScheduled` needs `Scheduled`, which says in whose hands a pending row is also while the queue
  starts and stops.
* The theorems about the server rest on `ServerInv`: `Serving` (what may exist in which phase of a
  process), `Once` (a task is in one place: queue, replay, one worker or one caller) and `Begun` (how far
  a call got says whether it has a row). On it build `Untouched` (a call that has not put its task
  was not applied), `SuccessIsSpent` (a success leaves no row that would run again), `InOrder` (of two
  writes the later waits in the queue, the replay or the rows behind the earlier until the fate of
  that one is settled) and `Counted` (runs and runs still due).
* For the refinement every action is shown to change the status of at most one work, by a step of
  DurableWrites or not at all (`CallsKeepPromise`, `OperatorKeepsPromise`, `WorkersKeepPromise`,
  `CrashKeepsPromise`); it needs `ClearedGone` (what an operator cleared has no row again).

### The store (FtmStoreProofs)

| Theorem | Property | Provisos |
|---|---|---|
| TypeCorrect | `TypeOK` | none |
| RecoveryEnds | `RecoveryBounded` | none |
| KeepsWhatWasAcked | `AckedKept` | none |
| KeepsForInspection | `KeptForInspection` | none |

Threads, readers, attempts, invalidations, damage, disk errors and crashes are not bounded; what may cost a
write is named in the properties themselves. `TypeOK` needs `InstSound` (an open database has a file of the
name it is at). `RecoveryBounded` follows from `Bounded`, which says for each point of the recovery how deep a
thread may be for what the counter and the number of resets by others say: a thread that succeeds and
clears the counter returns through all its own rebuilds (`BoundedReturns`), and what it takes from the
counter of another is made good by that one's `resets` (`BoundedStays`). Two threads that pass the check
before either counts are covered, since each has room for one more attempt when it passed.

`AckedKept` and `KeptForInspection` rest on `Kept`: `OneWindow` (one thread at a time is between the copy and
the swap, unless two rebuilt at once), `CopyComplete` (the recovery file of a thread past a complete copy has
every acknowledged write, until the swap gives it the path) and `BackupFree` (the old file and its log
go to names that are free). What other threads and readers do meanwhile is `Quiet`: they open and close
files, but neither write to them nor move them.

### Feeds and fetches

* FeedConnectorProofs: `Headroom` (`ClosedHasHeadroom`) and `QuotaHolds` (`QuotaOvershoot`: each call
  over the limit was under way when the limit was reached, so counted calls and calls under way
  together bound it), without provisos; `AnswersNeverEmpty` (`NeverEmptied`), provided the breaker opens no
  more often than the float arithmetic stands (a finding), by `FreshHasPayload`.
* AircraftProviderProofs: `SingleFetch` (`OneFetch`), by `TaskIsShared` (a task that has not ended is the one
  `_FETCH_TASK` names; the `finally` block cannot break it because it asks `done()`), and
  `LeaderAlwaysServed` (`LeaderServed`).
* SupervisedAircraftProofs, the watchdog alone (from `WatchdogAssumption` only): `GivenUp`
  (`CrashLoopEnds`), by `RestartsCounted` (restarts never outnumber the counted errors). In the composition
  `OneFetchSupervised` and `GivenUpSupervised` take over the theorems about the parts, because each step of it
  is a step or a stutter of either part (a lemma, since the composition is built from the watchdog's own
  actions), and `TrailLoopSurvives` proves `LoopsForEver`. The link is `LeadsInv`, an invariant of the provider
  (a caller stays until its task has ended, which only it can cancel), and `CallersRun` (a task inside a
  call is running). `Cancels` is assumed where the watchdog must know that a task may be cancelled.

### Nodes

* NodeSyncProofs: `TypeCorrect`, with `PullBounded` (no pull knows a time or a version the server did not
  have), whatever version the node claims; `CursorSound` (`CursorCovers`), by `ReplyCovers` (what a delta
  under way does not bring is after its `generated_at`, was skipped or is cut off).
* TriggerAlertsProofs: `RoundsComplete` (`AllOrNobody`), by `DueIsListed` (what is due is still on the
  list of the round: all that was fired during the evaluation; during the push the first rule for
  the nodes that are left and the others for all), through queries, log rows and INSERTs that fail. `NoRepeatUnexcused` (`RepeatsAreExcused`), by `ExcusedBy`:
  counted from the newest, each fire but the one the log still answers for has a slip of its own that is no
  older and so outlives it. `FirstInOrder` (`FirstRunsInOrder`), by `Polled`: what a node has polled is a
  gapless part of its pending rows behind rows it has run. `TypeCorrect` needs `Fits`, how many rows a round
  may still add.

* PushDeliveryProofs: `NothingElseIsLost` (`GapsExplained`) and `InOrderAndOnce` (`OnceInOrder`). The history is
  the end of what the process has triggered (`HistoryEnds`) and queues ascend (`QueueAscends`), in ids and
  in numbers. An id a client may name means what it meant as long as its process lives (`Known`), whoever has
  received an event has no open claim to one before (`Settled`), and what waits comes after what was
  received, unless the stream was opened with an old URL (`Later`).

### Only model-checked

Liveness under fairness (`CallsEnd`, `PendingResolved`, `OperationsEnd`, `RecoversFromOutage`, `CrashedComesBack`,
`CatchesUp`, `AlertsArrive`, `EventsArrive`) is out of the prover's reach.

## Findings

One disagreement of the code with its own documentation is a run that expects a violation
(`PROJECT.json` has the sentence): `supervised_monitor`, a task that joins a fetch whose first caller
times out ends cancelled (`aircraft_provider.py:61` catches only Exception), and that ends the watchdog.

Others show in the same modules when a constant of a passing run is changed, a property is added or an
exception is taken out of one, which is why the properties and bounds are what they are:

| Run, with | Property | Because |
|---|---|---|
| queue_server | PendingIsScheduled | a replay of more rows than the backlog stops in the middle, the rest waits for another restart (`duckdb_queue.py:393`; "pending ops are replayed on startup", `:5`) |
| queue_live, MaxDisables = 1, two workers | CallsEnd | a caller whose task is queued when disable() stops the worker waits for ever (`duckdb_queue.py:195`); disable() does not drain either (`:147`) |
| queue_server, one replay id | AcceptedNeverLost | dlq_replay on a full queue has retired the dead letter, and deletes the only row (`:286`) |
| queue_lifecycle | Serialized without `outlived` | a worker outlives the join of ten seconds and goes on beside the next (`:149`; "Serializes all DuckDB write operations", `:3`) |
| feed_connector | AnswersUsable (no good payload gives way to an error) | an error payload replaces the good one in memory and hides the one on disk (`feeds/runner.py:275`) |
| feed_connector, FloatLimit = 2, MaxOpens = 4 | NeverEmptied | the power of two overflows a float before the cap applies (`feeds/runner.py:85`) |
| ftm_store | AckedKept without "partial" | the errors of ATTACH and of a table's copy are swallowed, and the copy is swapped in (`ftm_connection.py:296`) |
| ftm_store | AckedKept without "deleted" | while another thread's read connection keeps the invalidated database alive every probe fails, and after the attempts the fallback deletes the file, readable or not (`:220`; "Fallback: delete corrupted file and recreate", `:218`) |
| ftm_store | AckedKept without "torn" | a crash between the renames leaves no file at the path; the next start makes an empty store (`:329`) |
| ftm_store | AckedKept without "beside" | a write after the copy, which runs outside the lock (`:278`), or to a renamed file that a reader keeps open (`:67`) |
| ftm_store | AckedKept without "twice" | two threads rebuild at once, and one swaps in what the other was copying (`:253`) |
| ftm_store | RecoveryBounded without `resets` | a thread that probed before the invalidation clears the counter of a recovery that is under way (`:186`; "Recovery attempt counter — capped to prevent infinite recovery loops", `:37`) |
| supervised_tasks | CrashedComesBack without `InTime` | the count runs against the cooldown: a loop whose interval is at least the limit in cycles (300, 600 or 3600 s against 5 x 30 s) is given up after one crash if it raises soon after its start (`lifespan.py:148`, `:162`) |
| trigger_alerts | AllOrNobody without its second case | a round that fires rules and then fails to read `node_state` tells nobody, while the rules cool down (`trigger_engine.py:477`); so does a cooldown query that raises after other rules were logged (`:271`, swallowed at `lifespan.py:666`) |
| node_sync | CursorCovers without `skipped` | an upsert commits behind the cursor (`ftm_query.py:121`), or the delta is cut at twenty, newest first (`intel_graph_export.py:176`); `docs/PI_SYNC.md:18` promises the "intel added since the last pull" |

Read in the code while modelling, outside the models:

* The reply of a pull has no server version, which the node is told to store (`docs/PI_SYNC.md:163`; replies in
  `node_briefing.py:1390` and `:1427`). The conflict check compares a version the node does not get from it with the
  server's, and without the header it is skipped (`:1356`): an edit on the node is overwritten, also by a
  briefing of the version it was made on. `docs/PI_SYNC.md:20` says the check "protects unsynced Pi work from
  being silently overwritten".
* A caller that joins a fetch gets the error of the timeout of the first caller (a CancelledError passes
  `aircraft_provider.py:61`), where that caller itself gets the cached answer (`:72`).
* `POST /triggers/evaluate` starts the cooldown of the rules it fires but never pushes them to a node
  (`node_briefing.py:1138`); the next round of the autopilot then finds them cooling down.
* The default rules for watch items ask for a confidence of 0.65 or more, but both callers evaluate them with 0.5:
  they cannot fire (`lifespan.py:634`).
* Deleting the last trigger rule brings all the defaults back (`trigger_engine.py:113`).
* The digest of a delta reply covers `as_of`, so its ETag never matches (`node_briefing.py:1214`).
* The documented `EventSource('/api/push/events?lastEventId=0')` is never replayed anything, because the id
  of a reconnect comes in a header and 0 means no replay (`push_delivery.py:138`, `:154`).
* The agent bus discards a subscriber whose queue of 64 is full, while its stream stays open and is kept
  alive (`agent_bus.py:177`).
* `resolve_pending` updates predictions without asking whether they are still unresolved
  (`prediction_ledger.py:424`), and two processes may run it.

## What is not modelled

See the components with status `not_modelled`: functions of their inputs (bridges, parsers,
analytics, prompts), single-step checks (auth, rate limits), the front end, containers, scripts and
data. Inside the modelled parts: webhooks and the event stream of the nodes (TriggerAlerts); the edges of a delta, pulls
without a cursor, ETags and the operator's merge (NodeSync); watch items (PushDelivery); SQLite errors other than a closed connection, DuckDB errors other than
an invalidation, `FeedConnector.build`, the two upstreams of `_fetch_once`, the caches of the routes.

## Plan

1. *AgentBus* and the WebSocket gateway: subscribers that are discarded while their streams stay open,
   beside PushDelivery.
2. *Breakers*: the second and third circuit breaker beside that of FeedConnector; *CacheCoalesce*.
3. *Prediction ledger* with its two writers, *AIS collector*.
4. The event stream of the nodes in TriggerAlerts; the operator's merge of a pushed edit in NodeSync.

Proofs to add: the safety of these modules.
