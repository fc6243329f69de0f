------------------------- MODULE SupervisedAircraft -------------------------
(***************************************************************************)
(* The background tasks that fetch aircraft, under the watchdog: what      *)
(* AircraftProvider raises into aircraft_warmup (backend/routes/aircraft.py*)
(* :67) and the trail loop (backend/lifespan.py:359), and what the end of  *)
(* those tasks does to TaskWatchdog and the tasks registered after them.   *)
(*                                                                         *)
(* Tasks 1 and 2 are the warm-up and the trail loop, in their order of     *)
(* registration; the others have no part in the fetch and end as           *)
(* TaskWatchdog lets them. Requests that fetch aircraft too are left to    *)
(* AircraftProvider: they act on the two tasks as these do on each other.  *)
(***************************************************************************)
EXTENDS TaskWatchdog

CONSTANTS Warmup, Trail, None  \* the callers of the provider, and nobody

ASSUME SupervisedAssumption ==
  /\ Warmup # Trail /\ None \notin {Warmup, Trail}
  /\ N >= 2

VARIABLES stale, fetchTask, task, pc, joined, wake, why, got  \* AircraftProvider

providerVars == <<stale, fetchTask, task, pc, joined, wake, why, got>>
sysVars      == <<vars, providerVars>>

TaskOf == [t \in 1..2 |-> IF t = 1 THEN Warmup ELSE Trail]

Provider == INSTANCE AircraftProvider
              WITH Callers <- {Warmup, Trail}, Cancelled <- {}

SysInit == Init /\ Provider!Init

\* The warm-up always asks the provider, the trail loop only while there is no
\* payload with aircraft.
TaskCalls(t) ==
  /\ status[t] = "running"
  /\ TaskOf[t] = Trail => stale # "live"
  /\ Provider!Call(TaskOf[t])
  /\ UNCHANGED vars

\* Fault: the trail loop ends after one round.
GoesOnNever(t) == FALSE

\* After an answer or an Exception the trail loop goes round again.
GoesOn(t) == TaskOf[t] = Trail /\ got[TaskOf[t]] # "cancelled"

\* The warm-up raises CancelledError again, the loop's handler does not catch it;
\* the warm-up returns after anything else.
EndsAs(t) == IF got[TaskOf[t]] = "cancelled" THEN "cancelled" ELSE "returned"

TaskAnswered(t) ==
  /\ Provider!Leave(TaskOf[t])
  /\ status' = IF GoesOn(t) THEN status ELSE [status EXCEPT ![t] = EndsAs(t)]
  /\ UNCHANGED <<errors, age, watching, revived>>

\* Steps of the provider that the supervisor does not see.
Fetching ==
  /\ \E c \in {Warmup, Trail} :
       Provider!FetchEnds(c) \/ Provider!TimesOut(c) \/ Provider!Resume(c)
  /\ UNCHANGED vars

OtherEnds(t) == Ends(t) /\ UNCHANGED providerVars

Supervise == Cycle /\ UNCHANGED providerVars

SysNext ==
  \/ \E t \in 1..2 : TaskCalls(t) \/ TaskAnswered(t)
  \/ \E t \in Tasks \ 1..2 : OtherEnds(t)
  \/ Fetching \/ Supervise

\* The monitor sleeps and runs again.
SysSpec == SysInit /\ [][SysNext]_sysVars /\ WF_sysVars(Supervise)

-----------------------------------------------------------------------------
\* The trail loop survives whatever its own fetch does: while it has not joined
\* another caller's, it never ends (its handler and its `while True`).
LoopsForEver ==
  [][status[2] = "running" /\ joined[Trail] \in {Trail, None} => status'[2] = "running"]_sysVars

\* "Holds strong references to background tasks, monitors heartbeats, and restarts
\* crashed or silent tasks": a loop that raised and whose cooldown ends in time runs
\* again, whatever the tasks registered before it do.
OthersComeBack ==
  \A t \in Tasks \ 1..2 :
    status[t] = "crashed" /\ InTime(t) ~> status[t] = "running"
=============================================================================
