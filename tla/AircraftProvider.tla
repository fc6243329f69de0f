-------------------------- MODULE AircraftProvider --------------------------
(***************************************************************************)
(* The shared fetch of live aircraft, backend/aircraft_provider.py: the    *)
(* first caller starts a task and waits for it, callers that come while it *)
(* runs wait for the same task behind a shield, and whoever waits too long *)
(* is served the last known payload.                                       *)
(*                                                                         *)
(* Everything happens in one event loop, so a step is what a coroutine     *)
(* does between two suspensions. A fetch task is named by the caller that  *)
(* started it: that caller does not return before the task has ended.      *)
(* Callers bring different timeouts (10 to 14 s) and arrive at different   *)
(* times, so any of them may give up first; a caller may also be cancelled *)
(* from outside (the wait_for around the gather in situations.py:274), in  *)
(* the model at most once in a call. The payload is "live", with aircraft, *)
(* or "empty".                                                             *)
(***************************************************************************)
EXTENDS Naturals

CONSTANTS
  Callers,   \* concurrent callers of fetch_live_states
  Cancelled, \* those that may be cancelled from outside
  None       \* no caller

ASSUME ProviderAssumption == None \notin Callers /\ Cancelled \subseteq Callers

VARIABLES
  stale,     \* _STALE: none, empty or live
  fetchTask, \* _FETCH_TASK: the caller whose task it is, or None
  task,      \* [Callers -> off, run or cancelling]: the task the caller started
  pc,        \* [Callers -> idle, lead, join or ended]
  joined,    \* [Callers -> whose task it waits for]
  wake,      \* [Callers -> what the awaited future gave, or wait]
  why,       \* [Callers -> what interrupted the wait]
  got        \* [Callers -> how the call ended]

vars == <<stale, fetchTask, task, pc, joined, wake, why, got>>

Payloads == {"live", "empty"}
Results  == Payloads \union {"error", "cancelled"}

TypeOK ==
  /\ stale \in Payloads \union {"none"}
  /\ fetchTask \in Callers \union {None}
  /\ task \in [Callers -> {"off", "run", "cancelling"}]
  /\ pc \in [Callers -> {"idle", "lead", "join", "ended"}]
  /\ joined \in [Callers -> Callers \union {None}]
  /\ wake \in [Callers -> Results \union {"wait"}]
  /\ why \in [Callers -> {"none", "timeout", "cancel"}]
  /\ got \in [Callers -> Results \union {"none"}]

Init ==
  /\ stale = "none" /\ fetchTask = None
  /\ task = [c \in Callers |-> "off"]
  /\ pc = [c \in Callers |-> "idle"]
  /\ joined = [c \in Callers |-> None]
  /\ wake = [c \in Callers |-> "wait"]
  /\ why = [c \in Callers |-> "none"]
  /\ got = [c \in Callers |-> "none"]

Waits(c) == pc[c] \in {"lead", "join"}

\* Fault: a task that has been cancelled counts as done.
InFlightUncancelled == fetchTask # None /\ task[fetchTask] = "run"

\* _FETCH_TASK and not _FETCH_TASK.done()
InFlight == fetchTask # None /\ task[fetchTask] # "off"

\* Up to the await: join the task in flight, or start one.
Call(c) ==
  /\ pc[c] = "idle"
  /\ \/ /\ InFlight
        /\ pc' = [pc EXCEPT ![c] = "join"]
        /\ joined' = [joined EXCEPT ![c] = fetchTask]
        /\ UNCHANGED <<fetchTask, task>>
     \/ /\ ~InFlight
        /\ pc' = [pc EXCEPT ![c] = "lead"]
        /\ joined' = [joined EXCEPT ![c] = c]
        /\ fetchTask' = c
        /\ task' = [task EXCEPT ![c] = "run"]
  /\ UNCHANGED <<stale, wake, why, got>>

\* The end of a task wakes everyone who waits for it.
Wakes(l, result) ==
  wake' = [c \in Callers |->
             IF Waits(c) /\ joined[c] = l /\ wake[c] = "wait" THEN result ELSE wake[c]]

\* _fetch_once ends: with aircraft; without any, which replaces _STALE only if
\* that has none either; with an exception; or by its cancellation.
FetchEnds(l) ==
  /\ \/ task[l] = "run" /\ stale' = "live" /\ Wakes(l, "live")
     \/ task[l] = "run" /\ stale = "live" /\ Wakes(l, "live") /\ UNCHANGED stale
     \/ task[l] = "run" /\ stale # "live" /\ stale' = "empty" /\ Wakes(l, "empty")
     \/ task[l] = "run" /\ Wakes(l, "error") /\ UNCHANGED stale
     \/ task[l] = "cancelling" /\ Wakes(l, "cancelled") /\ UNCHANGED stale
  /\ task' = [task EXCEPT ![l] = "off"]
  /\ UNCHANGED <<fetchTask, pc, joined, why, got>>

\* Fault: the interrupted first caller waits on without cancelling its task.
InterruptKeepsTask(c, reason) ==
  /\ Waits(c) /\ why[c] = "none"
  /\ why' = [why EXCEPT ![c] = reason]
  /\ wake' = [wake EXCEPT ![c] = IF pc[c] = "lead" THEN @ ELSE "cancelled"]
  /\ UNCHANGED <<task, stale, fetchTask, pc, joined, got>>

\* wait_for is interrupted. Waiting for the task itself, it cancels it and waits
\* on until it has ended; waiting for the shield, it leaves at once.
Interrupt(c, reason) ==
  /\ Waits(c) /\ why[c] = "none"
  /\ why' = [why EXCEPT ![c] = reason]
  /\ IF pc[c] = "lead"
     THEN /\ task' = [task EXCEPT ![c] = IF @ = "run" THEN "cancelling" ELSE @]
          /\ UNCHANGED wake
     ELSE /\ wake' = [wake EXCEPT ![c] = "cancelled"]
          /\ UNCHANGED task
  /\ UNCHANGED <<stale, fetchTask, pc, joined, got>>

TimesOut(c) == Interrupt(c, "timeout")

Cancel(c) == c \in Cancelled /\ Interrupt(c, "cancel")

\* What the await raises or returns: an interruption prevails over the future.
Awaited(c) ==
  CASE why[c] = "timeout" -> "error"
    [] why[c] = "cancel"  -> "cancelled"
    [] OTHER              -> wake[c]

StaleOr(result) == IF stale = "none" THEN result ELSE stale

\* Fault: the first caller has no handler of CancelledError.
AnswerUncaught(c) == IF Awaited(c) = "error" THEN StaleOr("error") ELSE Awaited(c)

\* Only the first caller has a handler of CancelledError, which is no Exception.
Answer(c) ==
  IF Awaited(c) = "error" \/ (pc[c] = "lead" /\ Awaited(c) = "cancelled")
  THEN StaleOr(Awaited(c)) ELSE Awaited(c)

\* The coroutine goes on after the await and ends.
Resume(c) ==
  /\ Waits(c) /\ wake[c] # "wait"
  /\ got' = [got EXCEPT ![c] = Answer(c)]
  /\ pc' = [pc EXCEPT ![c] = "ended"]
  /\ fetchTask' = IF pc[c] = "lead" /\ ~InFlight THEN None ELSE fetchTask
  /\ UNCHANGED <<stale, task, joined, wake, why>>

\* The caller takes the answer and may call again.
Leave(c) ==
  /\ pc[c] = "ended"
  /\ pc' = [pc EXCEPT ![c] = "idle"]
  /\ joined' = [joined EXCEPT ![c] = None]
  /\ wake' = [wake EXCEPT ![c] = "wait"]
  /\ why' = [why EXCEPT ![c] = "none"]
  /\ got' = [got EXCEPT ![c] = "none"]
  /\ UNCHANGED <<stale, fetchTask, task>>

Next ==
  \E c \in Callers :
    \/ Call(c) \/ FetchEnds(c) \/ TimesOut(c) \/ Cancel(c) \/ Resume(c) \/ Leave(c)

Spec == Init /\ [][Next]_vars

\* The loop runs ready coroutines, timers fire, and a cancelled task ends. That
\* the upstream ever answers is not assumed.
Fairness ==
  \A c \in Callers :
    /\ WF_vars(Resume(c)) /\ WF_vars(TimesOut(c))
    /\ WF_vars(task[c] = "cancelling" /\ FetchEnds(c))

FairSpec == Spec /\ Fairness

-----------------------------------------------------------------------------
\* "Coalesces concurrent callers onto one in-flight fetch": there is never a second
\* upstream fetch beside one that still runs or is still being cancelled, whatever
\* timeouts and cancellations hit the callers.
OneFetch == \A c, d \in Callers : task[c] # "off" /\ task[d] # "off" => c = d

\* The caller whose task it is gets a payload whenever one was ever fetched, also
\* when it is cancelled itself.
LeaderServed ==
  [][\A c \in Callers :
       pc[c] = "lead" /\ pc'[c] = "ended" /\ stale # "none" => got'[c] \in Payloads]_vars

\* No call waits for ever, even if the upstream never answers.
CallsEnd == \A c \in Callers : Waits(c) ~> ~Waits(c)
=============================================================================
