---------------------------- MODULE TaskWatchdog ----------------------------
(***************************************************************************)
(* The supervisor of the background tasks, class TaskWatchdog in           *)
(* backend/lifespan.py: every cycle it looks at the tasks in the order of  *)
(* their registration and restarts those that ended, unless they ended too *)
(* soon or failed too often.                                               *)
(*                                                                         *)
(* One cycle inspects all tasks without an await and is one step. Time is  *)
(* counted in cycles. The tasks themselves run, raise, return or are       *)
(* cancelled at any moment. Nothing in the program calls heartbeat() or    *)
(* record_error(), so a heartbeat is the moment of the last start; the     *)
(* warning about silent tasks changes no state and is left out.            *)
(***************************************************************************)
EXTENDS Naturals

CONSTANTS
  N,          \* tasks 1..N, in the order of registration
  Interval,   \* [1..N -> interval_sec, in cycles]
  ErrorLimit, \* a task with this error_count is given up (5)
  Cancels     \* may a task end by cancellation?

Tasks == 1..N

ASSUME WatchdogAssumption ==
  /\ N \in Nat \ {0}
  /\ Interval \in [Tasks -> Nat]
  /\ ErrorLimit \in Nat \ {0}
  /\ Cancels \in BOOLEAN

VARIABLES
  status,    \* [Tasks -> running, crashed, returned or cancelled]
  errors,    \* [Tasks -> error_count], saturating at ErrorLimit
  age,       \* [Tasks -> cycles since last_heartbeat], up to Interval
  watching,  \* is _monitor still running?
  revived    \* history: [Tasks -> how often it was restarted after raising]

vars == <<status, errors, age, watching, revived>>

TypeOK ==
  /\ status \in [Tasks -> {"running", "crashed", "returned", "cancelled"}]
  /\ errors \in [Tasks -> 0..ErrorLimit]
  /\ age \in [Tasks -> Nat] /\ \A t \in Tasks : age[t] <= Interval[t]
  /\ watching \in BOOLEAN
  /\ revived \in [Tasks -> 0..ErrorLimit]

Init ==
  /\ status = [t \in Tasks |-> "running"]
  /\ errors = [t \in Tasks |-> 0]
  /\ age = [t \in Tasks |-> 0]
  /\ watching = TRUE
  /\ revived = [t \in Tasks |-> 0]

UpTo(limit, n) == IF n < limit THEN n ELSE limit

\* The task raises, returns (the warm-up tasks do), or is cancelled.
Ends(t) ==
  /\ status[t] = "running"
  /\ \E end \in {"crashed", "returned"} \union (IF Cancels THEN {"cancelled"} ELSE {}) :
       status' = [status EXCEPT ![t] = end]
  /\ UNCHANGED <<errors, age, watching, revived>>

-----------------------------------------------------------------------------
\* Age of a task at the cycle that is about to look at it.
Elapsed(t) == UpTo(Interval[t], age[t] + 1)

\* A crashed task is counted in every cycle that finds it.
Counted(t) == IF status[t] = "crashed" THEN UpTo(ErrorLimit, errors[t] + 1) ELSE errors[t]

\* Fault: crashes do not count against the restarts.
NeverGivesUp(t) == status[t] # "running" /\ Elapsed(t) >= Interval[t]

\* Fault: a task that raised is not restarted.
OnlyReturned(t) == status[t] = "returned" /\ Elapsed(t) >= Interval[t]

Restarts(t) ==
  /\ status[t] # "running"
  /\ Counted(t) < ErrorLimit
  /\ Elapsed(t) >= Interval[t]

\* exception() of a cancelled task raises CancelledError, which no handler of
\* the loop catches: tasks registered later are not looked at, and _monitor ends.
Reached(t) == \A u \in 1..t : status[u] # "cancelled"

Cycle ==
  /\ watching
  /\ watching' = \A t \in Tasks : Reached(t)
  /\ LET back == {t \in Tasks : Reached(t) /\ Restarts(t)}
     IN  /\ status' = [t \in Tasks |-> IF t \in back THEN "running" ELSE status[t]]
         /\ age' = [t \in Tasks |-> IF t \in back THEN 0 ELSE Elapsed(t)]
         /\ revived' = [t \in Tasks |->
                          IF t \in back /\ status[t] = "crashed"
                          THEN UpTo(ErrorLimit, revived[t] + 1) ELSE revived[t]]
  /\ errors' = [t \in Tasks |-> IF Reached(t) THEN Counted(t) ELSE errors[t]]

Next == Cycle \/ \E t \in Tasks : Ends(t)

Spec == Init /\ [][Next]_vars

\* The loop sleeps and runs again; no task has to end.
FairSpec == Spec /\ WF_vars(Cycle)

-----------------------------------------------------------------------------
\* A task that keeps raising is not restarted for ever: error_count is counted in
\* every cycle and never reset by a restart, which ends it after ErrorLimit - 1.
CrashLoopEnds == \A t \in Tasks : revived[t] < ErrorLimit

\* A task that raised is counted again in every cycle that its interval makes it
\* wait: it can come back only if the cooldown ends before the count does.
InTime(t) ==
  LET left == IF age[t] < Interval[t] THEN Interval[t] - age[t] ELSE 1
  IN  errors[t] + left < ErrorLimit

\* While the monitor lives, a task whose cooldown ends in time is running again in
\* the end, whatever happens to the others meanwhile ("restarts crashed or silent
\* tasks").
CrashedComesBack ==
  []watching => \A t \in Tasks : status[t] = "crashed" /\ InTime(t) ~> status[t] = "running"
=============================================================================
