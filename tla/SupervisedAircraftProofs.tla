----------------------- MODULE SupervisedAircraftProofs -----------------------
(***************************************************************************)
(* The composition of AircraftProvider and TaskWatchdog implements both:   *)
(* each of its steps is a step of the provider or leaves the provider      *)
(* alone, and the same for the watchdog. So what is proved of the parts,   *)
(* here of the watchdog and in AircraftProviderProofs, holds of the whole. *)
(***************************************************************************)
EXTENDS SupervisedAircraft, TLAPS

(* The watchdog alone, for any number of tasks, intervals and limit: only  *)
(* WatchdogAssumption is cited. CrashLoopEnds is not inductive by itself:  *)
(* that a restarted task has been counted must be carried along            *)
(* (RestartsCounted).                                                      *)

\* Every restart after a crash was preceded by a count, and the count survives
\* the restart.
RestartsCounted == \A t \in Tasks : revived[t] <= errors[t]

IInv == TypeOK /\ RestartsCounted /\ CrashLoopEnds

LEMMA InitInv == Init => IInv
BY WatchdogAssumption DEF Init, IInv, TypeOK, RestartsCounted, CrashLoopEnds, Tasks

LEMMA EndsInv == ASSUME IInv, NEW t \in Tasks, Ends(t) PROVE IInv'
<1>1. status' \in [Tasks -> {"running", "crashed", "returned", "cancelled"}]
  BY DEF IInv, TypeOK, Ends
<1> QED BY <1>1 DEF IInv, TypeOK, RestartsCounted, CrashLoopEnds, Ends

\* One cycle: the error counts and the restarts grow together.
LEMMA CycleInv == ASSUME IInv, Cycle PROVE IInv'
<1> DEFINE back == {t \in Tasks : Reached(t) /\ Restarts(t)}
<1>0. /\ ErrorLimit \in Nat \ {0}
      /\ Interval \in [Tasks -> Nat]
  BY WatchdogAssumption
<1>1. ASSUME NEW t \in Tasks
      PROVE  Counted(t) \in 0..ErrorLimit /\ Counted(t) >= errors[t]
  <2>1. errors[t] \in 0..ErrorLimit
    BY DEF IInv, TypeOK
  <2> QED BY <1>0, <2>1 DEF Counted, UpTo
<1>2. errors' \in [Tasks -> 0..ErrorLimit] /\ \A t \in Tasks : errors'[t] >= errors[t]
  BY <1>0, <1>1 DEF Cycle, IInv, TypeOK
<1>3. /\ revived' \in [Tasks -> 0..ErrorLimit]
      /\ \A t \in Tasks : revived'[t] <= errors'[t] /\ revived'[t] < ErrorLimit
  <2>1. ASSUME NEW t \in Tasks
        PROVE  /\ revived'[t] \in 0..ErrorLimit
               /\ revived'[t] <= errors'[t]
               /\ revived'[t] < ErrorLimit
    <3>0. /\ revived[t] \in 0..ErrorLimit /\ errors[t] \in 0..ErrorLimit
          /\ revived[t] <= errors[t] /\ revived[t] < ErrorLimit
      BY DEF IInv, TypeOK, RestartsCounted, CrashLoopEnds
    <3>1. CASE t \in back /\ status[t] = "crashed"
      <4>1. revived'[t] = UpTo(ErrorLimit, revived[t] + 1)
        BY <3>1 DEF Cycle
      <4>2. errors'[t] = Counted(t) /\ Counted(t) < ErrorLimit
        BY <3>1 DEF Cycle, Restarts
      <4>3. Counted(t) = errors[t] + 1
        BY <3>0, <3>1, <4>2, <1>0 DEF Counted, UpTo
      <4> QED BY <1>0, <3>0, <4>1, <4>2, <4>3 DEF UpTo
    <3>2. CASE ~(t \in back /\ status[t] = "crashed")
      <4>1. revived'[t] = revived[t]
        BY <3>2 DEF Cycle
      <4> QED BY <1>0, <1>2, <3>0, <4>1
    <3> QED BY <3>1, <3>2
  <2> QED BY <2>1 DEF Cycle
<1>4. TypeOK'
  <2>1. status' \in [Tasks -> {"running", "crashed", "returned", "cancelled"}]
    BY DEF Cycle, IInv, TypeOK
  <2>2. age' \in [Tasks -> Nat] /\ \A t \in Tasks : age'[t] <= Interval[t]
    <3>1. ASSUME NEW t \in Tasks
          PROVE  Elapsed(t) \in Nat /\ Elapsed(t) <= Interval[t]
      <4>1. age[t] \in Nat
        BY DEF IInv, TypeOK
      <4> QED BY <1>0, <4>1 DEF Elapsed, UpTo
    <3> QED BY <1>0, <3>1 DEF Cycle, IInv, TypeOK
  <2>3. watching' \in BOOLEAN
    BY DEF Cycle
  <2> QED BY <1>2, <1>3, <2>1, <2>2, <2>3 DEF Cycle, IInv, TypeOK
<1> QED BY <1>3, <1>4 DEF IInv, RestartsCounted, CrashLoopEnds

LEMMA InvHolds == Spec => []IInv
<1>1. IInv /\ [Next]_vars => IInv'
  <2> SUFFICES ASSUME IInv, [Next]_vars PROVE IInv'
    OBVIOUS
  <2>1. CASE Cycle
    BY <2>1, CycleInv
  <2>2. ASSUME NEW t \in Tasks, Ends(t) PROVE IInv'
    BY <2>2, EndsInv
  <2>3. CASE UNCHANGED vars
    BY <2>3 DEF vars, IInv, TypeOK, RestartsCounted, CrashLoopEnds
  <2> QED BY <2>1, <2>2, <2>3 DEF Next
<1> QED BY InitInv, <1>1, PTL DEF Spec

\* A task that keeps raising is restarted fewer than ErrorLimit times, whatever
\* its interval, however many tasks there are and whether or not some of them are
\* cancelled (_monitor, the test of error_count).
THEOREM GivenUp == Spec => []CrashLoopEnds
<1>1. IInv => CrashLoopEnds
  BY DEF IInv
<1> QED BY InvHolds, <1>1, PTL

-----------------------------------------------------------------------------
(* The parts of the composition *)

\* The provider of SupervisedAircraft, with what is proved about it.
Fetches == INSTANCE AircraftProviderProofs
             WITH Callers <- {Warmup, Trail}, Cancelled <- {}

LEMMA FetchesAssumption == Fetches!ProviderAssumption
BY SupervisedAssumption DEF Fetches!ProviderAssumption

\* The tasks that fetch are among those the watchdog supervises.
LEMMA TasksFetch ==
  /\ {1, 2} \subseteq Tasks
  /\ TaskOf[1] = Warmup /\ TaskOf[2] = Trail
  /\ \A t \in 1..2 : t \in {1, 2} /\ TaskOf[t] \in {Warmup, Trail}
BY WatchdogAssumption, SupervisedAssumption DEF Tasks, TaskOf

-----------------------------------------------------------------------------
(* The provider's side *)

LEMMA ProviderInit == SysInit => Fetches!Init
BY DEF SysInit, Provider!Init, Fetches!Init

LEMMA ProviderStep == [SysNext]_sysVars => [Fetches!Next]_(Fetches!vars)
<1> SUFFICES ASSUME [SysNext]_sysVars PROVE [Fetches!Next]_(Fetches!vars)
  OBVIOUS
<1>1. ASSUME NEW t \in 1..2, TaskCalls(t) PROVE Fetches!Next
  <2>1. Fetches!Call(TaskOf[t])
    BY <1>1 DEF TaskCalls, Provider!Call, Fetches!Call, Provider!InFlight, Fetches!InFlight
  <2> QED BY <2>1, TasksFetch DEF Fetches!Next
<1>2. ASSUME NEW t \in 1..2, TaskAnswered(t) PROVE Fetches!Next
  <2>1. Fetches!Leave(TaskOf[t])
    BY <1>2 DEF TaskAnswered, Provider!Leave, Fetches!Leave
  <2> QED BY <2>1, TasksFetch DEF Fetches!Next
<1>3. CASE Fetching
  <2>1. PICK c \in {Warmup, Trail} :
          Provider!FetchEnds(c) \/ Provider!TimesOut(c) \/ Provider!Resume(c)
    BY <1>3 DEF Fetching
  <2>2. CASE Provider!FetchEnds(c)
    <3>1. Fetches!FetchEnds(c)
      BY <2>2 DEF Provider!FetchEnds, Fetches!FetchEnds, Provider!Wakes, Fetches!Wakes,
         Provider!Waits, Fetches!Waits
    <3> QED BY <3>1 DEF Fetches!Next
  <2>3. CASE Provider!TimesOut(c)
    <3>1. Fetches!TimesOut(c)
      BY <2>3 DEF Provider!TimesOut, Fetches!TimesOut, Provider!Interrupt, Fetches!Interrupt,
         Provider!Waits, Fetches!Waits
    <3> QED BY <3>1 DEF Fetches!Next
  <2>4. CASE Provider!Resume(c)
    <3>1. Fetches!Resume(c)
      BY <2>4 DEF Provider!Resume, Fetches!Resume, Provider!Waits, Fetches!Waits,
         Provider!Answer, Fetches!Answer, Provider!Awaited, Fetches!Awaited,
         Provider!StaleOr, Fetches!StaleOr, Provider!InFlight, Fetches!InFlight
    <3> QED BY <3>1 DEF Fetches!Next
  <2> QED BY <2>1, <2>2, <2>3, <2>4
<1>4. CASE Supervise \/ (\E t \in Tasks \ 1..2 : OtherEnds(t)) \/ UNCHANGED sysVars
  BY <1>4 DEF Supervise, OtherEnds, sysVars, providerVars, Fetches!vars
<1> QED BY <1>1, <1>2, <1>3, <1>4 DEF SysNext

LEMMA ImplementsProvider == SysSpec => Fetches!Spec
BY ProviderInit, ProviderStep, PTL DEF SysSpec, Fetches!Spec

LEMMA ProviderInv == SysSpec => []Fetches!LeadsInv
BY ImplementsProvider, Fetches!LeadsHolds, FetchesAssumption, PTL

\* The supervised tasks never have two fetches at once (fetch_live_states), with
\* restarts and cancellations of the tasks.
THEOREM OneFetchSupervised == SysSpec => []Fetches!OneFetch
BY ImplementsProvider, Fetches!SingleFetch, FetchesAssumption, PTL

-----------------------------------------------------------------------------
(* The watchdog's side *)

\* A task that is in the middle of a call is running.
CallersRun ==
  /\ status \in [Tasks -> {"running", "crashed", "returned", "cancelled"}]
  /\ \A t \in 1..2 : pc[TaskOf[t]] # "idle" => status[t] = "running"

LEMMA NextSupervised ==
  ASSUME Cancels, Fetches!LeadsInv, CallersRun, [SysNext]_sysVars
  PROVE  CallersRun' /\ [Next]_vars
<1>0. pc \in [{Warmup, Trail} -> {"idle", "lead", "join", "ended"}]
  BY DEF Fetches!LeadsInv, Fetches!IInv, Fetches!TypeOK
<1>1. ASSUME NEW t \in 1..2, TaskCalls(t) PROVE CallersRun' /\ UNCHANGED vars
  <2>1. UNCHANGED vars /\ status[t] = "running" BY <1>1 DEF TaskCalls
  <2>2. \A u \in 1..2 : u # t => TaskOf[u] # TaskOf[t]
    BY TasksFetch, SupervisedAssumption
  <2>3. \A u \in 1..2 : u # t => pc'[TaskOf[u]] = pc[TaskOf[u]]
    BY <1>0, <1>1, <2>2, TasksFetch DEF TaskCalls, Provider!Call
  <2> QED BY <2>1, <2>3 DEF CallersRun, vars
<1>2. ASSUME NEW t \in 1..2, TaskAnswered(t) PROVE CallersRun' /\ [Next]_vars
  <2>1. pc[TaskOf[t]] = "ended" /\ pc' = [pc EXCEPT ![TaskOf[t]] = "idle"]
    BY <1>2 DEF TaskAnswered, Provider!Leave
  <2>2. status[t] = "running" /\ t \in Tasks
    BY <2>1, TasksFetch DEF CallersRun
  <2>3. /\ status' = status \/ status' = [status EXCEPT ![t] = EndsAs(t)]
        /\ UNCHANGED <<errors, age, watching, revived>>
        /\ EndsAs(t) \in {"cancelled", "returned"}
    BY <1>2 DEF TaskAnswered, EndsAs
  <2>4. CallersRun'
    BY <1>0, <2>1, <2>2, <2>3, TasksFetch DEF CallersRun
  <2>5. UNCHANGED vars \/ Ends(t) BY <2>2, <2>3 DEF Ends, vars
  <2> QED BY <2>2, <2>4, <2>5 DEF Next
<1>3. CASE Fetching
  <2>1. UNCHANGED vars BY <1>3 DEF Fetching
  <2>2. \A c \in {Warmup, Trail} : pc'[c] # "idle" => pc[c] # "idle"
    BY <1>0, <1>3 DEF Fetching, Provider!FetchEnds, Provider!TimesOut, Provider!Interrupt,
       Provider!Resume, Provider!Waits
  <2> QED BY <2>1, <2>2, TasksFetch DEF CallersRun, vars
<1>4. ASSUME NEW t \in Tasks \ 1..2, OtherEnds(t) PROVE CallersRun' /\ [Next]_vars
  <2>1. Ends(t) /\ UNCHANGED pc BY <1>4 DEF OtherEnds, providerVars
  <2>2. CallersRun' BY <2>1, TasksFetch DEF Ends, CallersRun
  <2> QED BY <2>1, <2>2 DEF Next
<1>5. CASE Supervise
  BY <1>5, TasksFetch DEF Supervise, Cycle, Restarts, Next, CallersRun, providerVars
<1>6. CASE UNCHANGED sysVars
  BY <1>6 DEF sysVars, vars, CallersRun, providerVars
<1> QED BY <1>1, <1>2, <1>3, <1>4, <1>5, <1>6 DEF SysNext

\* Whatever the fetches do to the tasks, the watchdog sees nothing but tasks that
\* raise, return or are cancelled (TaskWatchdog._monitor).
LEMMA WatchdogSteps ==
  ASSUME Cancels
  PROVE  SysSpec => Spec
<1>1. SysInit => Init /\ CallersRun
  BY DEF SysInit, Init, CallersRun, TaskOf, Provider!Init
<1>2. Fetches!LeadsInv /\ CallersRun /\ [SysNext]_sysVars => CallersRun' /\ [Next]_vars
  BY NextSupervised
<1> QED BY <1>1, <1>2, ProviderInv, PTL DEF SysSpec, Spec

\* The error count ends a crash loop also of tasks that fetch together.
THEOREM GivenUpSupervised ==
  ASSUME Cancels
  PROVE  SysSpec => []CrashLoopEnds
BY WatchdogSteps, GivenUp, PTL

-----------------------------------------------------------------------------
(* LoopsForEver: the trail loop ends only by a CancelledError, and the only one
   that reaches it comes from a fetch another caller started. *)

\* The trail loop survives its own timeouts (_aircraft_trail_loop, the handler of
\* Exception): only joining another caller's fetch can end it.
THEOREM TrailLoopSurvives == SysSpec => LoopsForEver
<1> DEFINE Survives == status[2] = "running" /\ joined[Trail] \in {Trail, None}
                         => status'[2] = "running"
           Typed == status \in [Tasks -> {"running", "crashed", "returned", "cancelled"}]
<1>1. Typed /\ Fetches!LeadsInv /\ [SysNext]_sysVars => Typed' /\ [Survives]_sysVars
  <2> SUFFICES ASSUME Typed, Fetches!LeadsInv, [SysNext]_sysVars
               PROVE  Typed' /\ (status[2] = "running" /\ joined[Trail] \in {Trail, None}
                                   => status'[2] = "running")
    OBVIOUS
  <2>1. ASSUME NEW t \in 1..2, TaskAnswered(t)
        PROVE  Typed' /\ (status[2] = "running" /\ joined[Trail] \in {Trail, None}
                            => status'[2] = "running")
    <3>1. status' = status \/ status' = [status EXCEPT ![t] = EndsAs(t)]
      BY <2>1 DEF TaskAnswered
    <3>2. EndsAs(t) \in {"cancelled", "returned"} BY DEF EndsAs
    <3>3. Typed' BY <3>1, <3>2, TasksFetch
    <3>4. ASSUME t = 2, joined[Trail] \in {Trail, None} PROVE status' = status
      <4>1. pc[Trail] = "ended" BY <2>1, <3>4, TasksFetch DEF TaskAnswered, Provider!Leave
      <4>2. Fetches!Leads(Trail) BY DEF Fetches!LeadsInv
      <4>3. got[Trail] # "cancelled"
        BY <3>4, <4>1, <4>2 DEF Fetches!Leads
      <4>4. GoesOn(t) BY <3>4, <4>3, TasksFetch DEF GoesOn
      <4> QED BY <2>1, <4>4 DEF TaskAnswered
    <3>5. t # 2 => status'[2] = status[2] BY <3>1, TasksFetch
    <3> QED BY <3>3, <3>4, <3>5
  <2>2. CASE Fetching \/ (\E t \in 1..2 : TaskCalls(t)) \/ UNCHANGED sysVars
    BY <2>2 DEF Fetching, TaskCalls, sysVars, vars
  <2>3. ASSUME NEW t \in Tasks \ 1..2, OtherEnds(t)
        PROVE  Typed' /\ (status[2] = "running" => status'[2] = "running")
    BY <2>3, TasksFetch DEF OtherEnds, Ends
  <2>4. CASE Supervise
    BY <2>4, TasksFetch DEF Supervise, Cycle, Restarts
  <2> QED BY <2>1, <2>2, <2>3, <2>4 DEF SysNext
<1>2. SysInit => Typed BY DEF SysInit, Init
<1>3. [][Survives]_sysVars => LoopsForEver BY DEF LoopsForEver
<1> HIDE DEF Survives, Typed
<1> QED BY <1>1, <1>2, <1>3, ProviderInv, PTL DEF SysSpec
=============================================================================
