----------------------- MODULE AircraftProviderProofs -----------------------
(***************************************************************************)
(* AircraftProvider has one upstream fetch at a time, for any callers.     *)
(* OneFetch is not inductive: that a task which has not ended is the one   *)
(* _FETCH_TASK names must be carried along, and it survives the finally    *)
(* block of a caller because that looks at done().                         *)
(***************************************************************************)
EXTENDS AircraftProvider, TLAPS

\* A task that has not ended is the global one.
TaskIsShared == \A c \in Callers : task[c] # "off" => fetchTask = c

IInv == TypeOK /\ TaskIsShared

LEMMA InitInv == Init => IInv
BY DEF Init, IInv, TypeOK, TaskIsShared, Results, Payloads

LEMMA CallInv == ASSUME IInv, NEW c \in Callers, Call(c) PROVE IInv'
<1>1. CASE InFlight
  <2>1. fetchTask' = fetchTask /\ task' = task
    BY <1>1 DEF Call
  <2>2. fetchTask \in Callers
    BY <1>1 DEF InFlight, IInv, TypeOK
  <2>3. /\ pc' = [pc EXCEPT ![c] = "join"]
        /\ joined' = [joined EXCEPT ![c] = fetchTask]
    BY <1>1 DEF Call
  <2>4. UNCHANGED <<stale, wake, why, got>>
    BY DEF Call
  <2> QED BY <2>1, <2>2, <2>3, <2>4 DEF IInv, TypeOK, TaskIsShared
<1>2. CASE ~InFlight
  <2>1. \A d \in Callers : task[d] = "off"
    BY <1>2, ProviderAssumption DEF InFlight, IInv, TypeOK, TaskIsShared
  <2>2. /\ pc' = [pc EXCEPT ![c] = "lead"]
        /\ joined' = [joined EXCEPT ![c] = c]
        /\ fetchTask' = c
        /\ task' = [task EXCEPT ![c] = "run"]
    BY <1>2 DEF Call
  <2>3. UNCHANGED <<stale, wake, why, got>>
    BY DEF Call
  <2> QED BY <2>1, <2>2, <2>3 DEF IInv, TypeOK, TaskIsShared
<1> QED BY <1>1, <1>2

LEMMA FetchEndsInv == ASSUME IInv, NEW l \in Callers, FetchEnds(l) PROVE IInv'
<1>1. task' = [task EXCEPT ![l] = "off"] /\ UNCHANGED <<fetchTask, pc, joined, why, got>>
  BY DEF FetchEnds
<1>2. stale' \in Payloads \union {"none"}
  BY DEF FetchEnds, Payloads, IInv, TypeOK
<1>3. \E r \in Results : Wakes(l, r)
  BY DEF FetchEnds, Results, Payloads
<1>4. wake' \in [Callers -> Results \union {"wait"}]
  BY <1>3 DEF Wakes, IInv, TypeOK
<1> QED BY <1>1, <1>2, <1>4 DEF IInv, TypeOK, TaskIsShared

\* An interrupted caller changes a running task to one that is being cancelled.
LEMMA InterruptInv ==
  ASSUME IInv, NEW c \in Callers, NEW reason \in {"timeout", "cancel"}, Interrupt(c, reason)
  PROVE  IInv'
<1>1. why' = [why EXCEPT ![c] = reason] /\ UNCHANGED <<stale, fetchTask, pc, joined, got>>
  BY DEF Interrupt
<1>2. /\ task' \in [Callers -> {"off", "run", "cancelling"}]
      /\ \A d \in Callers : task'[d] # "off" => task[d] # "off"
  BY DEF Interrupt, IInv, TypeOK
<1>3. wake' \in [Callers -> Results \union {"wait"}]
  BY DEF Interrupt, IInv, TypeOK, Results
<1> QED BY <1>1, <1>2, <1>3 DEF IInv, TypeOK, TaskIsShared

LEMMA ResumeInv == ASSUME IInv, NEW c \in Callers, Resume(c) PROVE IInv'
<1>1. Answer(c) \in Results
  <2>1. Awaited(c) \in Results
    <3>1. wake[c] \in Results
      BY DEF Resume, IInv, TypeOK
    <3> QED BY <3>1 DEF Awaited, Results
  <2>2. StaleOr(Awaited(c)) \in Results
    BY <2>1 DEF StaleOr, IInv, TypeOK, Results
  <2> QED BY <2>1, <2>2 DEF Answer
<1>2. /\ got' = [got EXCEPT ![c] = Answer(c)]
      /\ pc' = [pc EXCEPT ![c] = "ended"]
      /\ UNCHANGED <<stale, task, joined, wake, why>>
  BY DEF Resume
<1>3. fetchTask' \in Callers \union {None}
  BY DEF Resume, IInv, TypeOK
<1>4. TaskIsShared'
  <2>1. CASE pc[c] = "lead" /\ ~InFlight
    BY <1>2, <2>1, ProviderAssumption DEF InFlight, IInv, TypeOK, TaskIsShared
  <2>2. CASE ~(pc[c] = "lead" /\ ~InFlight)
    <3>1. fetchTask' = fetchTask
      BY <2>2 DEF Resume
    <3> QED BY <1>2, <3>1 DEF IInv, TaskIsShared
  <2> QED BY <2>1, <2>2
<1> QED BY <1>1, <1>2, <1>3, <1>4 DEF IInv, TypeOK

LEMMA LeaveInv == ASSUME IInv, NEW c \in Callers, Leave(c) PROVE IInv'
BY DEF Leave, IInv, TypeOK, TaskIsShared, Results

LEMMA InvHolds == Spec => []IInv
<1>1. IInv /\ [Next]_vars => IInv'
  <2> SUFFICES ASSUME IInv, [Next]_vars PROVE IInv'
    OBVIOUS
  <2>1. ASSUME NEW c \in Callers, Call(c) PROVE IInv'
    BY <2>1, CallInv
  <2>2. ASSUME NEW c \in Callers, FetchEnds(c) PROVE IInv'
    BY <2>2, FetchEndsInv
  <2>3. ASSUME NEW c \in Callers, TimesOut(c) PROVE IInv'
    BY <2>3, InterruptInv DEF TimesOut
  <2>4. ASSUME NEW c \in Callers, Cancel(c) PROVE IInv'
    BY <2>4, InterruptInv DEF Cancel
  <2>5. ASSUME NEW c \in Callers, Resume(c) PROVE IInv'
    BY <2>5, ResumeInv
  <2>6. ASSUME NEW c \in Callers, Leave(c) PROVE IInv'
    BY <2>6, LeaveInv
  <2>7. CASE UNCHANGED vars
    BY <2>7 DEF vars, IInv, TypeOK, TaskIsShared
  <2> QED BY <2>1, <2>2, <2>3, <2>4, <2>5, <2>6, <2>7 DEF Next
<1> QED BY InitInv, <1>1, PTL DEF Spec

\* Concurrent callers are coalesced onto one fetch (fetch_live_states): a second
\* upstream fetch never starts beside one that runs or is being cancelled, for any
\* callers, timeouts and cancellations.
THEOREM SingleFetch == Spec => []OneFetch
<1>1. IInv => OneFetch
  BY DEF IInv, TaskIsShared, OneFetch
<1> QED BY InvHolds, <1>1, PTL

-----------------------------------------------------------------------------
(* What the caller that started a task is answered with.                   *)

\* It gets a payload whenever one was ever fetched, by its own handlers of a
\* timeout and of CancelledError (fetch_live_states, the two except clauses).
THEOREM LeaderAlwaysServed == Spec => LeaderServed
<1> DEFINE Served == \A c \in Callers :
             pc[c] = "lead" /\ pc'[c] = "ended" /\ stale # "none" => got'[c] \in Payloads
<1>1. IInv /\ [Next]_vars => [Served]_vars
  <2> SUFFICES ASSUME IInv, Next, NEW c \in Callers,
                      pc[c] = "lead", pc'[c] = "ended", stale # "none"
               PROVE  got'[c] \in Payloads
    OBVIOUS
  <2>1. Resume(c)
    <3>1. PICK d \in Callers : \/ Call(d) \/ FetchEnds(d) \/ TimesOut(d) \/ Cancel(d)
                               \/ Resume(d) \/ Leave(d)
      BY DEF Next
    <3>2. ~(FetchEnds(d) \/ TimesOut(d) \/ Cancel(d))
      BY DEF FetchEnds, TimesOut, Cancel, Interrupt
    <3>3. ~(Call(d) \/ Leave(d)) BY DEF Call, Leave, IInv, TypeOK
    <3>4. d = c BY <3>1, <3>2, <3>3 DEF Resume, IInv, TypeOK
    <3> QED BY <3>1, <3>2, <3>3, <3>4
  <2>2. wake[c] \in Results /\ why[c] \in {"none", "timeout", "cancel"}
    BY <2>1 DEF Resume, IInv, TypeOK
  <2>3. Awaited(c) \in Results BY <2>2 DEF Awaited, Results
  <2>4. Answer(c) \in Payloads
    BY <2>3 DEF Answer, StaleOr, Results, IInv, TypeOK
  <2> QED BY <2>1, <2>4 DEF Resume, IInv, TypeOK
<1>2. [][Served]_vars => LeaderServed BY DEF LeaderServed
<1> HIDE DEF Served
<1> QED BY <1>1, <1>2, InvHolds, PTL DEF Spec

\* A caller stays until the task it started has ended, nobody but it cancels that
\* task, and then only because it was interrupted.
Leads(c) ==
  /\ joined[c] = None <=> pc[c] = "idle"
  /\ pc[c] = "lead" => joined[c] = c
  /\ pc[c] = "join" => joined[c] # c
  /\ task[c] # "off" => pc[c] = "lead" /\ wake[c] = "wait"
  /\ task[c] = "cancelling" => why[c] # "none"
  /\ pc[c] = "lead" /\ wake[c] = "cancelled" => why[c] # "none"
  /\ why[c] = "cancel" => c \in Cancelled
  /\ pc[c] = "idle" => wake[c] = "wait" /\ why[c] = "none"
  /\ joined[c] = c /\ got[c] = "cancelled" => c \in Cancelled
  /\ pc[c] # "ended" => got[c] = "none"

LeadsInv == IInv /\ \A c \in Callers : Leads(c)

LEMMA InitLeads == Init => LeadsInv
BY InitInv, ProviderAssumption DEF Init, LeadsInv, Leads

LEMMA NextLeads == LeadsInv /\ [Next]_vars => LeadsInv'
<1> SUFFICES ASSUME LeadsInv, [Next]_vars PROVE LeadsInv'
  OBVIOUS
<1>1. CASE UNCHANGED vars
  BY <1>1 DEF vars, LeadsInv, Leads, IInv, TypeOK, TaskIsShared
<1>2. ASSUME NEW d \in Callers,
             \/ Call(d) \/ FetchEnds(d) \/ TimesOut(d) \/ Cancel(d) \/ Resume(d) \/ Leave(d)
      PROVE  LeadsInv'
  <2>0. IInv'
    BY <1>2, CallInv, FetchEndsInv, InterruptInv, ResumeInv, LeaveInv
       DEF LeadsInv, TimesOut, Cancel
  <2> SUFFICES ASSUME NEW c \in Callers PROVE Leads(c)'
    BY <2>0 DEF LeadsInv
  <2>00. Leads(c) /\ Leads(d) /\ TypeOK /\ TaskIsShared /\ c # None
    BY ProviderAssumption DEF LeadsInv, IInv
  <2>1. CASE Call(d)
    <3>1. CASE InFlight
      <4>1. fetchTask # d BY <2>00, <3>1, <2>1 DEF InFlight, Call, Leads
      <4> QED BY <2>00, <3>1, <2>1, <4>1 DEF Call, Leads, TypeOK, InFlight
    <3>2. CASE ~InFlight BY <2>00, <3>2, <2>1 DEF Call, Leads, TypeOK
    <3> QED BY <3>1, <3>2
  <2>2. CASE FetchEnds(d)
    <3>1. UNCHANGED <<fetchTask, pc, joined, why, got>> /\ task' = [task EXCEPT ![d] = "off"]
      BY <2>2 DEF FetchEnds
    <3>2. PICK r \in Results : /\ Wakes(d, r)
                               /\ r = "cancelled" => task[d] = "cancelling"
      BY <2>2 DEF FetchEnds, Results, Payloads
    <3>3. wake'[c] = wake[c] \/ (joined[c] = d /\ wake'[c] = r /\ Waits(c))
      BY <3>2 DEF Wakes
    <3>4. c # d => task'[c] = task[c] /\ (pc[c] = "lead" => wake'[c] = wake[c])
      BY <2>00, <3>1, <3>3 DEF Leads, TypeOK
    <3>5. c = d => task'[c] = "off" BY <2>00, <3>1 DEF TypeOK
    <3>6. c # d => wake'[c] = wake[c] \/ pc[c] = "join"
      BY <2>00, <3>3 DEF Leads, Waits
    <3>7. pc[c] = "idle" => wake'[c] = wake[c] BY <3>3 DEF Waits
    <3>8. CASE c = d
      BY <2>00, <3>1, <3>2, <3>3, <3>5, <3>7, <3>8 DEF Leads
    <3>9. CASE c # d
      BY <2>00, <3>1, <3>4, <3>6, <3>7, <3>9 DEF Leads
    <3> QED BY <3>8, <3>9
  <2>3. CASE TimesOut(d) \/ Cancel(d)
    <3>1. PICK why1 \in {"timeout", "cancel"} : /\ Interrupt(d, why1)
                                                /\ why1 = "cancel" => d \in Cancelled
      BY <2>3 DEF TimesOut, Cancel
    <3> QED BY <2>00, <3>1 DEF Interrupt, Leads, TypeOK, Waits
  <2>4. CASE Resume(d)
    <3>1. d = c => (joined[c] = c /\ got'[c] = "cancelled" => c \in Cancelled)
      BY <2>00, <2>4 DEF Resume, Answer, Awaited, StaleOr, Leads, TypeOK, Waits, Payloads
    <3> QED BY <2>00, <2>4, <3>1 DEF Resume, Leads, TypeOK, Waits
  <2>5. CASE Leave(d)
    BY <2>00, <2>5 DEF Leave, Leads, TypeOK
  <2> QED BY <1>2, <2>1, <2>2, <2>3, <2>4, <2>5
<1> QED BY <1>1, <1>2 DEF Next

\* Whoever is not cancelled from outside never sees a CancelledError from the
\* fetch it started itself: the timeout that cancels the task is its own.
LEMMA LeadsHolds == Spec => []LeadsInv
BY InitLeads, NextLeads, PTL DEF Spec
=============================================================================
