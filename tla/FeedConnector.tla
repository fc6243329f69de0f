--------------------------- MODULE FeedConnector ---------------------------
(***************************************************************************)
(* FeedConnector.run with its circuit breaker, backend/feeds/runner.py:    *)
(* requests for one feed are answered from memory, from the upstream, or,  *)
(* when the daily quota is used up, the breaker is open or the fetch       *)
(* fails, with the last known payload.                                     *)
(*                                                                         *)
(* run() is a coroutine whose only suspension is the await of the fetch,   *)
(* so a request is one step up to there and one step after it; requests    *)
(* overlap in between, and nothing coalesces them.                         *)
(*                                                                         *)
(* Abstracted: a payload is "good" or "degraded" (an error payload that a  *)
(* fetcher returns instead of raising); time is counted in units of Tick,  *)
(* relative to now; the failure counter saturates at the threshold and the *)
(* counter of openings where the code's float arithmetic overflows, beyond *)
(* which further values make no difference.                                *)
(***************************************************************************)
EXTENDS Naturals, FiniteSets

CONSTANTS
  Requests,    \* concurrent requests for the feed
  Subkeys,     \* memory slots of the feed
  Main,        \* the slot named like the feed itself
  None,        \* no payload
  Ttl,         \* ttl_sec
  Threshold,   \* failure_threshold
  Reset,       \* reset_timeout_sec
  MaxBackoff,  \* max_backoff_sec
  FloatLimit,  \* 2 ** FloatLimit does not fit a float (1024)
  Limit,       \* daily quota of upstream calls
  Degrades,    \* does the fetcher turn failures into error payloads?
  MaxOpens,    \* bound on openings of the breaker without a success
  MaxRestarts  \* bound on restarts of the process

ASSUME FeedAssumption ==
  /\ IsFiniteSet(Requests)
  /\ Main \in Subkeys
  /\ None \notin {"good", "degraded"}
  /\ Ttl \in Nat \ {0} /\ Threshold \in Nat \ {0}
  /\ Reset \in Nat \ {0} /\ MaxBackoff \in Nat /\ Reset <= MaxBackoff
  /\ FloatLimit \in Nat /\ Limit \in Nat \ {0}
  /\ Degrades \in BOOLEAN
  /\ MaxOpens \in Nat /\ MaxRestarts \in Nat

VARIABLES
  state,     \* _state
  failures,  \* _failures
  left,      \* time until _opened_at + _current_timeout
  timeout,   \* _current_timeout
  opens,     \* _consecutive_opens
  mem,       \* _mem: [Subkeys -> payload, and its age up to Ttl]
  disk,      \* the row of the feed in feed_cache (persistent)
  count,     \* calls recorded today in api_quota (persistent)
  up,        \* does the upstream answer?
  pc,        \* [Requests -> idle, fetch (in await fetch()), or answered]
  sub,       \* [Requests -> the slot asked for]
  ans,       \* [Requests -> what the request was answered with]
  restarts

breaker == <<state, failures, left, timeout, opens>>
cache   == <<mem, disk>>
vars == <<state, failures, left, timeout, opens, mem, disk, count, up, pc, sub,
          ans, restarts>>

Payloads == {"good", "degraded"}
\* A slot never written is as good as expired.
NoEntry  == [age |-> Ttl, val |-> None]
Answers  == Payloads \union {"empty", "raised"}

TypeOK ==
  /\ state \in {"closed", "open", "half"}
  /\ failures \in 0..Threshold
  /\ left \in 0..MaxBackoff /\ timeout \in Reset..MaxBackoff
  /\ opens \in 0..FloatLimit + 1
  /\ mem \in [Subkeys -> [age : 0..Ttl, val : Payloads \union {None}]]
  /\ disk \in {None, "good"}
  /\ count \in Nat
  /\ up \in BOOLEAN
  /\ pc \in [Requests -> {"idle", "fetch", "answered"}]
  /\ sub \in [Requests -> Subkeys]
  /\ ans \in [Requests -> Answers \union {None}]
  /\ restarts \in 0..MaxRestarts

Init ==
  /\ state = "closed" /\ failures = 0 /\ left = 0 /\ timeout = Reset /\ opens = 0
  /\ mem = [s \in Subkeys |-> NoEntry] /\ disk = None
  /\ count = 0 /\ up = TRUE
  /\ pc = [r \in Requests |-> "idle"]
  /\ sub = [r \in Requests |-> Main]
  /\ ans = [r \in Requests |-> None]
  /\ restarts = 0

-----------------------------------------------------------------------------
\* The circuit breaker

Smaller(a, b) == IF a < b THEN a ELSE b

\* Fault: an open breaker never lets a trial through.
NeverHalfOpen == state

\* The property state moves an open breaker on when its timeout has passed.
StateNow == IF state = "open" /\ left = 0 THEN "half" ELSE state

\* Fault: the failures before the success still count.
SuccessKeepsFailures ==
  /\ state' = "closed"
  /\ opens' = 0 /\ timeout' = Reset
  /\ UNCHANGED <<failures, left>>

RecordSuccess ==
  /\ state' = "closed"
  /\ failures' = 0 /\ opens' = 0 /\ timeout' = Reset
  /\ UNCHANGED left

Backoff(n) == Smaller(Reset * 2 ^ n, MaxBackoff)

\* The power of two is converted to a float, whatever the cap.
TripOverflows == opens >= FloatLimit

TripOpen ==
  /\ state' = "open"
  /\ opens' = Smaller(opens + 1, FloatLimit + 1)
  /\ timeout' = IF TripOverflows THEN timeout ELSE Backoff(opens)
  /\ left' = timeout'

Trips == state = "half" \/ failures + 1 >= Threshold

\* record_failure looks at _state, not at the property.
RecordFailure ==
  /\ failures' = Smaller(failures + 1, Threshold)
  /\ IF Trips THEN TripOpen ELSE UNCHANGED <<state, opens, timeout, left>>

-----------------------------------------------------------------------------
\* Caches

\* Fault: only the memory is asked.
StaleFromMemory(s) == IF mem[s].val # None THEN mem[s].val ELSE "empty"

\* The last payload of the slot, else the row on disk, else an empty payload.
StaleOrEmpty(s) ==
  IF mem[s].val # None THEN mem[s].val ELSE IF disk # None THEN disk ELSE "empty"

SetCached(s, payload) == mem' = [mem EXCEPT ![s] = [age |-> 0, val |-> payload]]

Finish(r, answer) ==
  /\ pc' = [pc EXCEPT ![r] = "answered"]
  /\ ans' = [ans EXCEPT ![r] = answer]

-----------------------------------------------------------------------------
\* run(): up to the await

\* Fault: the call that reaches the limit is not the last one.
QuotaExceededLate == count > Limit

QuotaExceeded == count >= Limit

AnswerCached(r, s) ==
  /\ mem[s].age < Ttl
  /\ Finish(r, mem[s].val)
  /\ UNCHANGED breaker

\* The quota path asks the slot of the feed, not that of the request.
AnswerOverQuota(r, s) ==
  /\ mem[s].age >= Ttl /\ QuotaExceeded
  /\ Finish(r, StaleOrEmpty(Main))
  /\ UNCHANGED breaker

AnswerOpen(r, s) ==
  /\ mem[s].age >= Ttl /\ ~QuotaExceeded
  /\ StateNow = "open"
  /\ Finish(r, StaleOrEmpty(s))
  /\ UNCHANGED breaker

BeginFetch(r, s) ==
  /\ mem[s].age >= Ttl /\ ~QuotaExceeded
  /\ StateNow # "open"
  /\ state' = StateNow
  /\ pc' = [pc EXCEPT ![r] = "fetch"]
  /\ UNCHANGED <<failures, left, timeout, opens, ans>>

Request(r, s) ==
  /\ pc[r] = "idle"
  /\ sub' = [sub EXCEPT ![r] = s]
  /\ \/ AnswerCached(r, s) \/ AnswerOverQuota(r, s)
     \/ AnswerOpen(r, s) \/ BeginFetch(r, s)
  /\ UNCHANGED <<cache, count, up, restarts>>

\* run(): after the await. A payload is recorded, cached and a success, even
\* one that reports an error; only a good one is written to disk, where a failure
\* goes unnoticed.
Fetched(r, payload) ==
  /\ pc[r] = "fetch"
  /\ count' = count + 1
  /\ disk' \in IF payload = "good" THEN {payload, disk} ELSE {disk}
  /\ SetCached(sub[r], payload)
  /\ RecordSuccess
  /\ Finish(r, payload)
  /\ UNCHANGED <<up, sub, restarts>>

FetchGood(r) == up /\ Fetched(r, "good")

FetchDegraded(r) == ~up /\ Degrades /\ Fetched(r, "degraded")

\* The handler of the exception; record_failure itself may raise.
FetchRaises(r) ==
  /\ ~up /\ opens < MaxOpens
  /\ pc[r] = "fetch"
  /\ RecordFailure
  /\ Finish(r, IF Trips /\ TripOverflows THEN "raised" ELSE StaleOrEmpty(sub[r]))
  /\ UNCHANGED <<cache, count, up, sub, restarts>>

\* The answer has been sent.
Leave(r) ==
  /\ pc[r] = "answered"
  /\ pc' = [pc EXCEPT ![r] = "idle"]
  /\ ans' = [ans EXCEPT ![r] = None]
  /\ UNCHANGED <<breaker, cache, count, up, sub, restarts>>

-----------------------------------------------------------------------------
\* circuit_state and circuit_open_until are read by the health routes.
Observe ==
  /\ state # StateNow
  /\ state' = StateNow
  /\ UNCHANGED <<failures, left, timeout, opens, cache, count, up, pc, sub, ans,
                 restarts>>

Tick ==
  /\ left' = IF left = 0 THEN 0 ELSE left - 1
  /\ mem' = [s \in Subkeys |-> [mem[s] EXCEPT !.age = Smaller(@ + 1, Ttl)]]
  /\ <<left, mem>>' # <<left, mem>>
  /\ UNCHANGED <<state, failures, timeout, opens, disk, count, up, pc, sub, ans,
                 restarts>>

NewDay ==
  /\ count > 0
  /\ count' = 0
  /\ UNCHANGED <<breaker, cache, up, pc, sub, ans, restarts>>

Upstream ==
  /\ up' = ~up
  /\ UNCHANGED <<breaker, cache, count, pc, sub, ans, restarts>>

\* Only SQLite survives; requests under way are lost.
Restart ==
  /\ restarts < MaxRestarts
  /\ restarts' = restarts + 1
  /\ state' = "closed" /\ failures' = 0 /\ left' = 0 /\ timeout' = Reset
  /\ opens' = 0
  /\ mem' = [s \in Subkeys |-> NoEntry]
  /\ pc' = [r \in Requests |-> "idle"]
  /\ ans' = [r \in Requests |-> None]
  /\ UNCHANGED <<disk, count, up, sub>>

FetchEnds(r) == FetchGood(r) \/ FetchDegraded(r) \/ FetchRaises(r)

Next ==
  \/ \E r \in Requests, s \in Subkeys : Request(r, s)
  \/ \E r \in Requests : FetchEnds(r) \/ Leave(r)
  \/ Observe \/ Tick \/ NewDay \/ Upstream \/ Restart

Spec == Init /\ [][Next]_vars

(***************************************************************************)
(* Fairness: time passes, also to the next day; fetches end (httpx has     *)
(* timeouts); the dashboard polls every feed again and again.              *)
(***************************************************************************)
Fairness ==
  /\ WF_vars(Tick) /\ WF_vars(NewDay)
  /\ \A r \in Requests : WF_vars(FetchEnds(r)) /\ WF_vars(Leave(r))
  /\ WF_vars(\E r \in Requests, s \in Subkeys : Request(r, s))

FairSpec == Spec /\ Fairness

-----------------------------------------------------------------------------
\* Once a good payload is on disk, nobody is answered with an empty payload or an
\* exception any more, through outages, restarts and an open breaker.
NeverEmptied ==
  [][\A r \in Requests :
       disk = "good" /\ pc[r] # "answered" /\ pc'[r] = "answered"
         => ans'[r] \in Payloads]_vars

\* ... nor with an error payload, when there is a good one ("TTL hit -> fetch ->
\* stale memory/disk -> empty error payload").
AnswersUsable ==
  [][\A r \in Requests :
       disk = "good" /\ pc[r] # "answered" /\ pc'[r] = "answered" => ans'[r] = "good"]_vars

\* The quota is checked before the fetch and recorded after it, and still no more
\* calls are recorded on a day than the limit and the requests that overlap it.
QuotaOvershoot ==
  count + Cardinality({r \in Requests : pc[r] = "fetch"})
    < Limit + Cardinality(Requests)

\* A closed breaker tolerates another failure before it opens, also when the
\* success that closed it was a late answer to an open one.
ClosedHasHeadroom == state = "closed" => failures < Threshold

\* After an outage the breaker closes for good, when the upstream answers and the
\* feed is asked for.
RecoversFromOutage == <>[]up => <>[](state = "closed")
=============================================================================
