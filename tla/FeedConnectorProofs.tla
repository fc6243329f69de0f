------------------------- MODULE FeedConnectorProofs -------------------------
(***************************************************************************)
(* FeedConnector for any number of requests and slots, any thresholds,     *)
(* quota and timeouts: the quota, the breaker and the answers, however the *)
(* fetches overlap and whatever order they end in.                         *)
(***************************************************************************)
EXTENDS FeedConnector, FiniteSetTheorems, TLAPS

\* The part of TypeOK the properties rest on. The timeouts are left out: that
\* they stay positive is a fact about powers of two.
Typed ==
  /\ state \in {"closed", "open", "half"}
  /\ failures \in 0..Threshold
  /\ opens \in Nat
  /\ mem \in [Subkeys -> [age : 0..Ttl, val : Payloads \union {None}]]
  /\ disk \in {None, "good"}
  /\ count \in Nat
  /\ pc \in [Requests -> {"idle", "fetch", "answered"}]
  /\ sub \in [Requests -> Subkeys]
  /\ ans \in [Requests -> Answers \union {None}]

\* An entry that has not expired holds a payload.
FreshHasPayload == \A s \in Subkeys : mem[s].age < Ttl => mem[s].val # None

Fetching == {r \in Requests : pc[r] = "fetch"}

IInv == Typed /\ FreshHasPayload /\ ClosedHasHeadroom

LEMMA InitInv == Init => IInv
BY FeedAssumption
   DEF Init, IInv, Typed, FreshHasPayload, ClosedHasHeadroom, NoEntry, Answers

\* What a stale answer is: a payload, once there is one on disk.
LEMMA StaleType ==
  ASSUME IInv, NEW s \in Subkeys
  PROVE  /\ StaleOrEmpty(s) \in Answers
         /\ disk = "good" => StaleOrEmpty(s) \in Payloads
<1>1. mem[s].val \in Payloads \union {None} /\ disk \in {None, "good"}
  BY DEF IInv, Typed
<1> QED BY <1>1, FeedAssumption DEF StaleOrEmpty, Answers, Payloads

\* One answer changes nothing about the other requests.
LEMMA FinishType ==
  ASSUME IInv, NEW r \in Requests, NEW a \in Answers, Finish(r, a)
  PROVE  /\ pc' \in [Requests -> {"idle", "fetch", "answered"}]
         /\ ans' \in [Requests -> Answers \union {None}]
         /\ ans'[r] = a
         /\ \A q \in Requests \ {r} : pc'[q] = pc[q] /\ ans'[q] = ans[q]
BY DEF Finish, IInv, Typed

LEMMA RequestInv ==
  ASSUME IInv, NEW r \in Requests, NEW s \in Subkeys, Request(r, s)
  PROVE  IInv' /\ UNCHANGED <<mem, disk, count>>
<1> USE DEF cache, breaker
<1>1. /\ sub' \in [Requests -> Subkeys]
      /\ UNCHANGED <<mem, disk, count>>
  BY DEF Request, IInv, Typed
<1>2. CASE AnswerCached(r, s) \/ AnswerOverQuota(r, s) \/ AnswerOpen(r, s)
  <2>1. UNCHANGED <<state, failures, left, timeout, opens>>
    BY <1>2 DEF AnswerCached, AnswerOverQuota, AnswerOpen
  <2>2. PICK a \in Answers : Finish(r, a)
    <3>1. CASE AnswerCached(r, s)
      <4>1. mem[s].val \in Answers
        BY <3>1 DEF AnswerCached, IInv, Typed, FreshHasPayload, Answers
      <4> QED BY <3>1, <4>1 DEF AnswerCached
    <3>2. CASE AnswerOverQuota(r, s)
      <4>1. StaleOrEmpty(Main) \in Answers BY StaleType, FeedAssumption
      <4> QED BY <3>2, <4>1 DEF AnswerOverQuota
    <3>3. CASE AnswerOpen(r, s)
      <4>1. StaleOrEmpty(s) \in Answers BY StaleType
      <4> QED BY <3>3, <4>1 DEF AnswerOpen
    <3> QED BY <1>2, <3>1, <3>2, <3>3
  <2>3. /\ pc' \in [Requests -> {"idle", "fetch", "answered"}]
        /\ ans' \in [Requests -> Answers \union {None}]
    BY <2>2, FinishType
  <2> QED BY <1>1, <2>1, <2>3 DEF IInv, Typed, FreshHasPayload, ClosedHasHeadroom
<1>3. CASE BeginFetch(r, s)
  <2>1. /\ state' \in {"closed", "open", "half"}
        /\ state' = "closed" => state = "closed"
    BY <1>3 DEF BeginFetch, StateNow, IInv, Typed
  <2>2. /\ pc' \in [Requests -> {"idle", "fetch", "answered"}]
        /\ UNCHANGED <<failures, opens, ans>>
    BY <1>3 DEF BeginFetch, IInv, Typed
  <2> QED BY <1>1, <2>1, <2>2 DEF IInv, Typed, FreshHasPayload, ClosedHasHeadroom
<1> QED BY <1>2, <1>3, <1>1 DEF Request

LEMMA FetchedInv ==
  ASSUME IInv, NEW r \in Requests, NEW p \in Payloads, Fetched(r, p)
  PROVE  IInv' /\ ans'[r] = p
<1>1. p \in Answers /\ Finish(r, p) BY DEF Answers, Fetched
<1>2. /\ pc' \in [Requests -> {"idle", "fetch", "answered"}]
      /\ ans' \in [Requests -> Answers \union {None}]
      /\ ans'[r] = p
  BY <1>1, FinishType
<1>3. /\ mem' \in [Subkeys -> [age : 0..Ttl, val : Payloads \union {None}]]
      /\ FreshHasPayload'
  <2>1. mem' = [mem EXCEPT ![sub[r]] = [age |-> 0, val |-> p]]
    BY DEF Fetched, SetCached
  <2>2. p # None /\ [age |-> 0, val |-> p] \in [age : 0..Ttl, val : Payloads \union {None}]
    BY FeedAssumption DEF Payloads
  <2> QED BY <2>1, <2>2 DEF IInv, Typed, FreshHasPayload
<1>4. /\ state' = "closed" /\ failures' = 0 /\ opens' = 0 /\ count' = count + 1
      /\ sub' = sub
  BY DEF Fetched, RecordSuccess
<1>5. disk' \in {None, "good"} BY DEF Fetched, IInv, Typed
<1>6. 0 \in 0..Threshold /\ 0 < Threshold BY FeedAssumption
<1> QED BY <1>2, <1>3, <1>4, <1>5, <1>6 DEF IInv, Typed, ClosedHasHeadroom

LEMMA FailureInv ==
  ASSUME IInv, NEW r \in Requests, FetchRaises(r)
  PROVE  IInv' /\ UNCHANGED <<mem, disk, count>>
<1> USE DEF cache
<1>1. UNCHANGED <<mem, disk, count, sub>> BY DEF FetchRaises
<1>2. PICK a \in Answers : Finish(r, a)
  <2>1. sub[r] \in Subkeys BY DEF IInv, Typed
  <2>2. StaleOrEmpty(sub[r]) \in Answers /\ "raised" \in Answers
    BY <2>1, StaleType DEF Answers
  <2> QED BY <2>2 DEF FetchRaises
<1>3. /\ pc' \in [Requests -> {"idle", "fetch", "answered"}]
      /\ ans' \in [Requests -> Answers \union {None}]
  BY <1>2, FinishType
<1>4. RecordFailure BY DEF FetchRaises
<1>5. failures' \in 0..Threshold
  BY <1>4, FeedAssumption DEF RecordFailure, Smaller, IInv, Typed
<1>6. /\ state' \in {"closed", "open", "half"} /\ opens' \in Nat
      /\ state' = "closed" => failures' < Threshold
  <2>1. CASE Trips
    <3>1. state' = "open" /\ opens' = Smaller(opens + 1, FloatLimit + 1)
      BY <1>4, <2>1 DEF RecordFailure, TripOpen
    <3> QED BY <3>1, FeedAssumption DEF Smaller, IInv, Typed
  <2>2. CASE ~Trips
    <3>1. UNCHANGED <<state, opens>> /\ failures' = failures + 1 /\ failures' < Threshold
      BY <1>4, <2>2, FeedAssumption DEF RecordFailure, Trips, Smaller, IInv, Typed
    <3> QED BY <3>1 DEF IInv, Typed
  <2> QED BY <2>1, <2>2
<1> QED
  BY <1>1, <1>3, <1>5, <1>6 DEF IInv, Typed, FreshHasPayload, ClosedHasHeadroom

\* Time passes: what expires does not come back.
LEMMA TickInv == ASSUME IInv, Tick PROVE IInv'
<1>1. /\ UNCHANGED <<state, failures, opens, disk, count, pc, sub, ans>>
      /\ mem' = [s \in Subkeys |-> [mem[s] EXCEPT !.age = Smaller(@ + 1, Ttl)]]
  BY DEF Tick
<1>2. ASSUME NEW s \in Subkeys
      PROVE  /\ mem'[s] \in [age : 0..Ttl, val : Payloads \union {None}]
             /\ mem'[s].age < Ttl => mem'[s].val # None
  <2>1. mem[s] \in [age : 0..Ttl, val : Payloads \union {None}]
        /\ (mem[s].age < Ttl => mem[s].val # None)
    BY DEF IInv, Typed, FreshHasPayload
  <2>2. mem'[s].age = Smaller(mem[s].age + 1, Ttl) /\ mem'[s].val = mem[s].val
    BY <1>1, <2>1
  <2>3. Smaller(mem[s].age + 1, Ttl) \in 0..Ttl
        /\ (Smaller(mem[s].age + 1, Ttl) < Ttl => mem[s].age < Ttl)
    BY <2>1, FeedAssumption DEF Smaller
  <2>4. mem'[s] = [mem[s] EXCEPT !.age = Smaller(mem[s].age + 1, Ttl)] BY <1>1
  <2> QED BY <2>1, <2>2, <2>3, <2>4
<1>3. mem' \in [Subkeys -> [age : 0..Ttl, val : Payloads \union {None}]]
  BY <1>1, <1>2
<1> QED BY <1>1, <1>2, <1>3 DEF IInv, Typed, FreshHasPayload, ClosedHasHeadroom

LEMMA NextInv == IInv /\ [Next]_vars => IInv'
<1> SUFFICES ASSUME IInv, [Next]_vars PROVE IInv'
  OBVIOUS
<1> USE DEF breaker, cache
<1>1. ASSUME NEW r \in Requests, NEW s \in Subkeys, Request(r, s) PROVE IInv'
  BY <1>1, RequestInv
<1>2. ASSUME NEW r \in Requests, FetchGood(r) \/ FetchDegraded(r) PROVE IInv'
  BY <1>2, FetchedInv DEF FetchGood, FetchDegraded, Payloads
<1>3. ASSUME NEW r \in Requests, FetchRaises(r) PROVE IInv'
  BY <1>3, FailureInv
<1>4. ASSUME NEW r \in Requests, Leave(r) PROVE IInv'
  BY <1>4 DEF Leave, IInv, Typed, FreshHasPayload, ClosedHasHeadroom
<1>5. CASE Observe
  BY <1>5 DEF Observe, StateNow, IInv, Typed, FreshHasPayload, ClosedHasHeadroom
<1>6. CASE Tick BY <1>6, TickInv
<1>7. CASE NewDay
  BY <1>7 DEF NewDay, IInv, Typed, FreshHasPayload, ClosedHasHeadroom
<1>8. CASE Upstream
  BY <1>8 DEF Upstream, IInv, Typed, FreshHasPayload, ClosedHasHeadroom
<1>9. CASE Restart
  BY <1>9, FeedAssumption
     DEF Restart, NoEntry, IInv, Typed, FreshHasPayload, ClosedHasHeadroom
<1>10. CASE UNCHANGED vars
  BY <1>10 DEF vars, IInv, Typed, FreshHasPayload, ClosedHasHeadroom
<1> QED
  BY <1>1, <1>2, <1>3, <1>4, <1>5, <1>6, <1>7, <1>8, <1>9, <1>10 DEF Next, FetchEnds

LEMMA InvHolds == Spec => []IInv
BY InitInv, NextInv, PTL DEF Spec

\* A breaker that is closed tolerates one more failure (CircuitBreaker), whatever
\* the order in which late successes and failures of overlapping fetches arrive.
THEOREM Headroom == Spec => []ClosedHasHeadroom
<1>1. IInv => ClosedHasHeadroom BY DEF IInv
<1> QED BY <1>1, InvHolds, PTL

-----------------------------------------------------------------------------
(* QuotaOvershoot: a fetch ends as at most one recorded call. *)

\* Whoever is answered stops fetching.
LEMMA OneFetchLess ==
  ASSUME IInv, NEW r \in Requests, pc[r] = "fetch", pc' = [pc EXCEPT ![r] = "answered"]
  PROVE  /\ Fetching' = Fetching \ {r} /\ r \in Fetching
         /\ Cardinality(Fetching') = Cardinality(Fetching) - 1
<1>1. Fetching' = Fetching \ {r} /\ r \in Fetching BY DEF Fetching, IInv, Typed
<1>2. IsFiniteSet(Fetching) BY FeedAssumption, FS_Subset DEF Fetching
<1> QED BY <1>1, <1>2, FS_RemoveElement

LEMMA FetchingBounded ==
  /\ Cardinality(Requests) \in Nat
  /\ Cardinality(Fetching) \in Nat /\ Cardinality(Fetching) <= Cardinality(Requests)
  /\ Cardinality(Fetching') \in Nat /\ Cardinality(Fetching') <= Cardinality(Requests)
<1>1. Fetching \subseteq Requests /\ Fetching' \subseteq Requests BY DEF Fetching
<1>2. IsFiniteSet(Requests) BY FeedAssumption
<1>3. IsFiniteSet(Fetching) /\ IsFiniteSet(Fetching') BY <1>1, <1>2, FS_Subset
<1> QED BY <1>1, <1>2, <1>3, FS_Subset, FS_CardinalityType

LEMMA NextQuota == IInv /\ QuotaOvershoot /\ [Next]_vars => QuotaOvershoot'
<1> SUFFICES ASSUME IInv, QuotaOvershoot, [Next]_vars PROVE QuotaOvershoot'
  OBVIOUS
<1> USE DEF breaker, cache
<1>0. /\ count \in Nat /\ Limit \in Nat \ {0}
      /\ count + Cardinality(Fetching) < Limit + Cardinality(Requests)
  BY FeedAssumption DEF IInv, Typed, QuotaOvershoot, Fetching
<1> SUFFICES count' + Cardinality(Fetching') < Limit + Cardinality(Requests)
  BY DEF QuotaOvershoot, Fetching
<1>1. ASSUME Fetching' = Fetching, count' = count
      PROVE  count' + Cardinality(Fetching') < Limit + Cardinality(Requests)
  BY <1>0, <1>1
<1>2. ASSUME NEW r \in Requests, NEW s \in Subkeys, Request(r, s)
      PROVE  count' + Cardinality(Fetching') < Limit + Cardinality(Requests)
  <2>1. CASE BeginFetch(r, s)
    <3>1. count' = count /\ count < Limit
      BY <1>0, <1>2, <2>1, FeedAssumption DEF BeginFetch, QuotaExceeded, Request
    <3> QED BY <1>0, <3>1, FetchingBounded
  <2>2. CASE AnswerCached(r, s) \/ AnswerOverQuota(r, s) \/ AnswerOpen(r, s)
    <3>1. pc[r] = "idle" /\ pc' = [pc EXCEPT ![r] = "answered"] /\ count' = count
      BY <1>2, <2>2 DEF Request, AnswerCached, AnswerOverQuota, AnswerOpen, Finish
    <3>2. Fetching' = Fetching BY <3>1 DEF Fetching, IInv, Typed
    <3> QED BY <1>1, <3>1, <3>2
  <2> QED BY <1>2, <2>1, <2>2 DEF Request
<1>3. ASSUME NEW r \in Requests, FetchEnds(r)
      PROVE  count' + Cardinality(Fetching') < Limit + Cardinality(Requests)
  <2>1. /\ pc[r] = "fetch" /\ pc' = [pc EXCEPT ![r] = "answered"]
        /\ count' = count + 1 \/ count' = count
    BY <1>3 DEF FetchEnds, FetchGood, FetchDegraded, Fetched, FetchRaises, Finish
  <2>2. Cardinality(Fetching') = Cardinality(Fetching) - 1 BY <2>1, OneFetchLess
  <2> QED BY <1>0, <2>1, <2>2, FetchingBounded
<1>4. ASSUME NEW r \in Requests, Leave(r)
      PROVE  count' + Cardinality(Fetching') < Limit + Cardinality(Requests)
  <2>1. Fetching' = Fetching /\ count' = count BY <1>4 DEF Leave, Fetching, IInv, Typed
  <2> QED BY <2>1, <1>1
<1>5. CASE Observe \/ Tick \/ Upstream \/ UNCHANGED vars
  <2>1. Fetching' = Fetching /\ count' = count
    BY <1>5 DEF Observe, Tick, Upstream, vars, Fetching
  <2> QED BY <2>1, <1>1
<1>6. CASE NewDay
  <2>1. count' = 0 /\ UNCHANGED pc BY <1>6 DEF NewDay
  <2> QED BY <1>0, <2>1, FetchingBounded DEF Fetching
<1>7. CASE Restart
  <2>1. Fetching' = {} /\ count' = count BY <1>7 DEF Restart, Fetching
  <2> QED BY <1>0, <2>1, FetchingBounded, FS_EmptySet
<1> QED BY <1>2, <1>3, <1>4, <1>5, <1>6, <1>7 DEF Next

\* The daily quota (QuotaMonitor, checked before the await and recorded after it)
\* is overrun by no more calls than can overlap, through restarts and failures.
THEOREM QuotaHolds == Spec => []QuotaOvershoot
<1>1. Init => QuotaOvershoot
  <2> SUFFICES ASSUME Init PROVE QuotaOvershoot
    OBVIOUS
  <2>1. Fetching = {} /\ count = 0 BY DEF Init, Fetching
  <2> QED BY <2>1, FetchingBounded, FS_EmptySet, FeedAssumption DEF QuotaOvershoot, Fetching
<1> QED BY <1>1, InvHolds, NextQuota, PTL DEF Spec

-----------------------------------------------------------------------------
(* NeverEmptied *)

\* Once a good payload is on disk nobody is answered with less than a payload,
\* provided the breaker is not opened so often that 2 ** opens overflows a float
\* (FeedConnector.run, _stale_or_empty; the proviso is a finding).
THEOREM AnswersNeverEmpty ==
  ASSUME MaxOpens <= FloatLimit
  PROVE  Spec => NeverEmptied
<1> DEFINE Answered == \A r \in Requests :
             disk = "good" /\ pc[r] # "answered" /\ pc'[r] = "answered" => ans'[r] \in Payloads
<1>1. IInv /\ [Next]_vars => [Answered]_vars
  <2> SUFFICES ASSUME IInv, Next, NEW q \in Requests,
                      disk = "good", pc[q] # "answered", pc'[q] = "answered"
               PROVE  ans'[q] \in Payloads
    OBVIOUS
  <2> USE DEF breaker, cache
  <2>1. ASSUME NEW r \in Requests, NEW a \in Answers, Finish(r, a),
               disk = "good" => a \in Payloads
        PROVE  ans'[q] \in Payloads
    BY <2>1, FinishType
  <2>2. ASSUME NEW r \in Requests, NEW s \in Subkeys, Request(r, s) PROVE ans'[q] \in Payloads
    <3>1. CASE AnswerCached(r, s)
      <4>1. mem[s].val \in Payloads BY <3>1 DEF AnswerCached, IInv, Typed, FreshHasPayload
      <4> QED BY <2>1, <3>1, <4>1 DEF AnswerCached, Answers
    <3>2. CASE AnswerOverQuota(r, s)
      <4>1. StaleOrEmpty(Main) \in Payloads BY StaleType, FeedAssumption
      <4> QED BY <2>1, <3>2, <4>1 DEF AnswerOverQuota, Answers
    <3>3. CASE AnswerOpen(r, s)
      <4>1. StaleOrEmpty(s) \in Payloads BY StaleType
      <4> QED BY <2>1, <3>3, <4>1 DEF AnswerOpen, Answers
    <3>4. CASE BeginFetch(r, s)
      <4>1. pc'[q] = pc[q] \/ pc'[q] = "fetch" BY <3>4 DEF BeginFetch, IInv, Typed
      <4> QED BY <4>1
    <3> QED BY <2>2, <3>1, <3>2, <3>3, <3>4 DEF Request
  <2>3. ASSUME NEW r \in Requests, FetchEnds(r) PROVE ans'[q] \in Payloads
    <3>1. CASE FetchGood(r) \/ FetchDegraded(r)
      <4>1. \E p \in Payloads : Finish(r, p)
        BY <3>1 DEF FetchGood, FetchDegraded, Fetched, Payloads
      <4> QED BY <2>1, <4>1 DEF Answers
    <3>2. CASE FetchRaises(r)
      <4>1. ~TripOverflows BY <3>2, FeedAssumption DEF FetchRaises, TripOverflows, IInv, Typed
      <4>2. sub[r] \in Subkeys BY DEF IInv, Typed
      <4>3. StaleOrEmpty(sub[r]) \in Payloads BY <4>2, StaleType
      <4>4. Finish(r, StaleOrEmpty(sub[r])) BY <3>2, <4>1 DEF FetchRaises
      <4> QED BY <2>1, <4>3, <4>4 DEF Answers
    <3> QED BY <2>3, <3>1, <3>2 DEF FetchEnds
  <2>4. CASE Observe \/ Tick \/ NewDay \/ Upstream
    BY <2>4 DEF Observe, Tick, NewDay, Upstream
  <2>5. ASSUME NEW r \in Requests, Leave(r) PROVE FALSE
    BY <2>5 DEF Leave, IInv, Typed
  <2>6. CASE Restart BY <2>6 DEF Restart
  <2> QED BY <2>2, <2>3, <2>4, <2>5, <2>6 DEF Next
<1>2. [][Answered]_vars => NeverEmptied BY DEF NeverEmptied
<1> HIDE DEF Answered
<1> QED BY <1>1, <1>2, InvHolds, PTL DEF Spec
=============================================================================
