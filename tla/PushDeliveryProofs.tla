-------------------------- MODULE PushDeliveryProofs --------------------------
(***************************************************************************)
(* PushDelivery for any clients, any sizes of history and queues with      *)
(* HistoryMax <= QueueMax, any number of events and restarts. The numbers  *)
(* of the events of one process are its ids moved by the events of the     *)
(* processes before (Earlier); history and queues ascend in both.          *)
(***************************************************************************)
EXTENDS PushDelivery, FiniteSetTheorems, SequenceTheorems, TLAPS

Earlier == total - lastId

Typed ==
  /\ TypeOK
  /\ queue \in [Clients -> Seq(Events)]
  /\ lastSeen \in [Clients -> Events \union {NoEvent}]
  /\ url \in [Clients -> Events \union {NoEvent}]
  /\ got \in [Clients -> SUBSET Nat] /\ excused \in [Clients -> SUBSET Nat]
  /\ reused \in [Clients -> BOOLEAN]

\* The history is the end of what this process has triggered.
HistoryEnds ==
  /\ Len(history) = IF lastId < HistoryMax THEN lastId ELSE HistoryMax
  /\ \A i \in 1..Len(history) :
       /\ history[i].id = lastId - Len(history) + i
       /\ history[i].number = total - Len(history) + i

\* What waits for a client was triggered by this process, in order.
QueueAscends(c) ==
  /\ c \notin online => queue[c] = <<>>
  /\ \A i \in 1..Len(queue[c]) :
       queue[c][i].number = Earlier + queue[c][i].id /\ queue[c][i].number <= total
  /\ \A i, j \in 1..Len(queue[c]) : i < j => queue[c][i].number < queue[c][j].number

\* An event a client may name: its id means it as long as its process lives.
Known(event) ==
  /\ event.number <= total
  /\ event.number > Earlier => event.number = Earlier + event.id

\* Whoever has received an event has no open claim to one before it.
Settled(c, event) == \A n \in 1..event.number : n \in got[c] \union excused[c]

\* What waits comes after what was received, but for a stream with an old URL.
Later(c) ==
  ~reused[c] => \A i \in 1..Len(queue[c]) : queue[c][i].number > lastSeen[c].number

ClientInv(c) ==
  /\ QueueAscends(c) /\ Later(c)
  /\ Known(lastSeen[c]) /\ Known(url[c])
  /\ Settled(c, lastSeen[c]) /\ Settled(c, url[c])

IInv == Typed /\ HistoryEnds /\ (\A c \in Clients : ClientInv(c)) /\ GapsExplained

LEMMA InitInv == Init => IInv
<1> SUFFICES ASSUME Init PROVE IInv
  OBVIOUS
<1>1. Typed
  BY HistoryFits, PushBounds DEF Init, Typed, TypeOK
<1>2. HistoryEnds
  BY HistoryFits DEF Init, HistoryEnds
<1>3. ASSUME NEW c \in Clients PROVE ClientInv(c)
  BY <1>3 DEF Init, ClientInv, QueueAscends, Later, Known, Settled, NoEvent, Earlier
<1>4. GapsExplained
  BY DEF Init, GapsExplained
<1> QED BY <1>1, <1>2, <1>3, <1>4 DEF IInv

\* The types of an event, and of what a client may name.
LEMMA EventType ==
  ASSUME Typed
  PROVE  /\ total \in Nat /\ lastId \in Nat /\ lastId <= total /\ Earlier \in Nat
         /\ history \in Seq(Events)
         /\ \A c \in Clients : queue[c] \in Seq(Events)
         /\ \A e \in Events : e.id \in Nat \ {0} /\ e.number \in Nat \ {0}
         /\ \A e \in Events \union {NoEvent} : e.id \in Nat /\ e.number \in Nat
<1>1. total \in 0..MaxEvents /\ lastId \in 0..total BY DEF Typed, TypeOK
<1>2. total \in Nat /\ lastId \in Nat /\ lastId <= total /\ Earlier \in Nat
  BY <1>1, PushBounds DEF Earlier
<1>3. history \in Seq(Events) /\ \A c \in Clients : queue[c] \in Seq(Events)
  BY DEF Typed, TypeOK
<1>4. \A e \in Events : e.id \in Nat \ {0} /\ e.number \in Nat \ {0}
  BY PushBounds DEF Events
<1>5. NoEvent.id \in Nat /\ NoEvent.number \in Nat BY DEF NoEvent
<1> QED BY <1>2, <1>3, <1>4, <1>5

\* What is where after an event was added at the end.
LEMMA Appended ==
  ASSUME NEW s \in Seq(Events), NEW e \in Events
  PROVE  /\ Append(s, e) \in Seq(Events) /\ Len(s) \in Nat
         /\ Len(Append(s, e)) = Len(s) + 1
         /\ Append(s, e)[Len(s) + 1] = e
         /\ \A i \in 1..Len(s) : Append(s, e)[i] = s[i]
BY AppendProperties

LEMMA QueuedNumbers ==
  ASSUME NEW c \in Clients, queue[c] \in Seq(Events)
  PROVE  \A n : n \in Queued(c) <=> \E i \in 1..Len(queue[c]) : queue[c][i].number = n
<1>1. DOMAIN queue[c] = 1..Len(queue[c]) OBVIOUS
<1>2. ToSet(queue[c]) = {queue[c][i] : i \in 1..Len(queue[c])} BY <1>1 DEF ToSet
<1> QED BY <1>2 DEF Queued

-----------------------------------------------------------------------------
(* trigger_event *)

LEMMA RememberKeeps ==
  ASSUME IInv, NEW event \in Events,
         lastId' = lastId + 1, total' = total + 1,
         event = [id |-> lastId', number |-> total'],
         history' = Remember(event)
  PROVE  HistoryEnds' /\ history' \in Seq(Events) /\ Len(history') <= HistoryMax
<1> DEFINE old == IF Len(history) < HistoryMax THEN history ELSE Tail(history)
<1>0. /\ total \in Nat /\ lastId \in Nat /\ lastId <= total
      /\ history \in Seq(Events) /\ Len(history) \in Nat
      /\ HistoryMax \in Nat \ {0}
      /\ Len(history) = IF lastId < HistoryMax THEN lastId ELSE HistoryMax
      /\ \A i \in 1..Len(history) :
           /\ history[i].id = lastId - Len(history) + i
           /\ history[i].number = total - Len(history) + i
  BY EventType, HistoryFits DEF IInv, HistoryEnds
<1>1. /\ old \in Seq(Events) /\ Len(old) \in Nat
      /\ Len(old) = IF lastId < HistoryMax THEN lastId ELSE HistoryMax - 1
      /\ \A i \in 1..Len(old) :
           /\ old[i].id = lastId - Len(old) + i
           /\ old[i].number = total - Len(old) + i
  <2>1. CASE Len(history) < HistoryMax
    <3>1. old = history BY <2>1
    <3>2. lastId < HistoryMax /\ Len(history) = lastId BY <1>0, <2>1
    <3> HIDE DEF old
    <3> QED BY <1>0, <3>1, <3>2
  <2>2. CASE ~(Len(history) < HistoryMax)
    <3>1. Len(history) = HistoryMax /\ ~(lastId < HistoryMax) /\ history # <<>> BY <1>0, <2>2
    <3>2. /\ Tail(history) \in Seq(Events) /\ Len(Tail(history)) = HistoryMax - 1
          /\ \A i \in 1..(HistoryMax - 1) : Tail(history)[i] = history[i + 1]
      BY <1>0, <3>1, HeadTailProperties
    <3>3. \A i \in 1..(HistoryMax - 1) :
            /\ i + 1 \in 1..Len(history)
            /\ lastId - Len(history) + (i + 1) = lastId - (HistoryMax - 1) + i
            /\ total - Len(history) + (i + 1) = total - (HistoryMax - 1) + i
      BY <1>0, <3>1
    <3>4. old = Tail(history) BY <2>2
    <3> DEFINE m == HistoryMax - 1
    <3>5. /\ m \in Nat /\ Len(old) = m /\ old \in Seq(Events)
          /\ \A i \in 1..m : old[i] = history[i + 1] BY <1>0, <3>2, <3>4
    <3>6. \A i \in 1..m : /\ history[i + 1].id = lastId - m + i
                          /\ history[i + 1].number = total - m + i
      BY <1>0, <3>3
    <3>7. \A i \in 1..m : old[i].id = lastId - m + i /\ old[i].number = total - m + i
      BY <3>5, <3>6
    <3> HIDE DEF old
    <3> QED BY <3>1, <3>5, <3>7
  <2> QED BY <2>1, <2>2
<1>2. history' = Append(old, event) BY DEF Remember
<1> HIDE DEF old
<1>3. /\ history' \in Seq(Events) /\ Len(history') = Len(old) + 1
      /\ history'[Len(old) + 1] = event
      /\ \A i \in 1..Len(old) : history'[i] = old[i]
  <2>1. old \in Seq(Events) /\ event \in Events BY <1>1
  <2>2. /\ Append(old, event) \in Seq(Events)
        /\ Len(Append(old, event)) = Len(old) + 1
        /\ Append(old, event)[Len(old) + 1] = event
        /\ \A i \in 1..Len(old) : Append(old, event)[i] = old[i]
    BY <2>1, Appended
  <2> QED BY <1>2, <2>2, Zenon
<1>4. Len(history') = IF lastId' < HistoryMax THEN lastId' ELSE HistoryMax
  BY <1>0, <1>1, <1>3
<1>5. \A i \in 1..Len(history') :
        /\ history'[i].id = lastId' - Len(history') + i
        /\ history'[i].number = total' - Len(history') + i
  <2> SUFFICES ASSUME NEW i \in 1..Len(history')
               PROVE  /\ history'[i].id = lastId' - Len(history') + i
                      /\ history'[i].number = total' - Len(history') + i
    OBVIOUS
  <2>1. CASE i = Len(old) + 1
    <3>1. history'[i].id = lastId + 1 /\ history'[i].number = total + 1 BY <1>3, <2>1
    <3>2. Len(history') = i BY <1>3, <2>1
    <3> QED BY <1>0, <1>1, <3>1, <3>2
  <2>2. CASE i # Len(old) + 1
    <3>1. i \in 1..Len(old) BY <1>1, <1>3, <2>2
    <3>2. history'[i].id = lastId - Len(old) + i /\ history'[i].number = total - Len(old) + i
      BY <1>1, <1>3, <3>1
    <3>3. /\ lastId' - Len(history') = lastId - Len(old)
          /\ total' - Len(history') = total - Len(old)
      <4>1. Len(history') = Len(old) + 1 /\ Len(old) \in Nat BY <1>1, <1>3
      <4>2. total \in Nat /\ lastId \in Nat BY <1>0
      <4> QED BY <4>1, <4>2
    <3> QED BY <3>2, <3>3
  <2> QED BY <2>1, <2>2
<1>6. Len(history') <= HistoryMax BY <1>0, <1>4
<1> QED BY <1>3, <1>4, <1>5, <1>6 DEF HistoryEnds

\* A stream that gets the event has it last; the others keep what they had.
LEMMA TriggerInv == ASSUME IInv, TriggerEvent PROVE IInv'
<1> DEFINE event == [id |-> lastId', number |-> total']
<1>0. /\ total \in Nat /\ lastId \in Nat /\ lastId <= total /\ Earlier \in Nat
      /\ total' = total + 1 /\ lastId' = lastId + 1 /\ total' \in 0..MaxEvents
      /\ MaxEvents \in Nat
  BY EventType, PushBounds DEF IInv, Typed, TypeOK, TriggerEvent
<1>1. event \in Events /\ Earlier' = Earlier /\ event.number = Earlier + event.id
      /\ event.number = total'
  BY <1>0 DEF Events, Earlier
<1>2. HistoryEnds' /\ history' \in Seq(Events) /\ Len(history') <= HistoryMax
  BY <1>1, RememberKeeps DEF TriggerEvent
<1>3. ASSUME NEW c \in Clients
      PROVE  \/ /\ c \in online /\ Len(queue[c]) < QueueMax
                /\ queue'[c] = Append(queue[c], event) /\ excused'[c] = excused[c]
             \/ /\ queue'[c] = queue[c]
                /\ c \in online => excused'[c] = excused[c] \union {total'}
                /\ c \notin online => excused'[c] = excused[c]
  <2>1. Len(queue[c]) \in Nat /\ Len(queue[c]) <= QueueMax /\ QueueMax \in Nat
    BY EventType, HistoryFits DEF IInv, Typed, TypeOK
  <2> QED BY <2>1 DEF TriggerEvent, HasRoom
<1> HIDE DEF event
<1>4. ASSUME NEW c \in Clients
      PROVE  /\ queue'[c] \in Seq(Events) /\ Len(queue'[c]) <= QueueMax
             /\ excused'[c] \in SUBSET Nat /\ excused[c] \subseteq excused'[c]
  <2>1. /\ queue[c] \in Seq(Events) /\ Len(queue[c]) <= QueueMax /\ excused[c] \in SUBSET Nat
        /\ QueueMax \in Nat
    BY HistoryFits DEF IInv, Typed, TypeOK
  <2>2. CASE queue'[c] = Append(queue[c], event)
    BY <1>1, <1>3, <2>1, <2>2, Appended
  <2>3. CASE queue'[c] = queue[c] BY <1>0, <1>3, <2>1, <2>3
  <2> QED BY <1>3, <2>2, <2>3
<1>5. Typed'
  <2>1. queue' \in [Clients -> Seq(Events)] /\ excused' \in [Clients -> SUBSET Nat]
    BY <1>4 DEF TriggerEvent
  <2> QED BY <1>0, <1>2, <1>4, <2>1 DEF TriggerEvent, IInv, Typed, TypeOK, client
<1>6. ASSUME NEW c \in Clients PROVE ClientInv(c)'
  <2>0. /\ QueueAscends(c) /\ Later(c) /\ Known(lastSeen[c]) /\ Known(url[c])
        /\ Settled(c, lastSeen[c]) /\ Settled(c, url[c])
        /\ queue[c] \in Seq(Events)
        /\ UNCHANGED <<lastSeen, url, got, reused, online>>
    BY <1>6 DEF IInv, ClientInv, Typed, TypeOK, TriggerEvent, client
  <2>1. /\ lastSeen[c].number \in Nat /\ url[c].number \in Nat
        /\ lastSeen[c].id \in Nat /\ url[c].id \in Nat
    BY EventType DEF IInv, Typed
  <2>2. (Known(lastSeen[c]) /\ Known(url[c]))'
    BY <1>0, <1>1, <2>0, <2>1 DEF Known
  <2>3. (Settled(c, lastSeen[c]) /\ Settled(c, url[c]))'
    BY <1>4, <2>0 DEF Settled
  <2>4. QueueAscends(c)' /\ Later(c)'
    <3>1. CASE queue'[c] = queue[c]
      <4>1. \A i \in 1..Len(queue[c]) : queue[c][i].number \in Nat
        BY <2>0, EventType DEF IInv
      <4> QED BY <1>0, <1>1, <2>0, <3>1, <4>1 DEF QueueAscends, Later
    <3>2. CASE c \in online /\ queue'[c] = Append(queue[c], event)
      <4> DEFINE q == queue[c]
                 r == queue'[c]
      <4>1. /\ q \in Seq(Events) /\ Len(q) \in Nat /\ Len(r) = Len(q) + 1
            /\ r[Len(q) + 1] = event /\ \A i \in 1..Len(q) : r[i] = q[i]
        BY <1>1, <2>0, <3>2, Appended
      <4>2. \A i \in 1..Len(q) : q[i].number \in Nat /\ q[i].number <= total
                                 /\ q[i].number = Earlier + q[i].id
        <5>1. Typed BY DEF IInv
        <5>2. \A i \in 1..Len(q) : q[i] \in Events BY <4>1, ElementOfSeq
        <5>3. \A i \in 1..Len(q) : q[i].number \in Nat BY <5>1, <5>2, EventType
        <5> QED BY <2>0, <5>3 DEF QueueAscends
      <4>3. \A i, j \in 1..Len(q) : i < j => q[i].number < q[j].number
        BY <2>0 DEF QueueAscends
      <4>4. ~reused[c] => \A i \in 1..Len(q) : q[i].number > lastSeen[c].number
        BY <2>0 DEF Later
      <4>5. lastSeen[c].number <= total BY <2>0 DEF Known
      <4> HIDE DEF q, r
      <4>6. \A i \in 1..Len(r) : i \in 1..Len(q) \/ i = Len(q) + 1 BY <4>1
      <4>7. \A i \in 1..Len(r) : r[i].number = Earlier + r[i].id /\ r[i].number <= total + 1
        BY <1>0, <1>1, <4>1, <4>2, <4>6
      <4>8. \A i, j \in 1..Len(r) : i < j => r[i].number < r[j].number
        <5> SUFFICES ASSUME NEW i \in 1..Len(r), NEW j \in 1..Len(r), i < j
                     PROVE  r[i].number < r[j].number
          OBVIOUS
        <5>1. i \in 1..Len(q) BY <4>1
        <5>2. CASE j \in 1..Len(q) BY <4>1, <4>3, <5>1, <5>2
        <5>3. CASE j = Len(q) + 1 BY <1>0, <1>1, <4>1, <4>2, <5>1, <5>3
        <5> QED BY <4>6, <5>2, <5>3
      <4>9. ~reused[c] => \A i \in 1..Len(r) : r[i].number > lastSeen[c].number
        BY <1>0, <1>1, <2>1, <4>1, <4>4, <4>5, <4>6
      <4> QED BY <1>0, <1>1, <2>0, <3>2, <4>7, <4>8, <4>9 DEF QueueAscends, Later, r
    <3> QED BY <1>3, <3>1, <3>2
  <2> QED BY <2>2, <2>3, <2>4 DEF ClientInv
<1>7. GapsExplained'
  <2> SUFFICES ASSUME NEW c \in Clients, c \in online, NEW n \in 1..total'
               PROVE  n \in got[c] \union Queued(c)' \union excused'[c]
    BY DEF GapsExplained, TriggerEvent, IInv, Typed, TypeOK
  <2>0. queue[c] \in Seq(Events) BY DEF IInv, Typed, TypeOK
  <2>1. CASE n = total'
    <3>1. CASE queue'[c] = Append(queue[c], event)
      <4>1. event \in ToSet(queue'[c])
        <5>1. Len(queue[c]) + 1 \in DOMAIN queue'[c] /\ queue'[c][Len(queue[c]) + 1] = event
          BY <1>1, <2>0, <3>1, Appended
        <5> QED BY <5>1 DEF ToSet
      <4> QED BY <1>1, <2>1, <4>1 DEF Queued
    <3> QED BY <1>3, <2>1, <3>1
  <2>2. CASE n # total'
    <3>1. n \in got[c] \union Queued(c) \union excused[c]
      BY <1>0, <2>2 DEF IInv, GapsExplained
    <3>2. CASE n \in Queued(c)
      <4>1. PICK i \in DOMAIN queue[c] : queue[c][i].number = n
        BY <3>2 DEF Queued, ToSet
      <4>2. i \in DOMAIN queue'[c] /\ queue'[c][i] = queue[c][i]
        <5>0. i \in 1..Len(queue[c]) BY <2>0, <4>1
        <5>1. CASE queue'[c] = queue[c] BY <4>1, <5>1
        <5>2. CASE queue'[c] = Append(queue[c], event)
          BY <1>1, <2>0, <5>0, <5>2, Appended
        <5> QED BY <1>3, <5>1, <5>2
      <4> QED BY <4>1, <4>2 DEF Queued, ToSet
    <3> QED BY <1>4, <3>1, <3>2
  <2> QED BY <2>1, <2>2
<1> QED BY <1>2, <1>5, <1>6, <1>7 DEF IInv

-----------------------------------------------------------------------------
(* sse_events *)

\* The replay is the end of the history after the id a client names: nothing that
\* it asks for and the history still has is left out, nothing older is sent.
LEMMA MissedEnds ==
  ASSUME IInv, NEW asked \in Nat
  PROVE  /\ Missed(asked) \in Seq(Events)
         /\ Len(Missed(asked)) \in 0..Len(history)
         /\ \A i \in 1..Len(Missed(asked)) :
              LET event == Missed(asked)[i]
              IN  /\ event.id = lastId - Len(Missed(asked)) + i
                  /\ event.number = total - Len(Missed(asked)) + i
                  /\ event.id > asked
         /\ asked > 0 => \/ Len(Missed(asked)) = Len(history)
                         \/ lastId - Len(Missed(asked)) <= asked
<1> DEFINE L == Len(history)
           old == {i \in DOMAIN history : history[i].id <= asked}
           m == IF asked <= lastId - L THEN 0
                ELSE IF asked >= lastId THEN L ELSE asked - (lastId - L)
           q == Missed(asked)
<1>1. /\ total \in Nat /\ lastId \in Nat /\ lastId <= total
      /\ history \in Seq(Events) /\ L \in Nat /\ L <= lastId
      /\ \A i \in 1..L : history[i].id = lastId - L + i /\ history[i].number = total - L + i
  BY EventType, HistoryFits DEF IInv, HistoryEnds
<1>2. CASE ~(asked > 0)
  <2>1. q = <<>> BY <1>2 DEF Missed
  <2> HIDE DEF q
  <2>2. q \in Seq(Events) /\ Len(q) = 0 BY <2>1
  <2> QED BY <1>1, <1>2, <2>2 DEF q
<1>3. CASE asked > 0
  <2>1. m \in 0..L /\ lastId - L \in Nat BY <1>1
  <2>2. old = 1..m
    <3>1. old = {i \in 1..L : lastId - L + i <= asked} BY <1>1
    <3> HIDE DEF old, L
    <3>2. L \in Nat /\ lastId \in Nat /\ L <= lastId BY <1>1
    <3>3. \A i \in 1..L : lastId - L + i <= asked <=> i <= m BY <3>2
    <3> HIDE DEF m
    <3> QED BY <2>1, <3>1, <3>2, <3>3
  <2>3. Cardinality(old) = m
    <3> HIDE DEF old, m
    <3>1. 0 \in Int /\ m \in Int /\ m >= 0 BY <1>1, <2>1
    <3>2. Cardinality(1..m) = IF 1 > m THEN 0 ELSE m - 1 + 1 BY <3>1, FS_Interval
    <3> QED BY <2>2, <3>1, <3>2
  <2>4. q = SubSeq(history, m + 1, L)
    BY <1>3, <2>3 DEF Missed, After
  <2>5. /\ q \in Seq(Events) /\ Len(q) = L - m
        /\ \A i \in 1..Len(q) : q[i] = history[m + i]
    <3> HIDE DEF m, q
    <3>1. m + 1 \in Int /\ L \in Int /\ \A i \in (m + 1)..L : history[i] \in Events
      BY <1>1, <2>1
    <3>2. /\ SubSeq(history, m + 1, L) \in Seq(Events)
          /\ Len(SubSeq(history, m + 1, L)) = IF m + 1 <= L THEN L - (m + 1) + 1 ELSE 0
          /\ \A i \in 1..(L - (m + 1) + 1) :
               SubSeq(history, m + 1, L)[i] = history[m + 1 + i - 1]
      <4> HIDE DEF L
      <4> QED BY <3>1, SubSeqProperties
    <3>3. Len(q) = L - m BY <1>1, <2>1, <2>4, <3>2
    <3>4. ASSUME NEW i \in 1..Len(q) PROVE q[i] = history[m + i]
      <4>1. i \in 1..(L - (m + 1) + 1) /\ m + 1 + i - 1 = m + i BY <1>1, <2>1, <3>3
      <4> QED BY <2>4, <3>2, <4>1
    <3> QED BY <2>4, <3>2, <3>3, <3>4
  <2>6. /\ asked > lastId - L + m => m = L
        /\ m < L => asked <= lastId - L + m
        /\ m = 0 \/ lastId - L + m <= asked
    <3> HIDE DEF L
    <3>1. L \in Nat /\ lastId \in Nat /\ L <= lastId BY <1>1
    <3> QED BY <3>1
  <2> HIDE DEF m, q
  <2>7. ASSUME NEW i \in 1..Len(q)
        PROVE  /\ q[i].id = lastId - Len(q) + i
               /\ q[i].number = total - Len(q) + i
               /\ q[i].id > asked
    <3>1. m + i \in 1..L /\ m < L BY <1>1, <2>1, <2>5
    <3>2. q[i].id = lastId - L + (m + i) /\ q[i].number = total - L + (m + i)
      BY <1>1, <2>5, <3>1
    <3>3. Len(q) = L - m BY <2>5
    <3> HIDE DEF L
    <3>4. L \in Nat /\ lastId \in Nat /\ total \in Nat /\ m \in Nat /\ i \in Nat \ {0}
      BY <1>1, <2>1, <2>5
    <3>5. /\ lastId - L + (m + i) = lastId - Len(q) + i
          /\ total - L + (m + i) = total - Len(q) + i
      BY <3>3, <3>4
    <3>6. lastId - L + (m + i) > asked
      <4>1. ~(asked > lastId - L + m) BY <2>6, <3>1, <3>4
      <4> QED BY <3>4, <4>1
    <3> QED BY <3>2, <3>5, <3>6
  <2>8. Len(q) \in 0..L /\ (Len(q) = L \/ lastId - Len(q) <= asked)
    <3> HIDE DEF L
    <3>1. L \in Nat /\ lastId \in Nat BY <1>1
    <3> QED BY <2>1, <2>5, <2>6, <3>1
  <2> QED BY <1>3, <2>5, <2>7, <2>8 DEF q
<1> QED BY <1>2, <1>3

\* What connecting does to one client: its claims are what it names and the rest
\* of the history, and all else is excused.
LEMMA ConnectInv ==
  ASSUME IInv, NEW c \in Clients, NEW event, event \in {lastSeen[c], url[c]},
         NEW old \in BOOLEAN, reused' = [reused EXCEPT ![c] = old],
         event = lastSeen[c] \/ old, Connect(c, event),
         UNCHANGED <<lastId, history, lastSeen, restarts, total, got>>
  PROVE  IInv'
<1> DEFINE q == Missed(event.id)
<1>0. /\ total \in Nat /\ lastId \in Nat /\ lastId <= total /\ Earlier \in Nat
      /\ Earlier' = Earlier /\ event \in Events \union {NoEvent}
      /\ event.id \in Nat /\ event.number \in Nat
      /\ HistoryMax \in Nat \ {0} /\ QueueMax \in Nat \ {0} /\ HistoryMax <= QueueMax
      /\ reused \in [Clients -> BOOLEAN]
      /\ queue \in [Clients -> Seq(Events)] /\ excused \in [Clients -> SUBSET Nat]
      /\ url \in [Clients -> Events \union {NoEvent}]
  BY EventType, HistoryFits DEF IInv, Typed, Earlier
<1>1. /\ q \in Seq(Events) /\ Len(q) \in 0..Len(history)
      /\ \A i \in 1..Len(q) :
           q[i].id = lastId - Len(q) + i /\ q[i].number = total - Len(q) + i /\ q[i].id > event.id
      /\ event.id > 0 => Len(q) = Len(history) \/ lastId - Len(q) <= event.id
  BY <1>0, MissedEnds
<1>2. /\ queue'[c] = q /\ url'[c] = event
      /\ excused'[c] = excused[c] \union (NoClaim(event) \ got[c])
      /\ online' = online \union {c}
      /\ \A d \in Clients \ {c} : /\ queue'[d] = queue[d] /\ url'[d] = url[d]
                                  /\ excused'[d] = excused[d]
  BY <1>0 DEF Connect
<1>3. Len(history) \in Nat /\ Len(history) <= HistoryMax /\ Len(history) <= lastId
      /\ (lastId < HistoryMax => Len(history) = lastId)
      /\ (~(lastId < HistoryMax) => Len(history) = HistoryMax)
  BY <1>0 DEF IInv, HistoryEnds
<1> HIDE DEF q
<1>4. Typed'
  <2>1. queue' \in [Clients -> Seq(Events)] /\ url' \in [Clients -> Events \union {NoEvent}]
    BY <1>0, <1>1, <1>2 DEF Connect
  <2>2. excused' \in [Clients -> SUBSET Nat]
    <3>1. NoClaim(event) \subseteq Nat BY <1>0 DEF NoClaim
    <3> QED BY <1>0, <3>1 DEF Connect
  <2>3. reused' \in [Clients -> BOOLEAN] BY <1>0
  <2>4. \A d \in Clients : queue'[d] \in Seq(Events) /\ Len(queue'[d]) <= QueueMax
    <3>1. Len(q) <= QueueMax BY <1>0, <1>1, <1>3
    <3> QED BY <1>1, <1>2, <3>1 DEF IInv, Typed, TypeOK
  <2> QED BY <1>2, <2>1, <2>2, <2>3, <2>4 DEF IInv, Typed, TypeOK
<1>5. HistoryEnds' BY DEF IInv, HistoryEnds
<1>6. ASSUME NEW d \in Clients PROVE ClientInv(d)'
  <2>1. CASE d # c
    <3>1. /\ queue'[d] = queue[d] /\ url'[d] = url[d] /\ excused'[d] = excused[d]
          /\ reused'[d] = reused[d] /\ (d \in online' <=> d \in online)
      BY <1>0, <1>2, <2>1
    <3>2. ClientInv(d) BY DEF IInv
    <3> QED BY <1>0, <3>1, <3>2 DEF ClientInv, QueueAscends, Later, Known, Settled
  <2>2. CASE d = c
    <3>1. ClientInv(c) BY DEF IInv
    <3>2. /\ Known(event) /\ Settled(c, event)
          /\ Known(lastSeen[c]) /\ Settled(c, lastSeen[c])
      BY <3>1 DEF ClientInv
    <3>3. \A i \in 1..Len(q) :
            /\ q[i].number = Earlier + q[i].id /\ q[i].number <= total
            /\ q[i].id \in Nat
      <4> SUFFICES ASSUME NEW i \in 1..Len(q)
                   PROVE  /\ q[i].number = Earlier + q[i].id /\ q[i].number <= total
                          /\ q[i].id \in Nat
        OBVIOUS
      <4>1. Len(q) \in Nat /\ Len(q) <= lastId BY <1>0, <1>1, <1>3
      <4>2. q[i].id = lastId - Len(q) + i /\ q[i].number = total - Len(q) + i BY <1>1
      <4> QED BY <1>0, <4>1, <4>2 DEF Earlier
    <3>4. \A i, j \in 1..Len(q) : i < j => q[i].number < q[j].number
      <4> SUFFICES ASSUME NEW i \in 1..Len(q), NEW j \in 1..Len(q), i < j
                   PROVE  q[i].number < q[j].number
        OBVIOUS
      <4>1. Len(q) \in Nat BY <1>1, <1>3
      <4>2. q[i].number = total - Len(q) + i /\ q[j].number = total - Len(q) + j BY <1>1
      <4> QED BY <1>0, <4>1, <4>2
    <3>5. QueueAscends(c)' BY <1>0, <1>2, <3>3, <3>4 DEF QueueAscends
    <3>6. \A i \in 1..Len(q) : q[i].number > event.number
      <4> SUFFICES ASSUME NEW i \in 1..Len(q) PROVE q[i].number > event.number
        OBVIOUS
      <4>1. q[i].id > event.id /\ q[i].id \in Nat /\ q[i].number = Earlier + q[i].id
        BY <1>1, <3>3
      <4>2. event.number <= Earlier \/ event.number = Earlier + event.id
        BY <1>0, <3>2 DEF Known
      <4> QED BY <1>0, <4>1, <4>2
    <3>7. Later(c)'
      <4>1. ~reused'[c] => event = lastSeen[c] BY <1>0
      <4> QED BY <1>2, <3>6, <4>1 DEF Later
    <3>8. Known(lastSeen[c])' /\ Known(url[c])' BY <1>0, <1>2, <3>2 DEF Known
    <3>9. Settled(c, lastSeen[c])' /\ Settled(c, url[c])' BY <1>2, <3>2 DEF Settled
    <3> QED BY <2>2, <3>5, <3>7, <3>8, <3>9 DEF ClientInv
  <2> QED BY <2>1, <2>2
<1>7. 1..total \subseteq got[c] \union Queued(c)' \union excused'[c]
  <2> SUFFICES ASSUME NEW n \in 1..total, n \notin got[c], n \notin excused'[c]
               PROVE  n \in Queued(c)'
    OBVIOUS
  <2>1. /\ event # NoEvent /\ ~(n <= Earlier) /\ ~(n + HistoryMax <= total)
        /\ ~(event.number <= Earlier /\ n <= Earlier + event.id)
    BY <1>2 DEF NoClaim, Earlier
  <2>2. event.id > 0
    <3>1. event \in Events BY <1>0, <2>1
    <3> QED BY <3>1, EventType DEF IInv
  <2>3. n > Earlier + event.id
    <3>1. CASE event.number <= Earlier BY <1>0, <2>1, <3>1
    <3>2. CASE event.number > Earlier
      <4>1. Known(event) /\ Settled(c, event) BY DEF IInv, ClientInv
      <4>2. event.number = Earlier + event.id BY <3>2, <4>1 DEF Known
      <4>3. n \notin 1..event.number BY <1>2, <4>1 DEF Settled
      <4> QED BY <1>0, <4>2, <4>3
    <3> QED BY <1>0, <3>1, <3>2
  <2>4. total - Len(q) < n
    <3>1. Len(q) \in Nat /\ Len(q) <= lastId BY <1>0, <1>1, <1>3
    <3>2. CASE Len(q) = Len(history) BY <1>0, <1>3, <2>1, <3>1, <3>2 DEF Earlier
    <3>3. CASE lastId - Len(q) <= event.id BY <1>0, <2>3, <3>1, <3>3 DEF Earlier
    <3> QED BY <1>1, <2>2, <3>2, <3>3
  <2> DEFINE i == n - (total - Len(q))
  <2>5. i \in 1..Len(q) /\ total - Len(q) + i = n BY <1>0, <1>1, <1>3, <2>4
  <2> HIDE DEF i
  <2>6. q[i].number = n /\ q[i] \in ToSet(q) BY <1>1, <2>5 DEF ToSet
  <2> QED BY <1>2, <2>6 DEF Queued
<1>8. GapsExplained'
  <2> SUFFICES ASSUME NEW d \in online'
               PROVE  1..total \subseteq got[d] \union Queued(d)' \union excused'[d]
    BY DEF GapsExplained
  <2>1. CASE d # c
    <3>1. d \in online /\ d \in Clients BY <1>2, <2>1 DEF IInv, Typed, TypeOK
    <3>2. queue'[d] = queue[d] /\ excused'[d] = excused[d] BY <1>2, <2>1, <3>1
    <3> QED BY <3>1, <3>2 DEF IInv, GapsExplained, Queued
  <2> QED BY <1>7, <2>1
<1> QED BY <1>4, <1>5, <1>6, <1>8 DEF IInv

\* The client receives the first event that waits; all before it are settled.
LEMMA DeliverInv == ASSUME IInv, NEW c \in Clients, Deliver(c) PROVE IInv'
<1> DEFINE q == queue[c]
<1>0. /\ total \in Nat /\ Earlier \in Nat /\ Earlier' = Earlier /\ q # <<>> /\ q \in Seq(Events)
      /\ c \in online /\ QueueAscends(c) /\ ClientInv(c)
      /\ queue \in [Clients -> Seq(Events)] /\ got \in [Clients -> SUBSET Nat]
      /\ lastSeen \in [Clients -> Events \union {NoEvent}] /\ reused \in [Clients -> BOOLEAN]
  BY EventType DEF IInv, ClientInv, QueueAscends, Typed, Deliver, Earlier
<1>1. /\ q[1] = Head(q) /\ Head(q) \in Events /\ Tail(q) \in Seq(Events)
      /\ Len(q) \in Nat \ {0} /\ Len(Tail(q)) = Len(q) - 1
      /\ \A i \in 1..Len(Tail(q)) : Tail(q)[i] = q[i + 1] /\ i + 1 \in 1..Len(q)
  <2>1. /\ Head(q) \in Events /\ Tail(q) \in Seq(Events) /\ Len(Tail(q)) = Len(q) - 1
        /\ \A i \in 1..Len(Tail(q)) : Tail(q)[i] = q[i + 1]
    BY <1>0, HeadTailProperties
  <2>2. q[1] = Head(q) /\ Len(q) \in Nat \ {0} BY <1>0, EmptySeq
  <2> QED BY <2>1, <2>2
<1>2. /\ queue'[c] = Tail(q) /\ lastSeen'[c] = Head(q) /\ reused'[c] = FALSE
      /\ got'[c] = got[c] \union {Head(q).number}
      /\ \A d \in Clients \ {c} : /\ queue'[d] = queue[d] /\ lastSeen'[d] = lastSeen[d]
                                  /\ got'[d] = got[d] /\ reused'[d] = reused[d]
      /\ UNCHANGED <<lastId, history, online, url, restarts, total, excused>>
  BY <1>0 DEF Deliver
<1>3. Head(q).number \in Nat /\ Head(q).number <= total
      /\ Head(q).number = Earlier + Head(q).id
      /\ \A i \in 1..Len(Tail(q)) : Tail(q)[i].number > Head(q).number
  <2>1. \A i \in 1..Len(q) : q[i].number \in Nat BY <1>0, EventType DEF IInv
  <2>2. \A i, j \in 1..Len(q) : i < j => q[i].number < q[j].number BY <1>0 DEF QueueAscends
  <2>3. \A i \in 1..Len(q) : q[i].number = Earlier + q[i].id /\ q[i].number <= total
    BY <1>0 DEF QueueAscends
  <2> HIDE DEF q
  <2>6. \A i \in 1..Len(Tail(q)) : Tail(q)[i].number > Head(q).number BY <1>1, <2>1, <2>2
  <2> QED BY <1>1, <2>1, <2>3, <2>6
\* The events that wait are no older than the first.
<1>oldest. ASSUME NEW k \in Queued(c) PROVE ~(k < Head(q).number)
  <2>1. PICK i \in 1..Len(q) : q[i].number = k BY <1>0, QueuedNumbers
  <2>2. \A i2 \in 1..Len(q) : q[i2].number \in Nat BY <1>0, EventType DEF IInv
  <2>3. 1 < i => q[1].number < q[i].number BY <1>0, <1>1, <2>1 DEF QueueAscends
  <2> HIDE DEF q
  <2> QED BY <1>1, <2>1, <2>2, <2>3
<1>4. Typed'
  <2>1. /\ queue' \in [Clients -> Seq(Events)] /\ got' \in [Clients -> SUBSET Nat]
        /\ lastSeen' \in [Clients -> Events \union {NoEvent}] /\ reused' \in [Clients -> BOOLEAN]
    BY <1>0, <1>1, <1>3 DEF Deliver
  <2>2. \A d \in Clients : queue'[d] \in Seq(Events) /\ Len(queue'[d]) <= QueueMax
    <3>1. Len(q) <= QueueMax /\ QueueMax \in Nat BY HistoryFits DEF IInv, Typed, TypeOK
    <3>2. Len(Tail(q)) <= QueueMax BY <1>1, <3>1
    <3> QED BY <1>1, <1>2, <3>2 DEF IInv, Typed, TypeOK
  <2> QED BY <1>2, <2>1, <2>2 DEF IInv, Typed, TypeOK
<1>5. HistoryEnds' BY <1>2 DEF IInv, HistoryEnds
<1>6. \A n \in 1..Head(q).number : n \in got'[c] \union excused[c]
  <2> SUFFICES ASSUME NEW n \in 1..Head(q).number, n # Head(q).number
               PROVE  n \in got[c] \union excused[c]
    BY <1>2
  <2>1. n \in 1..total /\ n < Head(q).number BY <1>0, <1>3
  <2>2. n \in got[c] \union Queued(c) \union excused[c] BY <1>0, <2>1 DEF IInv, GapsExplained
  <2>4. n \notin Queued(c) BY <1>oldest, <2>1, Zenon
  <2> QED BY <2>2, <2>4
<1>7. ASSUME NEW d \in Clients PROVE ClientInv(d)'
  <2>1. CASE d # c
    <3>1. ClientInv(d) BY DEF IInv
    <3> QED BY <1>0, <1>2, <2>1, <3>1 DEF ClientInv, QueueAscends, Later, Known, Settled
  <2>2. CASE d = c
    <3>1. QueueAscends(c)'
      <4>1. \A i, j \in 1..Len(q) : i < j => q[i].number < q[j].number BY <1>0 DEF QueueAscends
      <4>2. \A i \in 1..Len(q) : q[i].number = Earlier + q[i].id /\ q[i].number <= total
        BY <1>0 DEF QueueAscends
      <4> HIDE DEF q
      <4>3. \A i, j \in 1..Len(Tail(q)) : i < j => Tail(q)[i].number < Tail(q)[j].number
        BY <1>1, <4>1
      <4>4. \A i \in 1..Len(Tail(q)) :
              Tail(q)[i].number = Earlier + Tail(q)[i].id /\ Tail(q)[i].number <= total
        BY <1>1, <4>2
      <4> QED BY <1>0, <1>2, <4>3, <4>4 DEF QueueAscends
    <3>2. Later(c)' BY <1>2, <1>3 DEF Later
    <3>3. Known(lastSeen[c])' BY <1>0, <1>2, <1>3 DEF Known
    <3>4. Known(url[c])' BY <1>0, <1>2 DEF Known, ClientInv
    <3>5. Settled(c, lastSeen[c])' BY <1>2, <1>6 DEF Settled
    <3>6. Settled(c, url[c])' BY <1>0, <1>2 DEF Settled, ClientInv
    <3> QED BY <2>2, <3>1, <3>2, <3>3, <3>4, <3>5, <3>6 DEF ClientInv
  <2> QED BY <2>1, <2>2
<1>8. GapsExplained'
  <2> SUFFICES ASSUME NEW d \in online, NEW n \in 1..total, n \notin got'[d], n \notin excused[d]
               PROVE  n \in Queued(d)'
    BY <1>2 DEF GapsExplained
  <2>0. d \in Clients BY DEF IInv, Typed, TypeOK
  <2>1. CASE d # c BY <1>2, <2>0, <2>1 DEF IInv, GapsExplained, Queued
  <2>2. CASE d = c
    <3>1. n \in Queued(c) /\ n # Head(q).number BY <1>2, <2>2 DEF IInv, GapsExplained
    <3>2. PICK i \in 1..Len(q) : q[i].number = n BY <1>0, <3>1, QueuedNumbers
    <3>3. i # 1 BY <1>1, <3>1, <3>2
    <3>4. i - 1 \in 1..Len(Tail(q)) /\ (i - 1) + 1 = i BY <1>1, <3>3
    <3>5. Tail(q)[i - 1] = q[i] BY <1>1, <3>4
    <3>6. Tail(q)[i - 1] \in ToSet(Tail(q))
      <4>1. DOMAIN Tail(q) = 1..Len(Tail(q)) BY <1>1
      <4> QED BY <3>4, <4>1 DEF ToSet
    <3> QED BY <1>2, <2>2, <3>2, <3>5, <3>6 DEF Queued
  <2> QED BY <2>1, <2>2
<1> QED BY <1>4, <1>5, <1>7, <1>8 DEF IInv

\* What is on its way is lost, and nothing is owed to a client without a stream.
LEMMA DisconnectInv == ASSUME IInv, NEW c \in Clients, Disconnect(c) PROVE IInv'
<1>0. /\ queue \in [Clients -> Seq(Events)] /\ Earlier' = Earlier
      /\ \A d \in Clients \ {c} : queue'[d] = queue[d] /\ (d \in online' <=> d \in online)
      /\ queue'[c] = <<>> /\ c \notin online' /\ online' \subseteq online
      /\ UNCHANGED <<lastId, history, lastSeen, url, restarts, total, got, reused, excused>>
  BY DEF Disconnect, IInv, Typed, Earlier, client, ghost
<1>1. Typed'
  <2>1. queue' \in [Clients -> Seq(Events)] BY <1>0 DEF Disconnect
  <2>2. \A d \in Clients : queue'[d] \in Seq(Events) /\ Len(queue'[d]) <= QueueMax
    <3>1. \A d \in Clients : queue[d] \in Seq(Events) /\ Len(queue[d]) <= QueueMax
      BY DEF IInv, Typed, TypeOK
    <3>2. <<>> \in Seq(Events) /\ Len(<<>>) <= QueueMax BY HistoryFits
    <3> QED BY <1>0, <3>1, <3>2
  <2> QED BY <1>0, <2>1, <2>2 DEF IInv, Typed, TypeOK
<1>2. HistoryEnds' BY <1>0 DEF IInv, HistoryEnds
<1>3. ASSUME NEW d \in Clients PROVE ClientInv(d)'
  <2>1. ClientInv(d) BY DEF IInv
  <2>2. CASE d # c
    BY <1>0, <2>1, <2>2 DEF ClientInv, QueueAscends, Later, Known, Settled
  <2>3. CASE d = c
    <3>1. Len(queue'[c]) = 0 BY <1>0
    <3> QED BY <1>0, <2>1, <2>3, <3>1 DEF ClientInv, QueueAscends, Later, Known, Settled
  <2> QED BY <2>2, <2>3
<1>4. GapsExplained'
  <2> SUFFICES ASSUME NEW d \in online'
               PROVE  1..total \subseteq got[d] \union Queued(d)' \union excused[d]
    BY <1>0 DEF GapsExplained
  <2>1. d \in online /\ d \in Clients \ {c} BY <1>0 DEF IInv, Typed, TypeOK
  <2> QED BY <1>0, <2>1 DEF IInv, GapsExplained, Queued
<1> QED BY <1>1, <1>2, <1>3, <1>4 DEF IInv

\* Every event there was is now one of an earlier process.
LEMMA RestartInv == ASSUME IInv, Restart PROVE IInv'
<1>0. /\ lastId' = 0 /\ total' = total /\ total \in Nat /\ Earlier' = total
      /\ history' = <<>> /\ online' = {} /\ queue' = [c \in Clients |-> <<>>]
      /\ UNCHANGED <<lastSeen, url, got, reused, excused>>
  BY EventType DEF IInv, Restart, Earlier, client, ghost
<1>1. Typed'
  BY <1>0, HistoryFits DEF IInv, Typed, TypeOK
<1>2. HistoryEnds' BY <1>0, HistoryFits DEF HistoryEnds
<1>3. ASSUME NEW c \in Clients PROVE ClientInv(c)'
  <2>1. ClientInv(c) BY DEF IInv
  <2>2. Len(queue'[c]) = 0 /\ queue'[c] = <<>> BY <1>0
  <2>3. lastSeen[c].number \in Nat /\ url[c].number \in Nat
    BY EventType DEF IInv, Typed
  <2>4. Known(lastSeen[c])' /\ Known(url[c])' BY <1>0, <2>1, <2>3 DEF ClientInv, Known
  <2> QED BY <1>0, <2>1, <2>2, <2>4 DEF ClientInv, QueueAscends, Later, Settled
<1>4. GapsExplained' BY <1>0 DEF GapsExplained
<1> QED BY <1>1, <1>2, <1>3, <1>4 DEF IInv

LEMMA NextInv == IInv /\ [Next]_vars => IInv'
<1> SUFFICES ASSUME IInv, [Next]_vars PROVE IInv'
  OBVIOUS
<1>1. CASE TriggerEvent BY <1>1, TriggerInv
<1>2. ASSUME NEW c \in Clients, Open(c) PROVE IInv'
  <2>1. /\ Connect(c, lastSeen[c]) /\ reused' = [reused EXCEPT ![c] = FALSE]
        /\ UNCHANGED <<lastId, history, lastSeen, restarts, total, got>>
    BY <1>2 DEF Open
  <2> QED BY <2>1, ConnectInv
<1>3. ASSUME NEW c \in Clients, Reconnect(c) PROVE IInv'
  <2>1. /\ Connect(c, url[c]) /\ reused' = [reused EXCEPT ![c] = TRUE]
        /\ UNCHANGED <<lastId, history, lastSeen, restarts, total, got>>
    BY <1>3 DEF Reconnect
  <2> QED BY <2>1, ConnectInv
<1>4. ASSUME NEW c \in Clients, Deliver(c) PROVE IInv' BY <1>4, DeliverInv
<1>5. ASSUME NEW c \in Clients, Disconnect(c) PROVE IInv' BY <1>5, DisconnectInv
<1>6. CASE Restart BY <1>6, RestartInv
<1>7. CASE UNCHANGED vars
  <2>1. UNCHANGED <<lastId, history, queue, online, lastSeen, url, restarts, total, got,
                    reused, excused>>
    BY <1>7 DEF vars, server, client, ghost
  <2>2. Typed' BY <2>1 DEF IInv, Typed, TypeOK
  <2>3. HistoryEnds' BY <2>1 DEF IInv, HistoryEnds
  <2>4. ASSUME NEW c \in Clients PROVE ClientInv(c)'
    BY <2>1 DEF IInv, ClientInv, QueueAscends, Later, Known, Settled, Earlier
  <2>5. GapsExplained' BY <2>1 DEF IInv, GapsExplained, Queued
  <2> QED BY <2>2, <2>3, <2>4, <2>5 DEF IInv
<1> QED BY <1>1, <1>2, <1>3, <1>4, <1>5, <1>6, <1>7 DEF Next

LEMMA InvHolds == Spec => []IInv
BY InitInv, NextInv, PTL DEF Spec

-----------------------------------------------------------------------------
\* The history and the queues stay within their bounds, and a replay never has to
\* wait for room: it fits the queue of the stream that is not yet read.
THEOREM TypeCorrect == Spec => []TypeOK
<1>1. IInv => TypeOK BY DEF IInv, Typed
<1> QED BY <1>1, InvHolds, PTL

\* A client with a stream has, or is about to get, every event but those whose
\* loss has one of the known causes (trigger_event, sse_events), for any number of
\* clients, events, reconnections and restarts and any sizes of history and queue.
THEOREM NothingElseIsLost == Spec => []GapsExplained
<1>1. IInv => GapsExplained BY DEF IInv
<1> QED BY <1>1, InvHolds, PTL

\* Events come in order and once, within a stream and from one to the next, over
\* restarts that give their ids away again; only the first of a stream that was
\* opened with an old id may go back.
THEOREM InOrderAndOnce == Spec => OnceInOrder
<1> DEFINE Forward == \A c \in Clients : Deliver(c) /\ ~reused[c] =>
                        Head(queue[c]).number > lastSeen[c].number
<1>1. IInv /\ [Next]_vars => [Forward]_vars
  <2> SUFFICES ASSUME IInv, NEW c \in Clients, Deliver(c), ~reused[c]
               PROVE  Head(queue[c]).number > lastSeen[c].number
    OBVIOUS
  <2>1. queue[c] # <<>> /\ queue[c] \in Seq(Events) /\ Later(c)
    BY DEF Deliver, IInv, Typed, ClientInv
  <2>2. 1 \in 1..Len(queue[c]) /\ queue[c][1] = Head(queue[c]) BY <2>1, EmptySeq
  <2> QED BY <2>1, <2>2 DEF Later
<1>2. [][Forward]_vars => OnceInOrder BY DEF OnceInOrder
<1> HIDE DEF Forward
<1> QED BY <1>1, <1>2, InvHolds, PTL DEF Spec
=============================================================================
