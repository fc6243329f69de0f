----------------------------- MODULE PushDelivery -----------------------------
(***************************************************************************)
(* Server-sent events of push_delivery.py: a queue per stream, a history   *)
(* of the last events, and the replay of what a client has missed.         *)
(*                                                                         *)
(* trigger_event and the head of sse_events run without a suspension (the  *)
(* puts of the replay find room, see HistoryFits), so each is one step. A  *)
(* client opens a stream with the id of the last event it received, or its *)
(* EventSource reconnects by itself with the URL of before. Ids start from *)
(* 1 again when the server restarts.                                       *)
(*                                                                         *)
(* Differences from the code: the queue of a stream ends with the stream   *)
(* (in the code it fills up, unread, until the server notices); the watch  *)
(* items are left out, since no event depends on them.                     *)
(***************************************************************************)
EXTENDS Naturals, FiniteSets, Sequences, SequencesExt

CONSTANTS
  Clients,
  HistoryMax,   \* maxlen of _event_history, 100 in the code
  QueueMax,     \* maxsize of a queue, 200 in the code
  MaxEvents,    \* bound: events
  MaxRestarts   \* bound: restarts of the server

\* Otherwise the put of a replay would wait for a reader that comes after it.
ASSUME HistoryFits ==
  /\ HistoryMax \in Nat \ {0} /\ QueueMax \in Nat \ {0} /\ HistoryMax <= QueueMax

ASSUME PushBounds == MaxEvents \in Nat /\ MaxRestarts \in Nat

VARIABLES
  lastId,    \* _last_event_id
  history,   \* _event_history
  queue,     \* per client: the queue of its stream
  online,    \* the clients with a stream
  lastSeen,  \* per client: the event it received last
  url,       \* per client: the event whose id is in the URL of its EventSource
  restarts,  \* how many restarts there were
  \* history
  total,     \* the events ever triggered, whose numbers go on after a restart
  got,       \* per client: the numbers of the events it received
  reused,    \* per client: its stream was opened with an old URL, and is at its start
  excused    \* per client: the numbers of the events it has no claim to any more

server == <<lastId, history, queue, online>>
client == <<lastSeen, url>>
ghost == <<total, got, reused, excused>>
vars == <<server, client, restarts, ghost>>

Events == [id : 1 .. MaxEvents, number : 1 .. MaxEvents]
NoEvent == [id |-> 0, number |-> 0]     \* lastEventId=0

Init ==
  /\ lastId = 0 /\ history = <<>>
  /\ queue = [c \in Clients |-> <<>>] /\ online = {}
  /\ lastSeen = [c \in Clients |-> NoEvent] /\ url = [c \in Clients |-> NoEvent]
  /\ restarts = 0 /\ total = 0
  /\ got = [c \in Clients |-> {}]
  /\ reused = [c \in Clients |-> FALSE]
  /\ excused = [c \in Clients |-> {}]

-----------------------------------------------------------------------------
\* Fault: a history that is cut before the new event comes in.
RememberFewer(event) ==
  IF Len(history) < HistoryMax - 1 THEN Append(history, event)
  ELSE Append(SubSeq(history, Len(history) - HistoryMax + 3, Len(history)), event)

\* The deque drops its oldest event when it is full.
Remember(event) ==
  Append(IF Len(history) < HistoryMax THEN history ELSE Tail(history), event)

\* Fault: a stream that has not caught up is left out.
HasRoomUnlessSlow(c) == queue[c] = <<>>

HasRoom(c) == Len(queue[c]) < QueueMax

\* trigger_event: a stream whose queue is full does not get the event.
TriggerEvent ==
  /\ total < MaxEvents
  /\ lastId' = lastId + 1 /\ total' = total + 1
  /\ LET event == [id |-> lastId', number |-> total'] IN
     /\ history' = Remember(event)
     /\ queue' = [c \in Clients |->
                    IF c \in online /\ HasRoom(c) THEN Append(queue[c], event) ELSE queue[c]]
     /\ excused' = [c \in Clients |->
                      IF c \in online /\ Len(queue[c]) = QueueMax
                      THEN excused[c] \union {total'} ELSE excused[c]]
  /\ UNCHANGED <<online, client, restarts, got, reused>>

\* The history without the old events. Its ids ascend, so these are the first
\* ones, and a filter on the id keeps the end of the history.
After(old) == SubSeq(history, Cardinality(old) + 1, Len(history))

\* Fault: the event the client names is sent again.
MissedInclusive(asked) ==
  IF asked > 0 THEN After({i \in DOMAIN history : history[i].id < asked}) ELSE <<>>

\* The events to replay.
Missed(asked) ==
  IF asked > 0 THEN After({i \in DOMAIN history : history[i].id <= asked}) ELSE <<>>

\* What a client has no claim to that names an event: everything if it names
\* none; what an earlier process triggered or is not among the last HistoryMax;
\* and, if the event is one of an earlier process, those that got its id and the
\* ids before it again.
NoClaim(event) ==
  LET earlier == total - lastId IN     \* the events of earlier processes
  {n \in 1 .. total :
     \/ event = NoEvent
     \/ n <= earlier
     \/ n + HistoryMax <= total
     \/ event.number <= earlier /\ n <= earlier + event.id}

\* sse_events up to the stream.
Connect(c, event) ==
  /\ c \notin online /\ online' = online \union {c}
  /\ queue' = [queue EXCEPT ![c] = Missed(event.id)]
  /\ url' = [url EXCEPT ![c] = event]
  /\ excused' = [excused EXCEPT ![c] = @ \union (NoClaim(event) \ got[c])]

\* The client opens an EventSource of its own accord.
Open(c) ==
  /\ Connect(c, lastSeen[c])
  /\ reused' = [reused EXCEPT ![c] = FALSE]
  /\ UNCHANGED <<lastId, history, lastSeen, restarts, total, got>>

\* The EventSource reconnects. It sends Last-Event-ID in a header that the
\* server does not read; the query still has what it had.
Reconnect(c) ==
  /\ Connect(c, url[c])
  /\ reused' = [reused EXCEPT ![c] = TRUE]
  /\ UNCHANGED <<lastId, history, lastSeen, restarts, total, got>>

\* event_stream sends the next event and the client receives it.
Deliver(c) ==
  /\ queue[c] # <<>>
  /\ queue' = [queue EXCEPT ![c] = Tail(@)]
  /\ lastSeen' = [lastSeen EXCEPT ![c] = Head(queue[c])]
  /\ got' = [got EXCEPT ![c] = @ \union {Head(queue[c]).number}]
  /\ reused' = [reused EXCEPT ![c] = FALSE]
  /\ UNCHANGED <<lastId, history, online, url, restarts, total, excused>>

\* The connection breaks, with whatever was on its way.
Disconnect(c) ==
  /\ c \in online /\ online' = online \ {c}
  /\ queue' = [queue EXCEPT ![c] = <<>>]
  /\ UNCHANGED <<lastId, history, client, restarts, ghost>>

\* Everything the module keeps is in memory.
Restart ==
  /\ restarts < MaxRestarts /\ restarts' = restarts + 1
  /\ lastId' = 0 /\ history' = <<>>
  /\ queue' = [c \in Clients |-> <<>>] /\ online' = {}
  /\ UNCHANGED <<client, ghost>>

Next ==
  \/ TriggerEvent
  \/ \E c \in Clients : Open(c) \/ Reconnect(c) \/ Deliver(c) \/ Disconnect(c)
  \/ Restart

Spec == Init /\ [][Next]_vars

\* A client comes back of its own accord now and then, and now and then an
\* event gets through before the connection breaks.
Fairness == \A c \in Clients : SF_vars(Open(c)) /\ SF_vars(Deliver(c))

FairSpec == Spec /\ Fairness
-----------------------------------------------------------------------------
(* Properties.                                                             *)

\* The variables have their types; the history and the queues are bounded.
TypeOK ==
  /\ lastId \in 0 .. total /\ total \in 0 .. MaxEvents
  /\ history \in Seq(Events) /\ Len(history) <= HistoryMax
  /\ \A c \in Clients : queue[c] \in Seq(Events) /\ Len(queue[c]) <= QueueMax
  /\ online \subseteq Clients

Queued(c) == {event.number : event \in ToSet(queue[c])}

\* A client with a stream has, or is about to get, every event but those that
\* were dropped because its queue was full, had left the history when it came
\* back, or belong to a process that is gone - or it had not named an event.
\* Registering before the replay leaves no gap between replay and live events.
GapsExplained ==
  \A c \in online : 1 .. total \subseteq got[c] \union Queued(c) \union excused[c]

\* Every event a client gets is later than the one before, within a stream and
\* from one stream to the next, over restarts and replays: in order, none twice.
\* Only the first of a stream that its EventSource opened with an old id may go
\* back.
OnceInOrder ==
  [][\A c \in Clients : Deliver(c) /\ ~reused[c] =>
       Head(queue[c]).number > lastSeen[c].number]_vars

\* Every event reaches every client that keeps coming back, or has become one
\* of the gaps above.
EventsArrive ==
  \A c \in Clients, n \in 1 .. MaxEvents :
    (n <= total) ~> (n \in got[c] \union excused[c])

=============================================================================
