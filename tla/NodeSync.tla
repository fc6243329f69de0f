------------------------------ MODULE NodeSync -------------------------------
(***************************************************************************)
(* How an edge node follows the server: GET /api/node/pull with conflict   *)
(* detection and delta sync (node_briefing.py), the delta query            *)
(* (intel_graph_export.py) and the upserts it competes with (ftm_query.py).*)
(*                                                                         *)
(* node_pull reads the latest briefing and its version, decides about a    *)
(* conflict, takes generated_at, and then suspends for the delta query,    *)
(* which a thread runs under the lock of the store. The node asks again    *)
(* with the generated_at of the last reply it applied. An upsert takes its *)
(* last_seen before it gets the same lock, or brings the time at which a   *)
(* feed observed the entity.                                               *)
(*                                                                         *)
(* No reply with status 200 says which version its briefing has: only a    *)
(* 409 and the answer to POST /node/push name the server's version. What a *)
(* node puts in X-Client-Version is therefore its own affair, and the      *)
(* model lets it claim any version or none, with or without its hashes.    *)
(*                                                                         *)
(* Differences from the code: one node. Times are counted in stamps of     *)
(* upserts (a pull between two upserts needs no number of its own). Pulls  *)
(* without a cursor or with one older than a week get a selection of the   *)
(* graph and are left out (the node starts with the cursor of an empty     *)
(* store), and so are ETags and the push of an edit for the operator to    *)
(* merge, which stores a row that no other operation reads.                *)
(***************************************************************************)
EXTENDS Naturals, FiniteSets, FiniteSetsExt

CONSTANTS
  Entities,    \* entities of the store
  Limit,       \* max_nodes of compact_delta_for_pull, 20 in the code
  MaxStamp,    \* bound: upserts that take the current time
  MaxOld,      \* bound: upserts that bring an older time
  MaxVersion   \* bound: briefings

ASSUME LimitAssumption == Limit \in Nat \ {0}
ASSUME BoundsAssumption == MaxStamp \in Nat /\ MaxOld \in Nat /\ MaxVersion \in Nat

VARIABLES
  clock,      \* the last stamp taken
  old,        \* how many upserts brought an older one
  seen,       \* last_seen of every entity, 0 when the store does not have it
  writing,    \* last_seen of the upserts that wait for the lock, 0 when none
  version,    \* MAX(briefings.id)
  base,       \* history: which briefing the text on the node comes from
  edited,     \* the operator of the node has edited it
  since,      \* the node's cursor: generated_at of the last reply it applied
  pull,       \* the pull under way
  \* history
  stale,      \* entities whose latest revision the node does not have
  skipped     \* those that were committed late or cut off by the limit

store == <<clock, old, seen, writing>>
node == <<base, edited, since>>
ghost == <<stale, skipped>>
vars == <<store, version, node, pull, ghost>>

Verdicts == {"conflict", "unchanged", "full"}

\* What X-Client-Version can say: nothing, or a version, even one ahead of the server.
NoVersion == MaxVersion + 2
Claims == 0 .. NoVersion

Pulls ==
  [stage : {"query", "reply"}, verdict : Verdicts,
   text : 0 .. MaxVersion,       \* history: which briefing the payload holds
   asof : 0 .. MaxStamp,         \* generated_at
   queried : 0 .. MaxStamp,      \* as_of of the delta
   available : BOOLEAN,          \* intel_delta["available"]
   nodes : SUBSET Entities,      \* nodes_added (those not outdated meanwhile)
   cut : SUBSET Entities]        \* history: what the limit left out

NoPull == [stage |-> "none"]

Init ==
  /\ clock = 0 /\ old = 0
  /\ seen = [e \in Entities |-> 0] /\ writing = [e \in Entities |-> 0]
  /\ version = 0 /\ base = 0 /\ edited = FALSE /\ since = 0
  /\ pull = NoPull
  /\ stale = {} /\ skipped = {}

-----------------------------------------------------------------------------
(* The store and the briefings.                                            *)

\* _upsert_impl before the lock: seen_at is given, or the current time.
TakeStamp(e) ==
  /\ writing[e] = 0
  /\ \/ /\ clock < MaxStamp /\ clock' = clock + 1
        /\ writing' = [writing EXCEPT ![e] = clock']
        /\ UNCHANGED old
     \/ /\ old < MaxOld /\ old' = old + 1
        /\ \E s \in 1 .. clock : writing' = [writing EXCEPT ![e] = s]
        /\ UNCHANGED clock
  /\ UNCHANGED <<seen, version, node, pull, ghost>>

\* The cursor that the node has or is about to have.
Horizon == IF pull.stage = "reply" /\ pull.verdict # "conflict" /\ pull.available
           THEN pull.asof ELSE since

\* _do under the lock: last_seen is overwritten, with an older time as well.
Commit(e) ==
  /\ writing[e] # 0
  /\ seen' = [seen EXCEPT ![e] = writing[e]]
  /\ writing' = [writing EXCEPT ![e] = 0]
  /\ stale' = stale \union {e}
  /\ skipped' = IF writing[e] > Horizon THEN skipped \ {e} ELSE skipped \union {e}
  /\ pull' = IF pull.stage = "reply" THEN [pull EXCEPT !.nodes = @ \ {e}] ELSE pull
  /\ UNCHANGED <<clock, old, version, node>>

\* generate_briefing_internal stores a briefing.
Publish ==
  /\ version < MaxVersion /\ version' = version + 1
  /\ UNCHANGED <<store, node, pull, ghost>>

-----------------------------------------------------------------------------
(* The pull.                                                               *)

\* The node's text is the server's: the SHA-256 sums agree.
SameText == base = version /\ ~edited

\* Fault: an edited text counts as the one that was pulled.
UnchangedIfNotNewer(hashed) == hashed /\ version > 0

\* X-Briefing-Hash was sent and equals the hash of the latest briefing.
BriefingUnchanged(hashed) == hashed /\ SameText

\* _detect_pull_conflict; without the header it is not asked.
DetectPullConflict(claim, server, hashed) ==
  /\ claim # NoVersion
  /\ claim > server \/ (claim = server /\ hashed /\ ~SameText)

\* _server_briefing_version: an error reads as an empty table.
ServerVersions == {version, 0}

\* node_pull up to the delta query: nothing suspends it there. The hashes may be
\* missing like the version.
StartPull(force, claim) ==
  /\ pull = NoPull
  /\ \E server \in ServerVersions, dataHash, briefingHash \in BOOLEAN :
       LET conflict == ~force /\ DetectPullConflict(claim, server, dataHash) IN
       pull' = [stage |-> IF conflict THEN "reply" ELSE "query",
                verdict |-> IF conflict THEN "conflict"
                            ELSE IF BriefingUnchanged(briefingHash) THEN "unchanged" ELSE "full",
                text |-> version, asof |-> clock, queried |-> clock,
                available |-> FALSE, nodes |-> {}, cut |-> {}]
  /\ UNCHANGED <<store, version, node, ghost>>

\* WHERE last_seen > since
After(e) == seen[e] > since

\* ORDER BY last_seen DESC LIMIT max_nodes
Newest(all, some) ==
  /\ Cardinality(some) = Min({Limit, Cardinality(all)})
  /\ \A e \in some, f \in all \ some : seen[e] >= seen[f]

\* compact_delta_for_pull under the lock of the store; the error is in the reply.
DeltaQuery ==
  /\ pull.stage = "query"
  /\ \/ \E delta \in SUBSET {e \in Entities : After(e)} :
          /\ Newest({e \in Entities : After(e)}, delta)
          /\ pull' = [pull EXCEPT !.stage = "reply", !.queried = clock, !.available = TRUE,
                        !.nodes = delta, !.cut = {e \in Entities : After(e)} \ delta]
     \/ pull' = [pull EXCEPT !.stage = "reply"]
  /\ UNCHANGED <<store, version, node, ghost>>

\* Fault: the time of the reply instead of the time before the query.
CursorOfReply == pull.queried

\* generated_at is what the node asks with the next time.
Cursor == pull.asof

\* A reply with status 200 arrives: the node replaces its briefing and adds the
\* entities. Of an error in the delta it keeps its cursor.
Apply ==
  /\ pull.stage = "reply" /\ pull.verdict # "conflict"
  /\ IF pull.verdict = "full"
     THEN base' = pull.text /\ edited' = FALSE
     ELSE UNCHANGED <<base, edited>>
  /\ IF pull.available
     THEN /\ since' = Cursor
          /\ stale' = stale \ pull.nodes
          /\ skipped' = (skipped \ pull.nodes) \union {e \in pull.cut \intersect stale : seen[e] <= Cursor}
     ELSE UNCHANGED <<since, stale, skipped>>
  /\ pull' = NoPull
  /\ UNCHANGED <<store, version>>

\* 409, or a pull that fails, is lost or is cut off by a restart: the node
\* keeps what it has.
PullFails ==
  /\ pull # NoPull /\ pull' = NoPull
  /\ UNCHANGED <<store, version, node, ghost>>

\* The operator of the node changes its text, during a pull as well.
Edit ==
  /\ ~edited /\ edited' = TRUE
  /\ UNCHANGED <<store, version, base, since, pull, ghost>>

Next ==
  \/ \E e \in Entities : TakeStamp(e) \/ Commit(e)
  \/ Publish
  \/ \E force \in BOOLEAN, claim \in Claims : StartPull(force, claim)
  \/ DeltaQuery \/ Apply \/ PullFails \/ Edit

Spec == Init /\ [][Next]_vars

\* Upserts get the lock, every pull ends, now and then the node asks without
\* claiming a version (a node that only ever saw replies with status 200 knows
\* none), and now and then a complete reply gets through. Nobody has to force a
\* pull or to edit.
Fairness ==
  /\ \A e \in Entities : WF_vars(Commit(e))
  /\ SF_vars(StartPull(FALSE, NoVersion)) /\ SF_vars(DeltaQuery /\ pull'.available)
  /\ WF_vars(pull.stage = "reply" /\ (Apply \/ PullFails))
  /\ SF_vars(Apply /\ pull.available)

FairSpec == Spec /\ Fairness
-----------------------------------------------------------------------------
(* Properties.                                                             *)

TypeOK ==
  /\ clock \in 0 .. MaxStamp /\ old \in 0 .. MaxOld
  /\ seen \in [Entities -> 0 .. clock] /\ writing \in [Entities -> 0 .. clock]
  /\ version \in 0 .. MaxVersion /\ base \in 0 .. version
  /\ edited \in BOOLEAN /\ since \in 0 .. clock
  /\ pull \in Pulls \union {NoPull}
  /\ stale \subseteq Entities /\ skipped \subseteq stale

\* What the node lacks is still ahead of its cursor, and the next delta will
\* look for it - unless it was committed with a time the cursor had already
\* passed, or the limit cut it off. The cursor of the reply is older than the
\* query, so nothing can slip between the two.
CursorCovers == \A e \in stale : seen[e] > since \/ e \in skipped

\* When the briefings, the edits and the upserts stop, a node that has no edit
\* gets the latest briefing and everything that was not skipped, although
\* pulls fail and replies are lost.
CatchesUp == []<>(edited \/ (base = version /\ stale = skipped))

=============================================================================
