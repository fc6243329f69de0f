---------------------------- MODULE NodeSyncProofs ----------------------------
(***************************************************************************)
(* For any entities, any limit and any number of upserts and briefings:    *)
(* the types (TypeCorrect), and that the cursor of the node covers what it *)
(* lacks (CursorSound).                                                    *)
(***************************************************************************)
EXTENDS NodeSync, TLAPS

USE BoundsAssumption

\* The pull knows no time and no briefing that the server did not have, and no
\* delta before the query; the limit cuts off what the delta does not bring.
PullBounded ==
  pull # NoPull =>
    /\ pull.asof \in since .. clock
    /\ pull.text \in 0 .. version
    /\ pull.stage = "query" => ~pull.available
    /\ pull.nodes \intersect pull.cut = {}

Types == TypeOK /\ PullBounded

\* What a delta does not bring is after generated_at, was skipped, or is cut off.
ReplyCovers ==
  pull # NoPull /\ pull.stage = "reply" /\ pull.verdict # "conflict" /\ pull.available =>
    \A e \in stale \ pull.nodes : seen[e] > pull.asof \/ e \in skipped \/ e \in pull.cut

LEMMA NoPullIsNone == NoPull \notin Pulls /\ \A p \in Pulls : p # NoPull
<1> SUFFICES ASSUME NEW p \in Pulls PROVE p # NoPull
  OBVIOUS
<1>1. p.stage \in {"query", "reply"}
  BY DEF Pulls
<1>2. NoPull.stage = "none"
  BY DEF NoPull
<1> QED  BY <1>1, <1>2

LEMMA UnderWay ==
  ASSUME TypeOK, pull.stage \in {"query", "reply"}
  PROVE  pull \in Pulls /\ pull # NoPull
<1>1. pull # NoPull
  BY DEF NoPull
<1> QED  BY <1>1 DEF TypeOK

\* What both outcomes of the delta query have in common.
LEMMA QueryKeeps ==
  ASSUME TypeOK, DeltaQuery
  PROVE  /\ pull' \in Pulls /\ pull'.stage = "reply"
         /\ pull'.asof = pull.asof /\ pull'.text = pull.text
         /\ pull'.verdict = pull.verdict
<1>1. pull \in Pulls /\ clock \in 0 .. MaxStamp
  BY UnderWay DEF DeltaQuery, TypeOK
<1>2. ASSUME NEW delta \in SUBSET Entities, NEW cut \in SUBSET Entities,
             pull' = [pull EXCEPT !.stage = "reply", !.queried = clock, !.available = TRUE,
                        !.nodes = delta, !.cut = cut]
      PROVE  /\ pull' \in Pulls /\ pull'.stage = "reply"
             /\ pull'.asof = pull.asof /\ pull'.text = pull.text
             /\ pull'.verdict = pull.verdict
  BY <1>1, <1>2 DEF Pulls
<1>3. CASE pull' = [pull EXCEPT !.stage = "reply"]
  BY <1>1, <1>3 DEF Pulls
<1>4. CASE \E delta \in SUBSET {e \in Entities : After(e)} :
             pull' = [pull EXCEPT !.stage = "reply", !.queried = clock, !.available = TRUE,
                        !.nodes = delta, !.cut = {e \in Entities : After(e)} \ delta]
  <2>1. PICK delta \in SUBSET {e \in Entities : After(e)} :
          pull' = [pull EXCEPT !.stage = "reply", !.queried = clock, !.available = TRUE,
                     !.nodes = delta, !.cut = {e \in Entities : After(e)} \ delta]
    BY <1>4
  <2>2. delta \in SUBSET Entities /\ ({e \in Entities : After(e)} \ delta) \in SUBSET Entities
    OBVIOUS
  <2> QED  BY <1>2, <2>1, <2>2
<1> QED  BY <1>3, <1>4 DEF DeltaQuery

LEMMA TypesInit == Init => Types
<1> SUFFICES ASSUME Init PROVE Types
  OBVIOUS
<1>1. seen \in [Entities -> 0 .. clock] /\ writing \in [Entities -> 0 .. clock]
  BY DEF Init
<1>2. pull \in Pulls \union {NoPull}
  BY DEF Init
<1>3. clock \in 0 .. MaxStamp /\ old \in 0 .. MaxOld /\ since \in 0 .. clock
  BY DEF Init
<1>4. version \in 0 .. MaxVersion /\ base \in 0 .. version
  BY DEF Init
<1>5. edited \in BOOLEAN /\ stale \subseteq Entities /\ skipped \subseteq stale
  BY DEF Init
<1>6. TypeOK
  BY <1>1, <1>2, <1>3, <1>4, <1>5 DEF TypeOK
<1> QED  BY <1>6 DEF Init, Types, PullBounded

LEMMA TypesStep == Types /\ [Next]_vars => Types'
<1> SUFFICES ASSUME TypeOK, PullBounded, [Next]_vars PROVE TypeOK' /\ PullBounded'
  BY DEF Types
<1> USE NoPullIsNone
<1>1. ASSUME NEW e \in Entities, TakeStamp(e) PROVE TypeOK' /\ PullBounded'
  <2>1. clock' \in 0 .. MaxStamp /\ clock' >= clock /\ old' \in 0 .. MaxOld
    BY <1>1 DEF TakeStamp, TypeOK
  <2>2. writing' \in [Entities -> 0 .. clock']
    BY <1>1, <2>1 DEF TakeStamp, TypeOK
  <2>3. seen' \in [Entities -> 0 .. clock'] /\ since' \in 0 .. clock'
    BY <1>1, <2>1 DEF TakeStamp, TypeOK, node
  <2>4. PullBounded'
    BY <1>1, <2>1 DEF TakeStamp, PullBounded, TypeOK, node, Pulls
  <2> QED  BY <1>1, <2>1, <2>2, <2>3, <2>4 DEF TakeStamp, TypeOK, node, ghost
<1>2. ASSUME NEW e \in Entities, Commit(e) PROVE TypeOK' /\ PullBounded'
  <2>1. pull' \in Pulls \union {NoPull} /\ PullBounded'
    BY <1>2 DEF Commit, TypeOK, PullBounded, Pulls, NoPull, node
  <2>2. skipped' \subseteq stale' /\ stale' \subseteq Entities
    BY <1>2 DEF Commit, TypeOK
  <2>3. seen' \in [Entities -> 0 .. clock] /\ writing' \in [Entities -> 0 .. clock]
    BY <1>2 DEF Commit, TypeOK
  <2> QED  BY <1>2, <2>1, <2>2, <2>3 DEF Commit, TypeOK, node
<1>3. CASE Publish
  BY <1>3 DEF Publish, TypeOK, PullBounded, store, node, ghost
<1>4. ASSUME NEW force \in BOOLEAN, NEW claim \in Claims, StartPull(force, claim) PROVE TypeOK' /\ PullBounded'
  <2>1. PICK server \in ServerVersions, dataHash \in BOOLEAN, briefingHash \in BOOLEAN :
          LET conflict == ~force /\ DetectPullConflict(claim, server, dataHash) IN
          pull' = [stage |-> IF conflict THEN "reply" ELSE "query",
                   verdict |-> IF conflict THEN "conflict"
                               ELSE IF BriefingUnchanged(briefingHash) THEN "unchanged" ELSE "full",
                   text |-> version, asof |-> clock, queried |-> clock,
                   available |-> FALSE, nodes |-> {}, cut |-> {}]
    BY <1>4 DEF StartPull
  <2>2. /\ pull' \in Pulls /\ pull'.asof = clock /\ pull'.text = version
        /\ ~pull'.available /\ pull'.nodes \intersect pull'.cut = {}
    BY <2>1 DEF TypeOK, Pulls, Verdicts
  <2> QED  BY <1>4, <2>2 DEF StartPull, TypeOK, PullBounded, store, node, ghost
<1>5. CASE DeltaQuery
  <2>1. pull \in Pulls /\ pull # NoPull /\ clock \in 0 .. MaxStamp
    BY <1>5, UnderWay DEF DeltaQuery, TypeOK
  <2>2. /\ pull' \in Pulls /\ pull'.stage = "reply"
        /\ pull'.asof = pull.asof /\ pull'.text = pull.text
    BY <1>5, QueryKeeps
  <2>3. pull'.nodes \intersect pull'.cut = {}
    <3>1. ASSUME NEW delta \in SUBSET {e \in Entities : After(e)},
                 pull' = [pull EXCEPT !.stage = "reply", !.queried = clock, !.available = TRUE,
                            !.nodes = delta, !.cut = {e \in Entities : After(e)} \ delta]
          PROVE  pull'.nodes \intersect pull'.cut = {}
      <4>1. pull'.nodes = delta /\ pull'.cut = {e \in Entities : After(e)} \ delta
        BY <2>1, <3>1 DEF Pulls
      <4> QED  BY <4>1
    <3>2. ASSUME pull' = [pull EXCEPT !.stage = "reply"]
          PROVE  pull'.nodes \intersect pull'.cut = {}
      BY <2>1, <3>2 DEF PullBounded, Pulls
    <3> QED  BY <1>5, <3>1, <3>2 DEF DeltaQuery
  <2>4. UNCHANGED <<store, version, node, ghost>>
    BY <1>5 DEF DeltaQuery
  <2>5. TypeOK'
    BY <2>2, <2>4 DEF TypeOK, store, node, ghost
  <2>6. PullBounded'
    BY <2>1, <2>2, <2>3, <2>4 DEF PullBounded, store, node
  <2> QED  BY <2>5, <2>6
<1>6. CASE Apply
  <2>1. pull \in Pulls /\ pull # NoPull
    BY <1>6, UnderWay DEF Apply
  <2>2. base' \in 0 .. version /\ edited' \in BOOLEAN /\ since' \in 0 .. clock
    <3>1. base' \in 0 .. version /\ edited' \in BOOLEAN
      BY <1>6, <2>1 DEF Apply, TypeOK, PullBounded
    <3>2. since' \in 0 .. clock
      BY <1>6, <2>1 DEF Apply, Cursor, TypeOK, PullBounded
    <3> QED  BY <3>1, <3>2
  <2>3. skipped' \subseteq stale' /\ stale' \subseteq Entities
    <3>1. CASE pull.available
      <4>1. stale' = stale \ pull.nodes
            /\ skipped' \subseteq (skipped \ pull.nodes) \union (pull.cut \intersect stale)
        BY <1>6, <3>1 DEF Apply
      <4>2. pull.nodes \intersect pull.cut = {}
        BY <2>1 DEF PullBounded
      <4> QED  BY <4>1, <4>2 DEF TypeOK
    <3>2. CASE ~pull.available
      BY <1>6, <3>2 DEF Apply, TypeOK
    <3> QED  BY <3>1, <3>2
  <2> QED  BY <1>6, <2>2, <2>3 DEF Apply, TypeOK, PullBounded, store
<1>7. CASE PullFails
  BY <1>7 DEF PullFails, TypeOK, PullBounded, store, node, ghost
<1>8. CASE Edit
  BY <1>8 DEF Edit, TypeOK, PullBounded, store, ghost
<1>9. CASE UNCHANGED vars
  BY <1>9 DEF vars, TypeOK, PullBounded, store, node, ghost
<1> QED  BY <1>1, <1>2, <1>3, <1>4, <1>5, <1>6, <1>7, <1>8, <1>9 DEF Next

LEMMA TypesHold == Spec => []Types
<1> QED  BY TypesInit, TypesStep, PTL DEF Spec

\* The variables have their types: no stamp, cursor or version runs ahead of the
\* clock of _upsert_impl or of MAX(briefings.id).
THEOREM TypeCorrect == Spec => []TypeOK
<1>1. Types => TypeOK
  BY DEF Types
<1> QED  BY <1>1, TypesHold, PTL

Covered == CursorCovers /\ ReplyCovers

LEMMA CoveredInit == Init => Covered
BY DEF Init, Covered, CursorCovers, ReplyCovers

LEMMA CoveredStep == Types /\ Covered /\ [Next]_vars => Covered'
<1> SUFFICES ASSUME Types, CursorCovers, ReplyCovers, [Next]_vars
             PROVE  CursorCovers' /\ ReplyCovers'
  BY DEF Covered
<1> USE NoPullIsNone
<1>1. ASSUME NEW e \in Entities, TakeStamp(e) PROVE CursorCovers' /\ ReplyCovers'
  BY <1>1 DEF TakeStamp, CursorCovers, ReplyCovers, node, ghost
<1>2. ASSUME NEW e \in Entities, Commit(e) PROVE CursorCovers' /\ ReplyCovers'
  <2>1. stale' = stale \union {e} /\ seen' = [seen EXCEPT ![e] = writing[e]]
        /\ UNCHANGED since
    BY <1>2 DEF Commit, node
  <2>2. \A f \in stale \ {e} : seen'[f] = seen[f] /\ (f \in skipped => f \in skipped')
    BY <1>2, <2>1 DEF Commit, Types, TypeOK
  <2>3. seen'[e] = writing[e] /\ (seen'[e] > Horizon \/ e \in skipped')
    BY <1>2, <2>1 DEF Commit, Types, TypeOK
  <2>4. Horizon >= since
    BY DEF Horizon, Types, TypeOK, PullBounded, NoPull, Pulls
  <2>5. CursorCovers'
    <3>1. Horizon \in Nat /\ since \in Nat /\ seen'[e] \in Nat
      BY <1>2, <2>3 DEF Horizon, Types, TypeOK, Pulls, NoPull
    <3> QED  BY <2>1, <2>2, <2>3, <2>4, <3>1 DEF CursorCovers
  <2>6. ReplyCovers'
    <3> SUFFICES ASSUME pull' # NoPull, pull'.stage = "reply", pull'.verdict # "conflict",
                        pull'.available, NEW f \in stale' \ pull'.nodes
                 PROVE  seen'[f] > pull'.asof \/ f \in skipped' \/ f \in pull'.cut
      BY DEF ReplyCovers
    <3>1. pull \in Pulls /\ pull.stage = "reply" /\ pull' = [pull EXCEPT !.nodes = @ \ {e}]
      BY <1>2 DEF Commit, Types, TypeOK, NoPull
    <3>2. /\ pull.verdict # "conflict" /\ pull.available
          /\ pull'.asof = pull.asof /\ pull'.cut = pull.cut /\ pull'.nodes = pull.nodes \ {e}
      BY <3>1 DEF Pulls
    <3>3. CASE f = e
      BY <2>3, <3>1, <3>2, <3>3 DEF Horizon
    <3>4. CASE f # e
      BY <2>1, <2>2, <3>1, <3>2, <3>4 DEF ReplyCovers
    <3> QED  BY <3>3, <3>4
  <2> QED  BY <2>5, <2>6
<1>3. CASE Publish
  BY <1>3 DEF Publish, CursorCovers, ReplyCovers, store, node, ghost
<1>4. ASSUME NEW force \in BOOLEAN, NEW claim \in Claims, StartPull(force, claim) PROVE CursorCovers' /\ ReplyCovers'
  BY <1>4 DEF StartPull, CursorCovers, ReplyCovers, store, node, ghost
<1>5. CASE DeltaQuery
  <2>1. CursorCovers'
    BY <1>5 DEF DeltaQuery, CursorCovers, store, node, ghost
  <2>2. ReplyCovers'
    <3>1. pull \in Pulls /\ pull # NoPull /\ ~pull.available
      BY <1>5, UnderWay DEF DeltaQuery, Types, PullBounded
    <3>2. ASSUME NEW delta \in SUBSET {e \in Entities : After(e)},
                 pull' = [pull EXCEPT !.stage = "reply", !.queried = clock, !.available = TRUE,
                            !.nodes = delta, !.cut = {e \in Entities : After(e)} \ delta]
          PROVE  ReplyCovers'
      <4>1. pull'.nodes = delta /\ pull'.cut = {e \in Entities : After(e)} \ delta
        BY <3>1, <3>2 DEF Pulls
      <4>2. \A e \in stale \ delta : e \in skipped \/ e \in pull'.cut
        BY <4>1 DEF CursorCovers, After, Types, TypeOK
      <4> QED  BY <1>5, <4>1, <4>2 DEF DeltaQuery, ReplyCovers, store, ghost
    <3>3. ASSUME pull' = [pull EXCEPT !.stage = "reply"] PROVE ReplyCovers'
      BY <3>1, <3>3 DEF ReplyCovers, Pulls
    <3> QED  BY <1>5, <3>2, <3>3 DEF DeltaQuery
  <2> QED  BY <2>1, <2>2
<1>6. CASE Apply
  <2>1. pull \in Pulls /\ pull # NoPull /\ pull.stage = "reply" /\ pull.verdict # "conflict"
    BY <1>6, UnderWay DEF Apply, Types
  <2>2. CursorCovers'
    <3>1. CASE pull.available
      <4>1. \A e \in stale \ pull.nodes :
              seen[e] > pull.asof \/ e \in skipped \/ e \in pull.cut
        BY <2>1, <3>1 DEF ReplyCovers
      <4>2. /\ since' = pull.asof /\ stale' = stale \ pull.nodes /\ seen' = seen
            /\ skipped' = (skipped \ pull.nodes)
                            \union {e \in pull.cut \intersect stale : seen[e] <= pull.asof}
        BY <1>6, <3>1 DEF Apply, Cursor, store
      <4>3. \A e \in stale : seen[e] \in Nat /\ pull.asof \in Nat
        BY <2>1 DEF Types, TypeOK, Pulls
      <4> QED  BY <4>1, <4>2, <4>3 DEF CursorCovers
    <3>2. CASE ~pull.available
      BY <1>6, <3>2 DEF Apply, CursorCovers, store
    <3> QED  BY <3>1, <3>2
  <2> QED  BY <1>6, <2>2 DEF Apply, ReplyCovers
<1>7. CASE PullFails
  BY <1>7 DEF PullFails, CursorCovers, ReplyCovers, store, node, ghost
<1>8. CASE Edit
  BY <1>8 DEF Edit, CursorCovers, ReplyCovers, store, ghost
<1>9. CASE UNCHANGED vars
  BY <1>9 DEF vars, CursorCovers, ReplyCovers, store, node, ghost
<1> QED  BY <1>1, <1>2, <1>3, <1>4, <1>5, <1>6, <1>7, <1>8, <1>9 DEF Next

\* What the node lacks is ahead of its cursor or was skipped: generated_at is
\* older than the delta query, so an upsert that commits between the two, or
\* while the reply is on its way, is found by the next delta.
THEOREM CursorSound == Spec => []CursorCovers
<1>1. Spec => []Covered
  BY CoveredInit, CoveredStep, TypesHold, PTL DEF Spec
<1>2. Covered => CursorCovers
  BY DEF Covered
<1> QED  BY <1>1, <1>2, PTL

===============================================================================
