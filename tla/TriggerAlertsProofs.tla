-------------------------- MODULE TriggerAlertsProofs --------------------------
(***************************************************************************)
(* For any rules, nodes, cooldown and page and any number of rounds,       *)
(* crashes, failed queries and dismissals: a round of the autopilot that   *)
(* ends has told every node of every rule it fired, or nobody of any       *)
(* (RoundsComplete), a rule repeats itself only with an excuse             *)
(* (NoRepeatUnexcused), and commands are first run in their order          *)
(* (FirstInOrder). RoundInv is about the round, CooldownInv about the log, *)
(* CommandInv about the rows of a node and what it has polled of them.     *)
(***************************************************************************)
EXTENDS TriggerAlerts, FiniteSetTheorems, SequenceTheorems, TLAPS

RoundTypes ==
  /\ enabled \subseteq Rules /\ todo \subseteq Rules /\ fired \in Seq(Rules)
  /\ phase \in {"idle", "autopilot", "route", "push"} /\ trouble \in Nat

\* What is due is still on the list: all of what the autopilot has fired, and in
\* the push the first rule for the targets and the others for every node.
DueIsListed ==
  CASE phase = "autopilot" -> due \subseteq ToSet(fired) \X known
    [] phase = "push"      -> fired # <<>> /\ due \subseteq ({Head(fired)} \X targets)
                                                \union (ToSet(Tail(fired)) \X known)
    [] phase = "route"     -> due = {}
    [] OTHER               -> due \subseteq Rules \X known

RoundInv == RoundTypes /\ DueIsListed

LEMMA FirstAndOthers ==
  ASSUME NEW S, NEW s \in Seq(S), s # <<>>
  PROVE  Head(s) \in S /\ Tail(s) \in Seq(S) /\ ToSet(s) = {Head(s)} \union ToSet(Tail(s))
<1>1. Head(s) \in S /\ Tail(s) \in Seq(S)
  OBVIOUS
<1>2. ToSet(s) \subseteq {Head(s)} \union ToSet(Tail(s))
  <2> SUFFICES ASSUME NEW i \in 1 .. Len(s) PROVE s[i] \in {Head(s)} \union ToSet(Tail(s))
    BY DEF ToSet
  <2>1. CASE i = 1
    <3>1. s[i] = Head(s)
      BY <2>1
    <3> QED  BY <3>1
  <2>2. CASE i # 1
    <3>1. i - 1 \in 1 .. Len(Tail(s)) /\ Tail(s)[i - 1] = s[i]
      BY <2>2
    <3>2. DOMAIN Tail(s) = 1 .. Len(Tail(s))
      BY <1>1
    <3> DEFINE rest == Tail(s)
    <3>3. i - 1 \in DOMAIN rest /\ rest[i - 1] = s[i]
      BY <3>1, <3>2
    <3> HIDE DEF rest
    <3>4. s[i] \in ToSet(rest)
      BY <3>3 DEF ToSet
    <3> QED  BY <3>4 DEF rest
  <2> QED  BY <2>1, <2>2
<1>3. {Head(s)} \union ToSet(Tail(s)) \subseteq ToSet(s)
  <2>1. Head(s) \in ToSet(s)
    BY DEF ToSet
  <2>2. ASSUME NEW i \in 1 .. Len(Tail(s)) PROVE Tail(s)[i] \in ToSet(s)
    <3>1. Tail(s)[i] = s[i + 1] /\ i + 1 \in 1 .. Len(s)
      OBVIOUS
    <3> QED  BY <3>1 DEF ToSet
  <2> QED  BY <1>1, <2>1, <2>2 DEF ToSet
<1> QED  BY <1>1, <1>2, <1>3

LEMMA OneMore ==
  ASSUME NEW S, NEW s \in Seq(S), NEW e \in S
  PROVE  Append(s, e) \in Seq(S) /\ ToSet(s) \union {e} \subseteq ToSet(Append(s, e))
<1>1. Append(s, e) \in Seq(S) /\ Len(Append(s, e)) = Len(s) + 1
  OBVIOUS
<1>2. e \in ToSet(Append(s, e))
  <2>1. Append(s, e)[Len(s) + 1] = e /\ Len(s) + 1 \in 1 .. Len(Append(s, e))
    BY <1>1
  <2> QED  BY <1>1, <2>1 DEF ToSet
<1>3. ASSUME NEW i \in 1 .. Len(s) PROVE s[i] \in ToSet(Append(s, e))
  <2>1. Append(s, e)[i] = s[i] /\ i \in 1 .. Len(Append(s, e))
    BY <1>1
  <2> QED  BY <1>1, <2>1 DEF ToSet
<1> QED  BY <1>1, <1>2, <1>3 DEF ToSet

LEMMA FiredRules == RoundInv => ToSet(fired) \subseteq Rules
BY LenProperties, ElementOfSeq DEF RoundInv, RoundTypes, ToSet

LEMMA RoundInit == Init => RoundInv
BY DEF Init, RoundInv, RoundTypes, DueIsListed

LEMMA EvaluateStep == ASSUME RoundInv, NEW m \in BOOLEAN, Evaluate(m) PROVE RoundInv'
<1>1. PICK r \in todo :
        /\ todo' = todo \ {r}
        /\ IF m /\ ~OnCooldown(r)
           THEN /\ fired' = Append(fired, r)
                /\ due' = IF phase = "autopilot" THEN due \union ({r} \X known) ELSE due
           ELSE UNCHANGED <<fired, due>>
  BY DEF Evaluate
<1>2. phase \in {"autopilot", "route"} /\ UNCHANGED <<enabled, known, phase>>
      /\ trouble' \in Nat
  BY DEF Evaluate, Trouble, RoundInv, RoundTypes
<1>3. r \in Rules /\ fired \in Seq(Rules)
  BY <1>1 DEF RoundInv, RoundTypes
<1>4. RoundTypes'
  BY <1>1, <1>2, <1>3, OneMore DEF RoundInv, RoundTypes
<1>5. DueIsListed'
  <2>1. CASE phase = "route"
    <3>1. due' = {} /\ phase' = "route"
      BY <1>1, <1>2, <2>1 DEF RoundInv, DueIsListed
    <3> QED  BY <3>1 DEF DueIsListed
  <2>2. CASE phase = "autopilot" /\ UNCHANGED <<fired, due>>
    BY <1>2, <2>2 DEF RoundInv, DueIsListed
  <2>3. CASE phase = "autopilot" /\ fired' = Append(fired, r)
              /\ due' = due \union ({r} \X known)
    <3>1. due \subseteq ToSet(fired) \X known
      BY <2>3 DEF RoundInv, DueIsListed
    <3>2. ToSet(fired) \subseteq ToSet(fired') /\ r \in ToSet(fired')
      BY <1>3, <2>3, OneMore
    <3>3. due' \subseteq ToSet(fired') \X known'
      BY <1>2, <2>3, <3>1, <3>2
    <3> QED  BY <1>2, <2>3, <3>3 DEF DueIsListed
  <2> QED  BY <1>1, <1>2, <2>1, <2>2, <2>3
<1> QED  BY <1>4, <1>5 DEF RoundInv

LEMMA EvaluatedStep ==
  ASSUME RoundInv, Evaluated
  PROVE  RoundInv' /\ (phase' = "idle" => due' = {})
<1>1. phase \in {"autopilot", "route"} /\ UNCHANGED <<enabled, known, todo, due, trouble>>
  BY DEF Evaluated, server
<1>2. CASE phase = "autopilot" /\ fired # <<>> /\ known # {}
  <2>1. phase' = "push" /\ targets' = known /\ UNCHANGED fired
    BY <1>2 DEF Evaluated
  <2>2. due \subseteq ToSet(fired) \X known
    BY <1>2 DEF RoundInv, DueIsListed
  <2>3. ToSet(fired) = {Head(fired)} \union ToSet(Tail(fired))
    BY <1>2, FirstAndOthers DEF RoundInv, RoundTypes
  <2>4. due' \subseteq ({Head(fired)} \X targets') \union (ToSet(Tail(fired)) \X known')
    BY <1>1, <2>1, <2>2, <2>3
  <2> QED  BY <1>1, <1>2, <2>1, <2>4 DEF RoundInv, RoundTypes, DueIsListed
<1>3. CASE ~(phase = "autopilot" /\ fired # <<>> /\ known # {})
  <2>1. phase' = "idle" /\ fired' = <<>>
    BY <1>3 DEF Evaluated
  <2>2. due = {}
    <3>1. CASE phase = "autopilot"
      <4>1. due \subseteq ToSet(fired) \X known /\ (fired = <<>> \/ known = {})
        BY <1>3, <3>1 DEF RoundInv, DueIsListed
      <4>2. fired = <<>> => ToSet(fired) = {}
        BY DEF ToSet
      <4> QED  BY <4>1, <4>2
    <3>2. CASE phase = "route"
      BY <3>2 DEF RoundInv, DueIsListed
    <3> QED  BY <1>1, <3>1, <3>2
  <2> QED  BY <1>1, <2>1, <2>2 DEF RoundInv, RoundTypes, DueIsListed
<1> QED  BY <1>2, <1>3

LEMMA CutOffStep ==
  ASSUME RoundInv, EvaluationRaises \/ NodesUnread
  PROVE  RoundInv' /\ (due' = {} \/ (phase = "autopilot" /\ trouble' # trouble))
<1>1. /\ phase \in {"autopilot", "route"} /\ trouble' = trouble + 1 /\ UNCHANGED <<enabled, known, due>>
      /\ phase' = "idle" /\ todo' = {} /\ fired' = <<>>
  BY DEF EvaluationRaises, NodesUnread, CutOff, Trouble, server
<1>2. trouble \in Nat BY DEF RoundInv, RoundTypes
<1>3. trouble' \in Nat /\ trouble' # trouble BY <1>1, <1>2
<1>4. CASE phase = "autopilot"
  <2>1. due' \subseteq Rules \X known' BY <1>1, <1>4, FiredRules DEF RoundInv, DueIsListed
  <2> QED BY <1>1, <1>3, <1>4, <2>1 DEF RoundInv, RoundTypes, DueIsListed
<1>5. CASE phase = "route"
  <2>1. due' = {} BY <1>1, <1>5 DEF RoundInv, DueIsListed
  <2> QED BY <1>1, <1>3, <1>5, <2>1 DEF RoundInv, RoundTypes, DueIsListed
<1> QED BY <1>1, <1>4, <1>5

LEMMA PushStep ==
  ASSUME RoundInv, NEW n \in Nodes, Push(n)
  PROVE  RoundInv' /\ (phase' = "idle" => due' = {})
<1> DEFINE nodes == targets \ {n}
           more == IF nodes = {} THEN Tail(fired) ELSE fired
<1>1. /\ phase = "push" /\ UNCHANGED <<enabled, known, todo>>
      /\ due' = due \ {<<Head(fired), n>>}
      /\ fired' = more
      /\ targets' = IF nodes = {} /\ more # <<>> THEN known ELSE nodes
      /\ phase' = IF more = <<>> THEN "idle" ELSE "push"
      /\ trouble' \in Nat
  BY DEF Push, Rest, Trouble, RoundInv, RoundTypes
<1>2. /\ fired \in Seq(Rules) /\ fired # <<>>
      /\ due \subseteq ({Head(fired)} \X targets) \union (ToSet(Tail(fired)) \X known)
  BY <1>1 DEF RoundInv, RoundTypes, DueIsListed
<1>3. Tail(fired) \in Seq(Rules)
  BY <1>2, FirstAndOthers
<1>4. RoundTypes'
  BY <1>1, <1>2, <1>3 DEF RoundInv, RoundTypes
<1>5. due' \subseteq ({Head(fired)} \X nodes) \union (ToSet(Tail(fired)) \X known)
  BY <1>1, <1>2
<1>6. CASE nodes # {}
  <2>1. phase' = "push" /\ fired' = fired /\ targets' = nodes /\ known' = known
    BY <1>1, <1>2, <1>6
  <2> QED  BY <1>2, <1>4, <1>5, <2>1 DEF RoundInv, DueIsListed
<1>7. CASE nodes = {} /\ Tail(fired) = <<>>
  <2>1. ToSet(Tail(fired)) = {}
    BY <1>7 DEF ToSet
  <2>2. phase' = "idle" /\ due' = {}
    BY <1>1, <1>5, <1>7, <2>1
  <2> QED  BY <1>4, <2>2 DEF RoundInv, DueIsListed
<1>8. CASE nodes = {} /\ Tail(fired) # <<>>
  <2>1. phase' = "push" /\ fired' = Tail(fired) /\ targets' = known /\ known' = known
    BY <1>1, <1>8
  <2>2. ToSet(fired') = {Head(fired')} \union ToSet(Tail(fired'))
    BY <1>3, <1>8, <2>1, FirstAndOthers
  <2>3. due' \subseteq ({Head(fired')} \X targets') \union (ToSet(Tail(fired')) \X known')
    BY <1>5, <1>8, <2>1, <2>2
  <2> QED  BY <1>4, <1>8, <2>1, <2>3 DEF RoundInv, DueIsListed
<1> QED  BY <1>6, <1>7, <1>8

LEMMA RoundStepHolds == RoundInv /\ [Next]_vars => RoundInv'
<1> SUFFICES ASSUME RoundInv, [Next]_vars PROVE RoundInv'
  OBVIOUS
<1> USE DEF RoundInv, RoundTypes, DueIsListed
<1>1. ASSUME NEW caller \in {"autopilot", "route"}, StartRound(caller) PROVE RoundInv'
  BY <1>1 DEF StartRound, Trouble, server
<1>2. CASE RoundStep
  BY <1>2, EvaluateStep, EvaluatedStep, CutOffStep, PushStep DEF RoundStep
<1>3. CASE Crash
  BY <1>3 DEF Crash, Trouble, server
<1>4. ASSUME NEW r \in Rules, Dismiss(r) PROVE RoundInv'
  BY <1>4 DEF Dismiss, round
<1>5. ASSUME NEW r \in Rules, DeleteRule(r) PROVE RoundInv'
  BY <1>5 DEF DeleteRule, round
<1>6. ASSUME NEW r \in Rules, NEW on \in BOOLEAN, CreateRule(r, on) PROVE RoundInv'
  BY <1>6 DEF CreateRule, round
<1>7. ASSUME NEW n \in Nodes, Register(n) PROVE RoundInv'
  BY <1>7 DEF Register, round
<1>8. ASSUME NEW n \in Nodes,
             QueueCommand(n) \/ PollCommands(n) \/ AckCommand(n)
               \/ RunCommand(n) \/ AckLost(n) \/ NodeRestarts(n)
      PROVE  RoundInv'
  BY <1>8 DEF QueueCommand, PollCommands, AckCommand, RunCommand, AckLost, NodeRestarts, server, round
<1>9. CASE Tick
  BY <1>9 DEF Tick, round
<1>10. CASE UNCHANGED vars
  BY <1>10 DEF vars, server, round
<1> QED  BY <1>1, <1>2, <1>3, <1>4, <1>5, <1>6, <1>7, <1>8, <1>9, <1>10 DEF Next

\* A round of evaluate_triggers and push_trigger_to_nodes that comes to its end
\* has queued the command of every rule it fired for every node it knew, except
\* where that very INSERT raised or the process died; or, after the error of a
\* query, no command at all.
THEOREM RoundsComplete == Spec => AllOrNobody
<1> DEFINE Step == phase # "idle" /\ phase' = "idle" =>
                     due' = {} \/ (phase = "autopilot" /\ trouble' # trouble)
<1>1. RoundInv /\ [Next]_vars => [Step]_vars
  <2> SUFFICES ASSUME RoundInv, Next, phase # "idle", phase' = "idle"
               PROVE  due' = {} \/ (phase = "autopilot" /\ trouble' # trouble)
    OBVIOUS
  <2>1. CASE RoundStep
    <3>1. ASSUME NEW m \in BOOLEAN, Evaluate(m) PROVE FALSE
      BY <3>1 DEF Evaluate
    <3> QED BY <2>1, <3>1, EvaluatedStep, CutOffStep, PushStep DEF RoundStep
  <2>2. CASE Crash BY <2>2 DEF Crash
  <2>3. CASE ~(RoundStep \/ Crash)
    <3>1. ASSUME NEW n \in Nodes, RunCommand(n) \/ AckLost(n) \/ NodeRestarts(n) PROVE FALSE
      BY <3>1 DEF RunCommand, AckLost, NodeRestarts, round
    <3>2. phase = "idle"
      BY <2>3, <3>1 DEF Next, StartRound, Dismiss, DeleteRule, CreateRule, Register,
           QueueCommand, PollCommands, AckCommand, Tick
    <3> QED BY <3>2
  <2> QED BY <2>1, <2>2, <2>3
<1>2. RoundInv /\ [Next]_vars => RoundInv' BY RoundStepHolds
<1> QED BY <1>1, <1>2, RoundInit, PTL DEF Spec, AllOrNobody

-----------------------------------------------------------------------------
(* The cooldown *)

Windows == Seq(1 .. Cooldown)

Ascends(left) == \A i, j \in 1 .. Len(left) : i <= j => left[i] <= left[j]

\* The latest row of the log answers for the newest fire as long as it cools.
Answers(c) == IF c > 0 THEN 1 ELSE 0

\* Counted from the newest, each fire but that one has a slip of its own that
\* is no older, so it does not outlive its excuse. fires, excuses and c are the
\* shots, slips and the cooldown of a rule.
ExcusedBy(fires, excuses, c) ==
  /\ fires \in Windows /\ Ascends(fires)
  /\ excuses \in Windows /\ Ascends(excuses)
  /\ c \in 0 .. Cooldown
  /\ c > 0 => \A i \in 1 .. Len(fires) : fires[i] <= c
  /\ \A i \in 1 .. Len(fires) - Answers(c) :
       LET k == Len(excuses) - Len(fires) + Answers(c) + i IN
       k \in 1 .. Len(excuses) /\ excuses[k] >= fires[i]

CooldownInv ==
  /\ shots \in [Rules -> Windows] /\ slips \in [Rules -> Windows]
  /\ cooling \in [Rules -> 0 .. Cooldown]
  /\ \A r \in Rules : ExcusedBy(shots[r], slips[r], cooling[r])

LEMMA EachWindow ==
  ASSUME NEW left \in Windows
  PROVE  /\ Len(left) \in Nat /\ DOMAIN left = 1 .. Len(left)
         /\ \A i \in 1 .. Len(left) : left[i] \in 1 .. Cooldown
<1> DEFINE T == 1 .. Cooldown
<1>1. left \in Seq(T) BY DEF Windows
<1> HIDE DEF T
<1>2. Len(left) \in Nat /\ DOMAIN left = 1 .. Len(left) /\ \A i \in 1 .. Len(left) : left[i] \in T
  BY <1>1, LenProperties, ElementOfSeq
<1> QED BY <1>2 DEF T

\* A new window is the longest.
LEMMA NewWindow ==
  ASSUME NEW left \in Windows, Ascends(left)
  PROVE  /\ Append(left, Cooldown) \in Windows /\ Ascends(Append(left, Cooldown))
         /\ Len(left) \in Nat /\ Len(Append(left, Cooldown)) = Len(left) + 1
         /\ Append(left, Cooldown)[Len(left) + 1] = Cooldown
         /\ \A i \in 1 .. Len(left) : Append(left, Cooldown)[i] = left[i] /\ left[i] \in 1 .. Cooldown
<1>0. Cooldown \in 1 .. Cooldown /\ Cooldown \in Nat
  BY CooldownAssumption
<1>1. left \in Seq(1 .. Cooldown) BY DEF Windows
<1> DEFINE more == Append(left, Cooldown)
<1>2. /\ more \in Seq(1 .. Cooldown) /\ Len(left) \in Nat /\ Len(more) = Len(left) + 1
      /\ more[Len(left) + 1] = Cooldown
      /\ \A i \in 1 .. Len(left) : more[i] = left[i]
  BY <1>0, <1>1, AppendProperties
<1>3. \A i \in 1 .. Len(left) : left[i] \in 1 .. Cooldown BY EachWindow
<1> HIDE DEF more
<1>4. Ascends(more)
  <2> SUFFICES ASSUME NEW i \in 1 .. Len(more), NEW j \in 1 .. Len(more), i <= j
               PROVE  more[i] <= more[j]
    BY DEF Ascends
  <2>1. CASE j = Len(left) + 1
    <3>0. more \in Windows BY <1>2 DEF Windows
    <3>1. more[i] \in 1 .. Cooldown BY <3>0, EachWindow
    <3> QED BY <1>0, <1>2, <2>1, <3>1
  <2>2. CASE j # Len(left) + 1
    <3>1. i \in 1 .. Len(left) /\ j \in 1 .. Len(left) BY <1>2, <2>2
    <3>2. left[i] <= left[j] BY <3>1 DEF Ascends
    <3> QED BY <1>2, <3>1, <3>2
  <2> QED BY <2>1, <2>2
<1> QED BY <1>2, <1>3, <1>4 DEF more, Windows

\* In windows that ascend, those that end are the first.
LEMMA OlderWindows ==
  ASSUME NEW left \in Windows, Ascends(left)
  PROVE  \E ended \in 0 .. Len(left) :
           /\ Older(left) \in Windows /\ Ascends(Older(left))
           /\ Len(Older(left)) = Len(left) - ended
           /\ \A i \in 1 .. Len(left) - ended : Older(left)[i] = left[i + ended] - 1
           /\ \A i \in 1 .. Len(left) : i <= ended <=> left[i] <= 1
<1> DEFINE D == {i \in 1 .. Len(left) : left[i] <= 1}
           m == Cardinality(D)
           older == [i \in 1 .. Len(left) - m |-> left[i + m] - 1]
<1>0. /\ left \in Seq(1 .. Cooldown) /\ Len(left) \in Nat /\ DOMAIN left = 1 .. Len(left)
      /\ \A i \in 1 .. Len(left) : left[i] \in 1 .. Cooldown
      /\ Cooldown \in Nat
  BY CooldownAssumption, EachWindow DEF Windows
<1>1. IsFiniteSet(1 .. Len(left)) /\ Cardinality(1 .. Len(left)) = Len(left)
  <2>1. 1 \in Int /\ Len(left) \in Int /\ (~(1 > Len(left)) => Len(left) - 1 + 1 = Len(left))
        /\ (1 > Len(left) => Len(left) = 0) BY <1>0
  <2> QED BY <2>1, FS_Interval
<1>2. D \in SUBSET (1 .. Len(left)) OBVIOUS
<1>3. IsFiniteSet(D) /\ m \in Nat /\ m <= Len(left)
  BY <1>1, <1>2, FS_Subset, FS_CardinalityType
<1>4. ASSUME NEW i \in D PROVE i <= m
  <2>1. 1 .. i \in SUBSET D
    BY <1>0 DEF Ascends
  <2>2. Cardinality(1 .. i) = i
    BY <1>0, FS_Interval
  <2> QED BY <1>3, <2>1, <2>2, FS_Subset
<1>5. D = 1 .. m
  <2>1. D \in SUBSET (1 .. m) BY <1>0, <1>4
  <2>2. IsFiniteSet(1 .. m) /\ Cardinality(1 .. m) = m BY <1>3, FS_Interval
  <2> QED BY <2>1, <2>2, FS_Subset
<1>6. \A i \in 1 .. Len(left) : i <= m <=> left[i] <= 1
  BY <1>3, <1>5
<1>7. Older(left) = older
  BY <1>0 DEF Older
<1> HIDE DEF D, m
<1>8. \A i \in 1 .. Len(left) - m : i + m \in 1 .. Len(left) /\ left[i + m] - 1 \in 1 .. Cooldown
  <2> TAKE i \in 1 .. Len(left) - m
  <2>1. i + m \in 1 .. Len(left) /\ ~(i + m <= m) BY <1>0, <1>3
  <2>2. left[i + m] \in 1 .. Cooldown /\ ~(left[i + m] <= 1) BY <1>0, <1>6, <2>1
  <2> QED BY <1>0, <2>1, <2>2
<1>9. Len(left) - m \in Nat BY <1>0, <1>3
<1>10. older \in Seq(1 .. Cooldown) /\ Len(older) = Len(left) - m
  <2> DEFINE l == Len(left) - m
             T == 1 .. Cooldown
             e(i) == left[i + m] - 1
  <2>1. l \in Nat /\ \A i \in 1 .. l : e(i) \in T BY <1>8, <1>9
  <2>2. older = [i \in 1 .. l |-> e(i)] OBVIOUS
  <2> HIDE DEF l, T, e
  <2>3. [i \in 1 .. l |-> e(i)] \in Seq(T) BY <2>1, IsASeq
  <2>4. Len([i \in 1 .. l |-> e(i)]) = l BY <2>1
  <2> HIDE DEF older
  <2>5. older \in Seq(T) /\ Len(older) = l BY <2>2, <2>3, <2>4
  <2> QED BY <2>5 DEF l, T
<1>11. \A i \in 1 .. Len(left) - m : older[i] = left[i + m] - 1
  OBVIOUS
<1> HIDE DEF older
<1>12. Ascends(older)
  <2> SUFFICES ASSUME NEW i \in 1 .. Len(left) - m, NEW j \in 1 .. Len(left) - m, i <= j
               PROVE  older[i] <= older[j]
    BY <1>10 DEF Ascends
  <2>1. i + m \in 1 .. Len(left) /\ j + m \in 1 .. Len(left) /\ i + m <= j + m
    BY <1>3, <1>8
  <2>2. left[i + m] <= left[j + m] BY <2>1 DEF Ascends
  <2>3. left[i + m] \in Int /\ left[j + m] \in Int BY <1>0, <2>1
  <2> QED BY <1>11, <2>2, <2>3
<1>13. m \in 0 .. Len(left) BY <1>0, <1>3
<1> QED BY <1>6, <1>7, <1>10, <1>11, <1>12, <1>13 DEF Windows

LEMMA FireLogged ==
  ASSUME NEW fires, NEW excuses, ExcusedBy(fires, excuses, 0)
  PROVE  ExcusedBy(Append(fires, Cooldown), excuses, Cooldown)
<1>1. /\ fires \in Windows /\ Ascends(fires) /\ excuses \in Windows /\ Ascends(excuses)
      /\ \A i \in 1 .. Len(fires) :
           /\ Len(excuses) - Len(fires) + i \in 1 .. Len(excuses)
           /\ excuses[Len(excuses) - Len(fires) + i] >= fires[i]
  <2>1. fires \in Windows /\ Len(fires) \in Nat /\ Len(excuses) \in Nat BY DEF ExcusedBy, Windows
  <2> QED BY <2>1 DEF ExcusedBy, Answers
<1> DEFINE more == Append(fires, Cooldown)
<1>2. /\ more \in Windows /\ Ascends(more) /\ Len(fires) \in Nat /\ Len(excuses) \in Nat
      /\ Len(more) = Len(fires) + 1
      /\ more[Len(fires) + 1] = Cooldown
      /\ \A i \in 1 .. Len(fires) : more[i] = fires[i] /\ fires[i] \in 1 .. Cooldown
  BY <1>1, NewWindow DEF Windows
<1> HIDE DEF more
<1>3. Cooldown > 0 /\ Cooldown \in 0 .. Cooldown /\ Answers(Cooldown) = 1
  BY CooldownAssumption DEF Answers
<1>4. \A i \in 1 .. Len(more) : more[i] <= Cooldown
  BY <1>2, CooldownAssumption DEF Windows
<1>5. \A i \in 1 .. Len(more) - 1 :
        /\ Len(excuses) - Len(more) + 1 + i \in 1 .. Len(excuses)
        /\ excuses[Len(excuses) - Len(more) + 1 + i] >= more[i]
  <2> TAKE i \in 1 .. Len(more) - 1
  <2>1. i \in 1 .. Len(fires) /\ Len(excuses) - Len(more) + 1 + i = Len(excuses) - Len(fires) + i
    BY <1>2
  <2> QED BY <1>1, <1>2, <2>1
<1> QED BY <1>1, <1>2, <1>3, <1>4, <1>5 DEF ExcusedBy, more

LEMMA FireLost ==
  ASSUME NEW fires, NEW excuses, ExcusedBy(fires, excuses, 0)
  PROVE  ExcusedBy(Append(fires, Cooldown), Append(excuses, Cooldown), 0)
<1>1. /\ fires \in Windows /\ Ascends(fires) /\ excuses \in Windows /\ Ascends(excuses)
      /\ \A i \in 1 .. Len(fires) :
           /\ Len(excuses) - Len(fires) + i \in 1 .. Len(excuses)
           /\ excuses[Len(excuses) - Len(fires) + i] >= fires[i]
  <2>1. fires \in Windows /\ Len(fires) \in Nat /\ Len(excuses) \in Nat BY DEF ExcusedBy, Windows
  <2> QED BY <2>1 DEF ExcusedBy, Answers
<1> DEFINE more == Append(fires, Cooldown)
           rest == Append(excuses, Cooldown)
<1>2. /\ more \in Windows /\ Ascends(more) /\ Len(fires) \in Nat /\ Len(more) = Len(fires) + 1
      /\ more[Len(fires) + 1] = Cooldown
      /\ \A i \in 1 .. Len(fires) : more[i] = fires[i]
  BY <1>1, NewWindow
<1>3. /\ rest \in Windows /\ Ascends(rest) /\ Len(excuses) \in Nat /\ Len(rest) = Len(excuses) + 1
      /\ rest[Len(excuses) + 1] = Cooldown
      /\ \A i \in 1 .. Len(excuses) : rest[i] = excuses[i]
  BY <1>1, NewWindow
<1> HIDE DEF more, rest
<1>4. \A i \in 1 .. Len(more) :
        /\ Len(rest) - Len(more) + i \in 1 .. Len(rest)
        /\ rest[Len(rest) - Len(more) + i] >= more[i]
  <2> TAKE i \in 1 .. Len(more)
  <2>0. Len(rest) - Len(more) + i = Len(excuses) - Len(fires) + i BY <1>2, <1>3
  <2>1. CASE i \in 1 .. Len(fires)
    <3>1. Len(excuses) - Len(fires) + i \in 1 .. Len(excuses) BY <1>1, <2>1
    <3> QED BY <1>1, <1>2, <1>3, <2>0, <2>1, <3>1
  <2>2. CASE i = Len(fires) + 1
    <3>1. Len(excuses) - Len(fires) + i = Len(excuses) + 1 BY <1>2, <1>3, <2>2
    <3> QED BY <1>2, <1>3, <2>0, <2>2, <3>1, CooldownAssumption
  <2> QED BY <1>2, <2>1, <2>2
<1>5. Answers(0) = 0 /\ 0 \in 0 .. Cooldown BY CooldownAssumption DEF Answers
<1>6. \A i \in 1 .. Len(more) - Answers(0) :
        LET k == Len(rest) - Len(more) + Answers(0) + i IN
        k \in 1 .. Len(rest) /\ rest[k] >= more[i]
  BY <1>2, <1>3, <1>4, <1>5
<1> QED BY <1>2, <1>3, <1>5, <1>6 DEF ExcusedBy, more, rest

LEMMA Dismissed ==
  ASSUME NEW fires, NEW excuses, NEW c, c > 0, ExcusedBy(fires, excuses, c)
  PROVE  ExcusedBy(fires, Append(excuses, Cooldown), 0)
<1>0. Answers(c) = 1 BY DEF Answers
<1>1. /\ fires \in Windows /\ Ascends(fires) /\ excuses \in Windows /\ Ascends(excuses)
      /\ Len(fires) \in Nat
      /\ \A i \in 1 .. Len(fires) : fires[i] \in 1 .. Cooldown
      /\ \A i \in 1 .. Len(fires) - 1 :
           /\ Len(excuses) - Len(fires) + 1 + i \in 1 .. Len(excuses)
           /\ excuses[Len(excuses) - Len(fires) + 1 + i] >= fires[i]
  <2>1. fires \in Windows /\ Len(fires) \in Nat BY EachWindow DEF ExcusedBy
  <2>2. \A i \in 1 .. Len(fires) : fires[i] \in 1 .. Cooldown BY <2>1, EachWindow
  <2> QED BY <1>0, <2>1, <2>2 DEF ExcusedBy
<1> DEFINE rest == Append(excuses, Cooldown)
<1>3. /\ rest \in Windows /\ Ascends(rest) /\ Len(excuses) \in Nat /\ Len(rest) = Len(excuses) + 1
      /\ rest[Len(excuses) + 1] = Cooldown
      /\ \A i \in 1 .. Len(excuses) : rest[i] = excuses[i]
  BY <1>1, NewWindow
<1> HIDE DEF rest
<1>4. \A i \in 1 .. Len(fires) :
        /\ Len(rest) - Len(fires) + i \in 1 .. Len(rest)
        /\ rest[Len(rest) - Len(fires) + i] >= fires[i]
  <2> TAKE i \in 1 .. Len(fires)
  <2>0. Len(rest) - Len(fires) + i = Len(excuses) - Len(fires) + 1 + i BY <1>1, <1>3
  <2>1. CASE i \in 1 .. Len(fires) - 1
    <3>1. Len(excuses) - Len(fires) + 1 + i \in 1 .. Len(excuses) BY <1>1, <2>1
    <3> QED BY <1>1, <1>3, <2>0, <2>1, <3>1
  <2>2. CASE i = Len(fires)
    <3>1. Len(excuses) - Len(fires) + 1 + i = Len(excuses) + 1 BY <1>1, <1>3, <2>2
    <3>2. fires[i] <= Cooldown BY <1>1, CooldownAssumption
    <3> QED BY <1>3, <2>0, <3>1, <3>2
  <2> QED BY <1>1, <2>1, <2>2
<1>5. Answers(0) = 0 /\ 0 \in 0 .. Cooldown BY CooldownAssumption DEF Answers
<1>6. \A i \in 1 .. Len(fires) - Answers(0) :
        LET k == Len(rest) - Len(fires) + Answers(0) + i IN
        k \in 1 .. Len(rest) /\ rest[k] >= fires[i]
  BY <1>1, <1>3, <1>4, <1>5
<1> QED BY <1>1, <1>3, <1>5, <1>6 DEF ExcusedBy, rest

\* A fire whose window is still open after the tick has an excuse that is: the
\* one that answers for it has at least as much left.
LEMMA TimePasses ==
  ASSUME NEW fires, NEW excuses, NEW c, ExcusedBy(fires, excuses, c)
  PROVE  ExcusedBy(Older(fires), Older(excuses), IF c > 0 THEN c - 1 ELSE 0)
<1> DEFINE d == IF c > 0 THEN c - 1 ELSE 0
           a == Answers(c)
           F == Older(fires)
           X == Older(excuses)
<1>0. /\ fires \in Windows /\ Ascends(fires) /\ excuses \in Windows /\ Ascends(excuses)
      /\ Len(fires) \in Nat /\ Len(excuses) \in Nat /\ c \in 0 .. Cooldown
      /\ \A i \in 1 .. Len(fires) : fires[i] \in 1 .. Cooldown
      /\ \A i \in 1 .. Len(excuses) : excuses[i] \in 1 .. Cooldown
      /\ c > 0 => \A i \in 1 .. Len(fires) : fires[i] <= c
      /\ a \in {0, 1}
      /\ \A i \in 1 .. Len(fires) - a :
           /\ Len(excuses) - Len(fires) + a + i \in 1 .. Len(excuses)
           /\ excuses[Len(excuses) - Len(fires) + a + i] >= fires[i]
  <2>1. fires \in Windows /\ excuses \in Windows BY DEF ExcusedBy
  <2>2. /\ Len(fires) \in Nat /\ Len(excuses) \in Nat
        /\ \A i \in 1 .. Len(fires) : fires[i] \in 1 .. Cooldown
        /\ \A i \in 1 .. Len(excuses) : excuses[i] \in 1 .. Cooldown
    BY <2>1, EachWindow
  <2>3. a \in {0, 1} BY DEF Answers
  <2> HIDE DEF F, X, d
  <2> QED BY <2>2, <2>3 DEF ExcusedBy
<1>1. PICK f \in 0 .. Len(fires) :
        /\ F \in Windows /\ Ascends(F) /\ Len(F) = Len(fires) - f
        /\ \A i \in 1 .. Len(fires) - f : F[i] = fires[i + f] - 1
        /\ \A i \in 1 .. Len(fires) : i <= f <=> fires[i] <= 1
  BY <1>0, OlderWindows
<1>2. PICK x \in 0 .. Len(excuses) :
        /\ X \in Windows /\ Ascends(X) /\ Len(X) = Len(excuses) - x
        /\ \A i \in 1 .. Len(excuses) - x : X[i] = excuses[i + x] - 1
        /\ \A i \in 1 .. Len(excuses) : i <= x <=> excuses[i] <= 1
  BY <1>0, OlderWindows
<1>3. d \in 0 .. Cooldown BY <1>0, CooldownAssumption
<1> HIDE DEF F, X
<1>4. d > 0 => \A i \in 1 .. Len(F) : F[i] <= d
  <2> SUFFICES ASSUME d > 0, NEW i \in 1 .. Len(F) PROVE F[i] <= d
    OBVIOUS
  <2>1. i + f \in 1 .. Len(fires) /\ F[i] = fires[i + f] - 1 BY <1>0, <1>1
  <2>2. fires[i + f] <= c /\ fires[i + f] \in Int BY <1>0, <2>1
  <2> QED BY <1>0, <2>1, <2>2
<1>5. \A i \in 1 .. Len(F) - Answers(d) :
        LET k == Len(X) - Len(F) + Answers(d) + i IN
        k \in 1 .. Len(X) /\ X[k] >= F[i]
  <2>1. CASE c = 1
    <3>1. \A i \in 1 .. Len(fires) : fires[i] <= 1 BY <1>0, <2>1
    <3>2. f = Len(fires)
      <4>1. Len(fires) \in 1 .. Len(fires) => Len(fires) <= f BY <1>1, <3>1
      <4> QED BY <1>0, <4>1
    <3>3. Len(F) = 0 /\ Answers(d) = 0 BY <1>0, <1>1, <2>1, <3>2 DEF Answers
    <3> QED BY <3>3
  <2>2. CASE c # 1
    <3>1. Answers(d) = a BY <1>0, <2>2 DEF Answers
    <3>2. ASSUME NEW i \in 1 .. Len(F) - a
          PROVE  /\ Len(X) - Len(F) + a + i \in 1 .. Len(X)
                 /\ X[Len(X) - Len(F) + a + i] >= F[i]
      <4> DEFINE k == Len(excuses) - Len(fires) + a + (i + f)
      <4>1. /\ i + f \in 1 .. Len(fires) - a /\ i + f \in 1 .. Len(fires) /\ ~(i + f <= f)
            /\ i \in 1 .. Len(fires) - f
        BY <1>0, <1>1
      <4>2. /\ k \in 1 .. Len(excuses) /\ excuses[k] >= fires[i + f]
            /\ ~(fires[i + f] <= 1) /\ fires[i + f] \in Int
        BY <1>0, <1>1, <4>1
      <4>3. excuses[k] \in Int /\ ~(excuses[k] <= 1) BY <1>0, <4>2
      <4>4. ~(k <= x) BY <1>2, <4>2, <4>3
      <4> HIDE DEF k
      <4>5. k - x \in 1 .. Len(excuses) - x /\ (k - x) + x = k BY <1>0, <4>2, <4>4
      <4>6. Len(X) - Len(F) + a + i = k - x BY <1>0, <1>1, <1>2 DEF k
      <4>7. X[k - x] = excuses[k] - 1 BY <1>2, <4>5
      <4>8. F[i] = fires[i + f] - 1 BY <1>1, <4>1
      <4>9. X[k - x] >= F[i] BY <4>2, <4>3, <4>7, <4>8
      <4>10. k - x \in 1 .. Len(X) BY <1>2, <4>5
      <4> QED BY <4>6, <4>9, <4>10
    <3> QED BY <3>1, <3>2
  <2> QED BY <2>1, <2>2
<1> HIDE DEF d
<1>6. ExcusedBy(F, X, d)
  BY <1>1, <1>2, <1>3, <1>4, <1>5 DEF ExcusedBy
<1> QED BY <1>6 DEF F, X, d

LEMMA CooldownInit == Init => CooldownInv
<1> SUFFICES ASSUME Init PROVE CooldownInv
  OBVIOUS
<1>1. <<>> \in Windows /\ Len(<<>>) = 0 /\ Ascends(<<>>)
  BY EmptySeq DEF Windows, Ascends
<1>2. 0 \in 0 .. Cooldown BY CooldownAssumption
<1>3. ExcusedBy(<<>>, <<>>, 0)
  BY <1>1, <1>2 DEF ExcusedBy, Answers
<1> QED BY <1>1, <1>2, <1>3 DEF Init, CooldownInv

LEMMA EvaluateCools == ASSUME CooldownInv, RoundInv, NEW m \in BOOLEAN, Evaluate(m) PROVE CooldownInv'
<1>1. PICK r \in todo :
        IF m /\ ~OnCooldown(r)
        THEN /\ shots' = [shots EXCEPT ![r] = Append(@, Cooldown)]
             /\ \/ cooling' = [cooling EXCEPT ![r] = Cooldown] /\ UNCHANGED slips
                \/ slips' = [slips EXCEPT ![r] = Append(@, Cooldown)] /\ UNCHANGED cooling
        ELSE UNCHANGED <<shots, cooling, slips>>
  BY DEF Evaluate
<1>2. r \in Rules BY <1>1 DEF RoundInv, RoundTypes
<1>3. CASE ~(m /\ ~OnCooldown(r))
  BY <1>1, <1>3 DEF CooldownInv
<1>4. CASE m /\ ~OnCooldown(r)
  <2>1. cooling[r] = 0 BY <1>2, <1>4, CooldownAssumption DEF OnCooldown, CooldownInv
  <2>2. ExcusedBy(shots[r], slips[r], 0) BY <1>2, <2>1 DEF CooldownInv
  <2>0. shots'[r] = Append(shots[r], Cooldown) BY <1>1, <1>2, <1>4 DEF CooldownInv
  <2>3. CASE cooling' = [cooling EXCEPT ![r] = Cooldown] /\ UNCHANGED slips
    <3>1. ExcusedBy(shots'[r], slips'[r], cooling'[r])
      <4>1. cooling'[r] = Cooldown /\ slips'[r] = slips[r] BY <1>2, <2>3 DEF CooldownInv
      <4> QED BY <2>0, <2>2, <4>1, FireLogged
    <3>2. shots'[r] \in Windows /\ cooling'[r] \in 0 .. Cooldown BY <3>1 DEF ExcusedBy
    <3> QED BY <1>1, <1>2, <1>4, <2>3, <3>1, <3>2 DEF CooldownInv
  <2>4. CASE slips' = [slips EXCEPT ![r] = Append(@, Cooldown)] /\ UNCHANGED cooling
    <3>1. ExcusedBy(shots'[r], slips'[r], cooling'[r])
      <4>1. cooling'[r] = 0 /\ slips'[r] = Append(slips[r], Cooldown)
        BY <1>2, <2>1, <2>4 DEF CooldownInv
      <4> QED BY <2>0, <2>2, <4>1, FireLost
    <3>2. shots'[r] \in Windows /\ slips'[r] \in Windows BY <3>1 DEF ExcusedBy
    <3> QED BY <1>1, <1>2, <1>4, <2>4, <3>1, <3>2 DEF CooldownInv
  <2> QED BY <1>1, <1>4, <2>3, <2>4
<1> QED BY <1>3, <1>4

LEMMA DismissCools == ASSUME CooldownInv, NEW r \in Rules, Dismiss(r) PROVE CooldownInv'
<1>1. /\ cooling[r] > 0 /\ cooling' = [cooling EXCEPT ![r] = 0]
      /\ slips' = [slips EXCEPT ![r] = Append(@, Cooldown)] /\ UNCHANGED shots
  BY DEF Dismiss
<1>2. ExcusedBy(shots'[r], slips'[r], cooling'[r])
  BY <1>1, Dismissed DEF CooldownInv
<1>3. slips'[r] \in Windows /\ cooling'[r] \in 0 .. Cooldown BY <1>2 DEF ExcusedBy
<1> QED BY <1>1, <1>2, <1>3 DEF CooldownInv

LEMMA TickCools == ASSUME CooldownInv, Tick PROVE CooldownInv'
<1>1. ASSUME NEW r \in Rules PROVE ExcusedBy(shots'[r], slips'[r], cooling'[r])
  <2>1. /\ cooling'[r] = (IF cooling[r] > 0 THEN cooling[r] - 1 ELSE 0)
        /\ shots'[r] = Older(shots[r]) /\ slips'[r] = Older(slips[r])
    BY DEF Tick
  <2>2. ExcusedBy(shots[r], slips[r], cooling[r]) BY DEF CooldownInv
  <2> QED BY <2>1, <2>2, TimePasses
<1>2. \A r \in Rules : shots'[r] \in Windows /\ slips'[r] \in Windows /\ cooling'[r] \in 0 .. Cooldown
  BY <1>1 DEF ExcusedBy
<1>3. /\ shots' = [r \in Rules |-> Older(shots[r])] /\ slips' = [r \in Rules |-> Older(slips[r])]
      /\ cooling' = [r \in Rules |-> IF cooling[r] > 0 THEN cooling[r] - 1 ELSE 0]
  BY DEF Tick
<1>4. shots' \in [Rules -> Windows] /\ slips' \in [Rules -> Windows] BY <1>2, <1>3
<1>5. cooling' \in [Rules -> 0 .. Cooldown] BY <1>2, <1>3
<1> QED BY <1>1, <1>4, <1>5 DEF CooldownInv

LEMMA CooldownStep == CooldownInv /\ RoundInv /\ [Next]_vars => CooldownInv'
<1> SUFFICES ASSUME CooldownInv, RoundInv, [Next]_vars PROVE CooldownInv'
  OBVIOUS
<1>1. ASSUME NEW m \in BOOLEAN, Evaluate(m) PROVE CooldownInv'
  BY <1>1, EvaluateCools
<1>2. ASSUME NEW r \in Rules, Dismiss(r) PROVE CooldownInv'
  BY <1>2, DismissCools
<1>3. CASE Tick
  BY <1>3, TickCools
<1>4. CASE UNCHANGED <<cooling, shots, slips>>
  BY <1>4 DEF CooldownInv
<1>5. ASSUME NEW caller \in {"autopilot", "route"}, StartRound(caller)
      PROVE  UNCHANGED <<cooling, shots, slips>>
  BY <1>5 DEF StartRound, server, ghost
<1>6. ASSUME Evaluated \/ EvaluationRaises \/ NodesUnread \/ Crash \/ (\E n \in Nodes : Push(n)) PROVE UNCHANGED <<cooling, shots, slips>>
  BY <1>6 DEF Evaluated, EvaluationRaises, NodesUnread, CutOff, Crash, Push, server, ghost
<1>7. ASSUME NEW r \in Rules, DeleteRule(r) \/ \E on \in BOOLEAN : CreateRule(r, on)
      PROVE  UNCHANGED <<cooling, shots, slips>>
  BY <1>7 DEF DeleteRule, CreateRule, ghost
<1>8. ASSUME NEW n \in Nodes,
             Register(n) \/ QueueCommand(n) \/ PollCommands(n) \/ AckCommand(n)
               \/ RunCommand(n) \/ AckLost(n) \/ NodeRestarts(n)
      PROVE  UNCHANGED <<cooling, shots, slips>>
  BY <1>8 DEF Register, QueueCommand, PollCommands, AckCommand, RunCommand, AckLost,
     NodeRestarts, server, ghost
<1>9. CASE UNCHANGED vars
  BY <1>4, <1>9 DEF vars, server, ghost
<1> QED BY <1>1, <1>2, <1>3, <1>4, <1>5, <1>6, <1>7, <1>8, <1>9 DEF Next, RoundStep

LEMMA RoundHolds == Spec => []RoundInv
BY RoundInit, RoundStepHolds, PTL DEF Spec

\* Within a cooldown a rule fires again only as often as its row was dismissed or
\* lost (_is_on_cooldown, _log_trigger), for any cooldown, any number of rules and
\* dismissals, whoever evaluates and whatever is created, deleted or cut off.
THEOREM NoRepeatUnexcused == Spec => []RepeatsAreExcused
<1>1. CooldownInv => RepeatsAreExcused
  <2> SUFFICES ASSUME CooldownInv, NEW r \in Rules PROVE Len(shots[r]) <= 1 + Len(slips[r])
    BY DEF RepeatsAreExcused
  <2>1. ExcusedBy(shots[r], slips[r], cooling[r]) BY DEF CooldownInv
  <2>2. Len(shots[r]) \in Nat /\ Len(slips[r]) \in Nat BY <2>1, EachWindow DEF ExcusedBy
  <2>3. 1 \in 1 .. Len(shots[r]) - Answers(cooling[r]) =>
          Len(slips[r]) - Len(shots[r]) + Answers(cooling[r]) + 1 \in 1 .. Len(slips[r])
    BY <2>1 DEF ExcusedBy
  <2> DEFINE fires == Len(shots[r])
             excuses == Len(slips[r])
             a == Answers(cooling[r])
  <2>4. a \in {0, 1} BY DEF Answers
  <2>5. fires \in Nat /\ excuses \in Nat BY <2>2
  <2>6. 1 \in 1 .. fires - a => excuses - fires + a + 1 \in 1 .. excuses BY <2>3
  <2> HIDE DEF fires, excuses, a
  <2>7. fires <= 1 + excuses BY <2>4, <2>5, <2>6
  <2> QED BY <2>7 DEF fires, excuses
<1> QED BY <1>1, CooldownInit, CooldownStep, RoundHolds, PTL DEF Spec

-----------------------------------------------------------------------------
(* The order of commands *)

Row == [name : Nat, what : {Other} \union Rules]

Distinct(rows) == \A i, j \in 1 .. Len(rows) : rows[i].name = rows[j].name => i = j

\* What a node has polled is still pending, without a gap, behind rows it has
\* run; the one it is to acknowledge has been run. rows, page, new and ran are
\* the pending rows of a node, its inbox, fresh and acking.
Polled(rows, page, new, ran) ==
  /\ rows \in Seq(Row) /\ page \in Seq(Row) /\ Distinct(rows)
  /\ \E d \in Nat :
       /\ d + Len(page) <= Len(rows)
       /\ \A k \in 1 .. Len(page) : page[k] = rows[d + k]
       /\ \A i \in 1 .. d : rows[i].name \notin new
  /\ ran => page # <<>> /\ page[1].name \notin new

CommandInv ==
  /\ pending \in [Nodes -> Seq(Row)] /\ inbox \in [Nodes -> Seq(Row)]
  /\ fresh \in [Nodes -> SUBSET Nat] /\ acking \in [Nodes -> BOOLEAN]
  /\ \A n \in Nodes : Polled(pending[n], inbox[n], fresh[n], acking[n])

\* Of one name more than there are rows, one is free.
LEMMA FreeNameIsFree ==
  ASSUME NEW n \in Nodes, pending[n] \in Seq(Row)
  PROVE  /\ FreeName(n) \in 1 .. Len(pending[n]) + 1
         /\ \A i \in 1 .. Len(pending[n]) : pending[n][i].name # FreeName(n)
<1> DEFINE rows == pending[n]
           l == Len(rows)
           S == 1 .. l + 1
           used == [i \in S |-> CHOOSE k \in 1 .. l : rows[k].name = i]
<1>1. rows \in Seq(Row) OBVIOUS
<1>2. l \in Nat /\ DOMAIN rows = 1 .. l BY <1>1, LenProperties
<1>3. ToSet(rows) = {rows[i] : i \in 1 .. l} BY <1>2 DEF ToSet
<1>4. \E i \in S : \A k \in 1 .. l : rows[k].name # i
  <2> SUFFICES ASSUME \A i \in S : \E k \in 1 .. l : rows[k].name = i PROVE FALSE
    OBVIOUS
  <2>1. \A i \in S : used[i] \in 1 .. l /\ rows[used[i]].name = i OBVIOUS
  <2>2. used \in [S -> 1 .. l] BY <2>1
  <2>3. IsFiniteSet(S) /\ Cardinality(S) = l + 1
    <3>1. 1 \in Int /\ l + 1 \in Int /\ ~(1 > l + 1) /\ (l + 1) - 1 + 1 = l + 1 BY <1>2
    <3> QED BY <3>1, FS_Interval
  <2>4. IsFiniteSet(1 .. l) /\ Cardinality(1 .. l) = l
    <3>1. 1 \in Int /\ l \in Int /\ (1 > l => l = 0) /\ l - 1 + 1 = l BY <1>2
    <3> QED BY <3>1, FS_Interval
  <2>5. Cardinality(1 .. l) < Cardinality(S) BY <1>2, <2>3, <2>4
  <2> HIDE DEF S, used
  <2>6. \E x, y \in S : x # y /\ used[x] = used[y]
    <3> DEFINE T == 1 .. l
    <3>1. IsFiniteSet(T) /\ Cardinality(T) < Cardinality(S) /\ used \in [S -> T] BY <2>2, <2>4, <2>5
    <3> HIDE DEF T
    <3> QED BY <2>3, <3>1, FS_PigeonHole
  <2> QED BY <2>1, <2>6
<1>5. FreeName(n) = CHOOSE i \in S : \A k \in 1 .. l : rows[k].name # i
  <2>1. \A i \in S : (\A row \in ToSet(rows) : row.name # i) <=> \A k \in 1 .. l : rows[k].name # i
    BY <1>3
  <2> QED BY <2>1 DEF FreeName
<1> QED BY <1>4, <1>5

LEMMA RowIsQueued ==
  ASSUME NEW rows, NEW page, NEW new \in SUBSET Nat, NEW ran, Polled(rows, page, new, ran),
         NEW row \in Row, \A i \in 1 .. Len(rows) : rows[i].name # row.name
  PROVE  Polled(Append(rows, row), page, new \union {row.name}, ran)
<1> DEFINE more == Append(rows, row)
           known1 == new \union {row.name}
<1>1. /\ rows \in Seq(Row) /\ page \in Seq(Row) /\ Distinct(rows)
      /\ Len(rows) \in Nat /\ Len(page) \in Nat
  BY LenProperties DEF Polled
<1>2. /\ more \in Seq(Row) /\ Len(more) = Len(rows) + 1 /\ more[Len(rows) + 1] = row
      /\ \A i \in 1 .. Len(rows) : more[i] = rows[i]
  BY <1>1, AppendProperties
<1> HIDE DEF more
<1>3. Distinct(more)
  <2> SUFFICES ASSUME NEW i \in 1 .. Len(more), NEW j \in 1 .. Len(more),
                      more[i].name = more[j].name
               PROVE  i = j
    BY DEF Distinct
  <2>1. i \in 1 .. Len(rows) \/ i = Len(rows) + 1 BY <1>1, <1>2
  <2>2. j \in 1 .. Len(rows) \/ j = Len(rows) + 1 BY <1>1, <1>2
  <2> QED BY <1>1, <1>2, <2>1, <2>2 DEF Distinct
<1>4. PICK d \in Nat :
        /\ d + Len(page) <= Len(rows)
        /\ \A k \in 1 .. Len(page) : page[k] = rows[d + k]
        /\ \A i \in 1 .. d : rows[i].name \notin new
  BY DEF Polled
<1>5. /\ d + Len(page) <= Len(more)
      /\ \A k \in 1 .. Len(page) : d + k \in 1 .. Len(rows) /\ page[k] = more[d + k]
      /\ \A i \in 1 .. d : i \in 1 .. Len(rows) /\ more[i].name \notin known1
  <2>1. d + Len(page) <= Len(more) BY <1>1, <1>2, <1>4
  <2>2. \A k \in 1 .. Len(page) : d + k \in 1 .. Len(rows) BY <1>1, <1>4
  <2>3. \A i \in 1 .. d : i \in 1 .. Len(rows) BY <1>1, <1>4
  <2>4. \A k \in 1 .. Len(page) : page[k] = more[d + k] BY <1>2, <1>4, <2>2
  <2>5. \A i \in 1 .. d : more[i].name = rows[i].name /\ rows[i].name # row.name BY <1>2, <2>3
  <2> QED BY <1>4, <2>1, <2>2, <2>3, <2>4, <2>5
<1>6. ran => page # <<>> /\ page[1].name \notin known1
  <2> SUFFICES ASSUME ran PROVE page # <<>> /\ page[1].name \notin known1
    OBVIOUS
  <2>1. page # <<>> /\ page[1].name \notin new BY DEF Polled
  <2>2. 1 \in 1 .. Len(page) BY <1>1, <2>1, EmptySeq
  <2>3. page[1] = rows[d + 1] /\ d + 1 \in 1 .. Len(rows) BY <1>4, <1>5, <2>2
  <2> QED BY <2>1, <2>3
<1> HIDE DEF known1
<1>7. Polled(more, page, known1, ran)
  BY <1>1, <1>2, <1>3, <1>5, <1>6 DEF Polled
<1> QED BY <1>7 DEF more, known1

LEMMA PageIsPolled ==
  ASSUME NEW rows, NEW page, NEW new, NEW ran, Polled(rows, page, new, ran)
  PROVE  Polled(rows, FirstPage(rows), new, FALSE)
<1> DEFINE p == IF Len(rows) > Page THEN Page ELSE Len(rows)
<1>1. rows \in Seq(Row) /\ Distinct(rows) /\ Len(rows) \in Nat
  BY LenProperties DEF Polled
<1>2. p \in Nat /\ p <= Len(rows) /\ 1 \in Int /\ p \in Int BY <1>1, PageAssumption
<1>3. FirstPage(rows) = SubSeq(rows, 1, p) BY DEF FirstPage
<1> HIDE DEF p
<1>4. \A i \in 1 .. p : rows[i] \in Row
  <2> TAKE i \in 1 .. p
  <2>1. i \in 1 .. Len(rows) BY <1>1, <1>2
  <2> QED BY <1>1, <2>1, ElementOfSeq
<1>5. /\ SubSeq(rows, 1, p) \in Seq(Row)
      /\ Len(SubSeq(rows, 1, p)) = p
      /\ \A i \in 1 .. p : SubSeq(rows, 1, p)[i] = rows[i]
  <2>1. /\ SubSeq(rows, 1, p) \in Seq(Row)
        /\ Len(SubSeq(rows, 1, p)) = IF 1 <= p THEN p - 1 + 1 ELSE 0
        /\ \A i \in 1 .. p - 1 + 1 : SubSeq(rows, 1, p)[i] = rows[1 + i - 1]
    BY <1>2, <1>4, SubSeqProperties
  <2>2. p - 1 + 1 = p /\ (~(1 <= p) => p = 0) /\ \A i \in 1 .. p : 1 + i - 1 = i BY <1>2
  <2> QED BY <2>1, <2>2
<1>6. /\ 0 \in Nat /\ 0 + p <= Len(rows)
      /\ \A k \in 1 .. p : SubSeq(rows, 1, p)[k] = rows[0 + k]
      /\ \A i \in 1 .. 0 : rows[i].name \notin new
  BY <1>2, <1>5
<1>7. Polled(rows, SubSeq(rows, 1, p), new, FALSE)
  BY <1>1, <1>5, <1>6 DEF Polled
<1> QED BY <1>3, <1>7

LEMMA FirstRuns ==
  ASSUME NEW rows, NEW page, NEW new, NEW ran, Polled(rows, page, new, ran), page # <<>>
  PROVE  /\ Polled(rows, page, new \ {Head(page).name}, TRUE)
         /\ \A i, j \in 1 .. Len(rows) :
              i < j /\ rows[j].name = Head(page).name => rows[i].name \notin new
<1>1. rows \in Seq(Row) /\ page \in Seq(Row) /\ Len(rows) \in Nat /\ Len(page) \in Nat
  BY LenProperties DEF Polled
<1>2. Head(page) = page[1] /\ 1 \in 1 .. Len(page)
  BY <1>1, EmptySeq
<1>3. PICK d \in Nat :
        /\ d + Len(page) <= Len(rows)
        /\ \A k \in 1 .. Len(page) : page[k] = rows[d + k]
        /\ \A i \in 1 .. d : rows[i].name \notin new
  BY DEF Polled
<1>4. Polled(rows, page, new \ {Head(page).name}, TRUE)
  BY <1>2, <1>3 DEF Polled
<1>5. ASSUME NEW i \in 1 .. Len(rows), NEW j \in 1 .. Len(rows), i < j,
             rows[j].name = Head(page).name
      PROVE  rows[i].name \notin new
  <2>1. d + 1 \in 1 .. Len(rows) /\ rows[d + 1] = Head(page) BY <1>1, <1>2, <1>3
  <2>2. j = d + 1 BY <1>5, <2>1 DEF Polled, Distinct
  <2> QED BY <1>3, <1>5, <2>2
<1> QED BY <1>4, <1>5

\* The rest of a page behind the row that has been run.
LEMMA PageGoesOn ==
  ASSUME NEW rows, NEW page, NEW new, Polled(rows, page, new, TRUE)
  PROVE  Polled(rows, Tail(page), new, FALSE)
<1>1. rows \in Seq(Row) /\ page \in Seq(Row) /\ Distinct(rows) /\ page # <<>>
  BY DEF Polled
<1>2. /\ Len(rows) \in Nat /\ Len(page) \in Nat \ {0}
      /\ Tail(page) \in Seq(Row) /\ Len(Tail(page)) = Len(page) - 1
      /\ \A k \in 1 .. Len(page) - 1 : Tail(page)[k] = page[k + 1]
  BY <1>1, LenProperties, EmptySeq, HeadTailProperties
<1>3. PICK d \in Nat :
        /\ d + Len(page) <= Len(rows)
        /\ \A k \in 1 .. Len(page) : page[k] = rows[d + k]
        /\ \A i \in 1 .. d : rows[i].name \notin new
  BY DEF Polled
<1>4. /\ d + 1 \in Nat /\ (d + 1) + Len(Tail(page)) <= Len(rows)
      /\ \A k \in 1 .. Len(Tail(page)) : Tail(page)[k] = rows[(d + 1) + k]
  <2>1. ASSUME NEW k \in 1 .. Len(page) - 1 PROVE Tail(page)[k] = rows[(d + 1) + k]
    <3>1. k + 1 \in 1 .. Len(page) /\ d + (k + 1) = (d + 1) + k BY <1>2
    <3>2. page[k + 1] = rows[d + (k + 1)] BY <1>3, <3>1
    <3> QED BY <1>2, <3>1, <3>2
  <2> QED BY <1>2, <1>3, <2>1
<1>5. \A i \in 1 .. d + 1 : rows[i].name \notin new
  <2>1. page[1] = rows[d + 1] /\ page[1].name \notin new BY <1>2, <1>3 DEF Polled
  <2> QED BY <1>3, <2>1
<1> QED BY <1>1, <1>2, <1>4, <1>5 DEF Polled

LEMMA RowLeaves ==
  ASSUME NEW rows, NEW page, NEW new, Polled(rows, page, new, TRUE)
  PROVE  Polled(Acknowledged(rows, Head(page).name), Tail(page), new, FALSE)
<1>1. rows \in Seq(Row) /\ page \in Seq(Row) /\ Distinct(rows) /\ page # <<>>
  BY DEF Polled
<1>2. /\ Len(rows) \in Nat /\ Len(page) \in Nat \ {0} /\ DOMAIN rows = 1 .. Len(rows)
      /\ Tail(page) \in Seq(Row) /\ Len(Tail(page)) = Len(page) - 1
      /\ \A k \in 1 .. Len(page) - 1 : Tail(page)[k] = page[k + 1]
      /\ Head(page) = page[1]
  BY <1>1, LenProperties, EmptySeq, HeadTailProperties
<1>3. PICK d \in Nat :
        /\ d + Len(page) <= Len(rows)
        /\ \A k \in 1 .. Len(page) : page[k] = rows[d + k]
        /\ \A i \in 1 .. d : rows[i].name \notin new
  BY DEF Polled
<1> DEFINE l == Len(rows)
           a == SubSeq(rows, 1, d)
           b == SubSeq(rows, d + 2, l)
           left == a \o b
<1>4. d + 1 \in 1 .. l /\ rows[d + 1] = Head(page)
  BY <1>2, <1>3
<1>5. Acknowledged(rows, Head(page).name) = left
  <2>1. \A i \in 1 .. l : rows[i].name = Head(page).name <=> i = d + 1
    BY <1>1, <1>4 DEF Distinct
  <2>2. {i \in DOMAIN rows : rows[i].name = Head(page).name} = {d + 1}
    BY <1>2, <1>4, <2>1
  <2>3. Acknowledged(rows, Head(page).name) = RemoveAt(rows, d + 1)
    BY <2>2 DEF Acknowledged
  <2>4. (d + 1) - 1 = d /\ (d + 1) + 1 = d + 2 OBVIOUS
  <2> QED BY <2>3, <2>4 DEF RemoveAt
<1>6. \A i \in 1 .. l : rows[i] \in Row BY <1>1, ElementOfSeq
<1>7. a \in Seq(Row) /\ Len(a) = d /\ \A i \in 1 .. d : a[i] = rows[i]
  <2>1. \A i \in 1 .. d : rows[i] \in Row BY <1>2, <1>4, <1>6
  <2>2. 1 \in Int /\ d \in Int OBVIOUS
  <2>3. /\ a \in Seq(Row) /\ Len(a) = IF 1 <= d THEN d - 1 + 1 ELSE 0
        /\ \A i \in 1 .. d - 1 + 1 : a[i] = rows[1 + i - 1]
    BY <2>1, <2>2, SubSeqProperties
  <2>4. d - 1 + 1 = d /\ (~(1 <= d) => d = 0) /\ \A i \in 1 .. d : 1 + i - 1 = i OBVIOUS
  <2> QED BY <2>3, <2>4
<1>8. /\ b \in Seq(Row) /\ Len(b) = l - d - 1
      /\ \A i \in 1 .. l - d - 1 : b[i] = rows[d + 1 + i]
  <2>1. \A i \in d + 2 .. l : rows[i] \in Row
    <3> TAKE i \in d + 2 .. l
    <3>1. i \in 1 .. l BY <1>2
    <3> QED BY <1>6, <3>1
  <2>2. d + 2 \in Int /\ l \in Int BY <1>2
  <2>3. /\ b \in Seq(Row) /\ Len(b) = IF d + 2 <= l THEN l - (d + 2) + 1 ELSE 0
        /\ \A i \in 1 .. l - (d + 2) + 1 : b[i] = rows[(d + 2) + i - 1]
    BY <2>1, <2>2, SubSeqProperties
  <2>4. /\ l - (d + 2) + 1 = l - d - 1 /\ (~(d + 2 <= l) => l - d - 1 = 0)
        /\ \A i \in 1 .. l - d - 1 : (d + 2) + i - 1 = d + 1 + i
    <3>1. l \in Nat /\ d + 1 <= l BY <1>2, <1>4
    <3> HIDE DEF l
    <3> QED BY <3>1
  <2> QED BY <2>3, <2>4
<1> HIDE DEF a, b
<1>9. /\ left \in Seq(Row) /\ Len(left) = l - 1
      /\ \A i \in 1 .. d : left[i] = rows[i]
      /\ \A i \in d + 1 .. l - 1 : left[i] = rows[i + 1]
  <2>1. /\ left \in Seq(Row) /\ Len(left) = Len(a) + Len(b)
        /\ \A i \in 1 .. Len(a) + Len(b) : left[i] = IF i <= Len(a) THEN a[i] ELSE b[i - Len(a)]
    BY <1>7, <1>8, ConcatProperties
  <2>2. d + (l - d - 1) = l - 1 BY <1>2
  <2>3. \A i \in 1 .. l - 1 : left[i] = IF i <= d THEN a[i] ELSE b[i - d]
    BY <1>7, <1>8, <2>1, <2>2
  <2> HIDE DEF left
  <2>4. ASSUME NEW i \in 1 .. d PROVE left[i] = rows[i]
    <3>1. i \in 1 .. l - 1 /\ i <= d BY <1>2, <1>4
    <3> QED BY <1>7, <2>3, <3>1
  <2>5. ASSUME NEW i \in d + 1 .. l - 1 PROVE left[i] = rows[i + 1]
    <3>1. /\ i \in 1 .. l - 1 /\ ~(i <= d) /\ i - d \in 1 .. l - d - 1
          /\ d + 1 + (i - d) = i + 1
      BY <1>2
    <3> QED BY <1>8, <2>3, <3>1
  <2> QED BY <1>7, <1>8, <2>1, <2>2, <2>4, <2>5
<1> HIDE DEF left
<1>10. Distinct(left)
  <2> SUFFICES ASSUME NEW i \in 1 .. l - 1, NEW j \in 1 .. l - 1, left[i].name = left[j].name
               PROVE  i = j
    BY <1>9 DEF Distinct
  <2> DEFINE At(k) == IF k <= d THEN k ELSE k + 1
  <2>1. ASSUME NEW k \in 1 .. l - 1 PROVE At(k) \in 1 .. l /\ left[k] = rows[At(k)]
    <3>1. CASE k <= d
      BY <1>2, <1>9, <3>1
    <3>2. CASE ~(k <= d)
      <4>1. k \in d + 1 .. l - 1 BY <3>2
      <4> QED BY <1>2, <1>9, <3>2, <4>1
    <3> QED BY <3>1, <3>2
  <2>2. \A k \in 1 .. l - 1 : At(k) \in 1 .. l /\ left[k] = rows[At(k)] BY <2>1
  <2>3. At(i) = At(j) => i = j OBVIOUS
  <2> HIDE DEF At
  <2>4. rows[At(i)].name = rows[At(j)].name /\ At(i) \in 1 .. l /\ At(j) \in 1 .. l BY <2>2
  <2>5. At(i) = At(j) BY <1>1, <2>4 DEF Distinct
  <2> QED BY <2>3, <2>5
<1>11. /\ d + Len(Tail(page)) <= Len(left)
       /\ \A k \in 1 .. Len(Tail(page)) : Tail(page)[k] = left[d + k]
       /\ \A i \in 1 .. d : left[i].name \notin new
  <2>1. ASSUME NEW k \in 1 .. Len(page) - 1 PROVE Tail(page)[k] = left[d + k]
    <3>1. k + 1 \in 1 .. Len(page) /\ d + k \in d + 1 .. l - 1 /\ d + (k + 1) = (d + k) + 1
      BY <1>2, <1>3
    <3>2. page[k + 1] = rows[d + (k + 1)] BY <1>3, <3>1
    <3>3. left[d + k] = rows[(d + k) + 1] BY <1>9, <3>1
    <3> QED BY <1>2, <3>1, <3>2, <3>3
  <2> QED BY <1>2, <1>3, <1>9, <2>1
<1>12. Polled(left, Tail(page), new, FALSE)
  BY <1>2, <1>9, <1>10, <1>11 DEF Polled
<1> QED BY <1>5, <1>12

LEMMA CommandInit == Init => CommandInv
<1> SUFFICES ASSUME Init PROVE CommandInv
  OBVIOUS
<1>1. <<>> \in Seq(Row) /\ Len(<<>>) = 0
  BY EmptySeq
<1>2. Polled(<<>>, <<>>, {}, FALSE)
  BY <1>1 DEF Polled, Distinct
<1> QED BY <1>1, <1>2 DEF Init, CommandInv

LEMMA InsertKeepsOrder ==
  ASSUME CommandInv, NEW n \in Nodes, NEW what \in {Other} \union Rules, Insert(n, what),
         UNCHANGED node
  PROVE  CommandInv'
<1> DEFINE row == [name |-> FreeName(n), what |-> what]
<1>1. pending[n] \in Seq(Row) /\ Len(pending[n]) \in Nat /\ fresh[n] \in SUBSET Nat
  BY LenProperties DEF CommandInv
<1>2. /\ FreeName(n) \in Nat
      /\ \A i \in 1 .. Len(pending[n]) : pending[n][i].name # FreeName(n)
  <2>1. FreeName(n) \in 1 .. Len(pending[n]) + 1 BY <1>1, FreeNameIsFree
  <2>2. FreeName(n) \in Nat BY <1>1, <2>1
  <2> QED BY <1>1, <2>2, FreeNameIsFree
<1>3. row \in Row /\ row.name = FreeName(n) BY <1>2 DEF Row
<1>4. /\ pending' = [pending EXCEPT ![n] = Append(@, row)]
      /\ fresh' = [fresh EXCEPT ![n] = @ \union {row.name}]
      /\ inbox' = inbox /\ acking' = acking
  BY <1>3 DEF Insert, node
<1> HIDE DEF row
<1>5. Polled(Append(pending[n], row), inbox[n], fresh[n] \union {row.name}, acking[n])
  <2>1. Polled(pending[n], inbox[n], fresh[n], acking[n]) BY DEF CommandInv
  <2>2. \A i \in 1 .. Len(pending[n]) : pending[n][i].name # row.name BY <1>2, <1>3
  <2> QED BY <1>1, <1>3, <2>1, <2>2, RowIsQueued
<1>6. Append(pending[n], row) \in Seq(Row) BY <1>1, <1>3, AppendProperties
<1>7. row.name \in Nat BY <1>2, <1>3
<1> QED BY <1>4, <1>5, <1>6, <1>7 DEF CommandInv

\* What the steps of one node do to its rows.
LEMMA NodeKeepsOrder ==
  ASSUME CommandInv, NEW n \in Nodes,
         PollCommands(n) \/ AckCommand(n) \/ RunCommand(n) \/ AckLost(n) \/ NodeRestarts(n)
  PROVE  CommandInv'
<1>0. /\ Polled(pending[n], inbox[n], fresh[n], acking[n])
      /\ fresh[n] \in SUBSET Nat /\ acking[n] \in BOOLEAN /\ pending[n] \in Seq(Row)
  BY DEF CommandInv
<1>1. ASSUME NEW rows, NEW page, NEW new, NEW ran \in BOOLEAN, new \subseteq fresh[n],
             Polled(rows, page, new, ran),
             pending' = [pending EXCEPT ![n] = rows], inbox' = [inbox EXCEPT ![n] = page],
             fresh' = [fresh EXCEPT ![n] = new], acking' = [acking EXCEPT ![n] = ran]
      PROVE  CommandInv'
  <2>1. rows \in Seq(Row) /\ page \in Seq(Row) BY <1>1 DEF Polled
  <2>2. new \in SUBSET Nat BY <1>0, <1>1
  <2> QED BY <1>1, <2>1, <2>2 DEF CommandInv
<1>2. /\ pending = [pending EXCEPT ![n] = pending[n]]
      /\ inbox = [inbox EXCEPT ![n] = inbox[n]]
      /\ fresh = [fresh EXCEPT ![n] = fresh[n]]
      /\ acking = [acking EXCEPT ![n] = acking[n]]
  BY DEF CommandInv
<1>3. CASE PollCommands(n)
  <2>1. Polled(pending[n], FirstPage(pending[n]), fresh[n], FALSE) BY <1>0, PageIsPolled
  <2>2. ~acking[n]
    <3>1. inbox[n] = <<>> BY <1>3 DEF PollCommands
    <3> QED BY <1>0, <3>1 DEF Polled
  <2>3. acking[n] = FALSE BY <1>0, <2>2
  <2>4. /\ inbox' = [inbox EXCEPT ![n] = FirstPage(pending[n])]
        /\ pending' = pending /\ acking' = acking /\ fresh' = fresh
    BY <1>3 DEF PollCommands, server, ghost
  <2> QED BY <1>1, <1>2, <2>1, <2>3, <2>4
<1>4. CASE AckCommand(n)
  <2>1. acking[n] = TRUE BY <1>0, <1>4 DEF AckCommand
  <2>2. Polled(Acknowledged(pending[n], Head(inbox[n]).name), Tail(inbox[n]), fresh[n], FALSE)
    BY <1>0, <2>1, RowLeaves
  <2>3. /\ pending' = [pending EXCEPT ![n] = Acknowledged(pending[n], Head(inbox[n]).name)]
        /\ inbox' = [inbox EXCEPT ![n] = Tail(inbox[n])]
        /\ acking' = [acking EXCEPT ![n] = FALSE] /\ fresh' = fresh
    BY <1>4 DEF AckCommand, ghost
  <2> QED BY <1>1, <1>2, <2>2, <2>3
<1>5. CASE RunCommand(n)
  <2>1. Polled(pending[n], inbox[n], fresh[n] \ {Head(inbox[n]).name}, TRUE)
    BY <1>0, <1>5, FirstRuns DEF RunCommand
  <2>2. /\ acking' = [acking EXCEPT ![n] = TRUE]
        /\ fresh' = [fresh EXCEPT ![n] = fresh[n] \ {Head(inbox[n]).name}]
        /\ pending' = pending /\ inbox' = inbox
    BY <1>5 DEF RunCommand, server
  <2>3. fresh[n] \ {Head(inbox[n]).name} \subseteq fresh[n] OBVIOUS
  <2> QED BY <1>1, <1>2, <2>1, <2>2, <2>3
<1>6. CASE AckLost(n)
  <2>1. acking[n] = TRUE BY <1>0, <1>6 DEF AckLost
  <2>2. Polled(pending[n], Tail(inbox[n]), fresh[n], FALSE)
    BY <1>0, <2>1, PageGoesOn
  <2>3. /\ inbox' = [inbox EXCEPT ![n] = Tail(inbox[n])]
        /\ acking' = [acking EXCEPT ![n] = FALSE] /\ fresh' = fresh /\ pending' = pending
    BY <1>6 DEF AckLost, server, ghost
  <2> QED BY <1>1, <1>2, <2>2, <2>3
<1>7. CASE NodeRestarts(n)
  <2>1. Polled(pending[n], <<>>, fresh[n], FALSE)
    <3>1. <<>> \in Seq(Row) /\ Len(<<>>) = 0 /\ Len(pending[n]) \in Nat
      BY <1>0, EmptySeq, LenProperties
    <3>2. 0 \in Nat /\ 0 + Len(<<>>) <= Len(pending[n]) /\ 1 .. 0 = {} /\ 1 .. Len(<<>>) = {}
      BY <3>1
    <3>3. \E d \in Nat : /\ d + Len(<<>>) <= Len(pending[n])
                         /\ \A k \in 1 .. Len(<<>>) : <<>>[k] = pending[n][d + k]
                         /\ \A i \in 1 .. d : pending[n][i].name \notin fresh[n]
      BY <3>2
    <3> QED BY <1>0, <3>1, <3>3 DEF Polled
  <2>2. /\ inbox' = [inbox EXCEPT ![n] = <<>>]
        /\ acking' = [acking EXCEPT ![n] = FALSE] /\ fresh' = fresh /\ pending' = pending
    BY <1>7 DEF NodeRestarts, server, ghost
  <2> QED BY <1>1, <1>2, <2>1, <2>2
<1> QED BY <1>3, <1>4, <1>5, <1>6, <1>7

LEMMA CommandStep == CommandInv /\ RoundInv /\ [Next]_vars => CommandInv'
<1> SUFFICES ASSUME CommandInv, RoundInv, [Next]_vars PROVE CommandInv'
  OBVIOUS
<1>0. CASE UNCHANGED <<pending, fresh, inbox, acking>>
  BY <1>0 DEF CommandInv
<1>1. ASSUME NEW n \in Nodes, Push(n) PROVE CommandInv'
  <2>1. UNCHANGED node BY <1>1 DEF Push
  <2>2. CASE Insert(n, Head(fired))
    <3>1. phase = "push" BY <1>1 DEF Push
    <3>2. fired \in Seq(Rules) /\ fired # <<>>
      BY <3>1 DEF RoundInv, RoundTypes, DueIsListed
    <3>3. Head(fired) \in Rules BY <3>2, HeadTailProperties
    <3> QED BY <2>1, <2>2, <3>3, InsertKeepsOrder
  <2>3. CASE UNCHANGED <<pending, fresh>>
    BY <1>0, <2>1, <2>3 DEF node
  <2> QED BY <1>1, <2>2, <2>3 DEF Push
<1>2. ASSUME NEW n \in Nodes, QueueCommand(n) PROVE CommandInv'
  BY <1>2, InsertKeepsOrder DEF QueueCommand
<1>3. ASSUME NEW n \in Nodes, PollCommands(n) \/ AckCommand(n) \/ RunCommand(n)
                                \/ AckLost(n) \/ NodeRestarts(n)
      PROVE  CommandInv'
  BY <1>3, NodeKeepsOrder
<1>4. ASSUME NEW caller \in {"autopilot", "route"}, StartRound(caller)
      PROVE  UNCHANGED <<pending, fresh, inbox, acking>>
  BY <1>4 DEF StartRound, server, ghost, node
<1>5. ASSUME Evaluated \/ EvaluationRaises \/ NodesUnread \/ Crash \/ Tick \/ \E m \in BOOLEAN : Evaluate(m)
      PROVE  UNCHANGED <<pending, fresh, inbox, acking>>
  BY <1>5 DEF Evaluated, EvaluationRaises, NodesUnread, CutOff, Crash, Tick, Evaluate, server, ghost, node
<1>6. ASSUME NEW r \in Rules, Dismiss(r) \/ DeleteRule(r) \/ \E on \in BOOLEAN : CreateRule(r, on)
      PROVE  UNCHANGED <<pending, fresh, inbox, acking>>
  BY <1>6 DEF Dismiss, DeleteRule, CreateRule, ghost, node
<1>7. ASSUME NEW n \in Nodes, Register(n) PROVE UNCHANGED <<pending, fresh, inbox, acking>>
  BY <1>7 DEF Register, ghost, node
<1>8. CASE UNCHANGED vars
  BY <1>0, <1>8 DEF vars, server, ghost, node
<1> QED BY <1>0, <1>1, <1>2, <1>3, <1>4, <1>5, <1>6, <1>7, <1>8 DEF Next, RoundStep

\* Only a run takes a name from fresh.
LEMMA OnlyRunsTake ==
  ASSUME CommandInv, [Next]_vars, NEW n \in Nodes, NEW x \in fresh[n], x \notin fresh'[n]
  PROVE  RunCommand(n) /\ x = Head(inbox[n]).name
<1>0. /\ fresh \in [Nodes -> SUBSET Nat]
      /\ ~(UNCHANGED fresh)
  BY DEF CommandInv
<1>1. ASSUME NEW i \in Nodes, NEW what, Insert(i, what) PROVE FALSE
  BY <1>0, <1>1 DEF Insert
<1>2. ASSUME NEW i \in Nodes, RunCommand(i) PROVE RunCommand(n) /\ x = Head(inbox[n]).name
  <2>1. fresh' = [fresh EXCEPT ![i] = @ \ {Head(inbox[i]).name}] BY <1>2 DEF RunCommand
  <2>2. i = n BY <1>0, <2>1
  <2> QED BY <1>0, <1>2, <2>1, <2>2
<1>3. ASSUME NEW i \in Nodes, Push(i) \/ QueueCommand(i) PROVE FALSE
  BY <1>0, <1>1, <1>3 DEF Push, QueueCommand
<1>4. ASSUME NEW caller \in {"autopilot", "route"}, StartRound(caller) PROVE FALSE
  BY <1>0, <1>4 DEF StartRound, ghost
<1>5. ASSUME Evaluated \/ EvaluationRaises \/ NodesUnread \/ Crash \/ Tick \/ \E m \in BOOLEAN : Evaluate(m) PROVE FALSE
  BY <1>0, <1>5 DEF Evaluated, EvaluationRaises, NodesUnread, CutOff, Crash, Tick, Evaluate, ghost
<1>6. ASSUME NEW r \in Rules, Dismiss(r) \/ DeleteRule(r) \/ \E on \in BOOLEAN : CreateRule(r, on)
      PROVE  FALSE
  BY <1>0, <1>6 DEF Dismiss, DeleteRule, CreateRule, ghost
<1>7. ASSUME NEW i \in Nodes, Register(i) \/ PollCommands(i) \/ AckCommand(i) \/ AckLost(i)
                                \/ NodeRestarts(i)
      PROVE  FALSE
  BY <1>0, <1>7 DEF Register, PollCommands, AckCommand, AckLost, NodeRestarts, ghost
<1>8. ~(UNCHANGED vars) BY <1>0 DEF vars, ghost
<1> QED BY <1>2, <1>3, <1>4, <1>5, <1>6, <1>7, <1>8 DEF Next, RoundStep

LEMMA CommandHolds == Spec => []CommandInv
BY CommandInit, CommandStep, RoundHolds, PTL DEF Spec

\* A node runs its commands for the first time in the order of their rows (ORDER
\* BY id), for any number of nodes and commands and any page, through lost
\* acknowledgements and restarts: whatever stands before a command has been run.
THEOREM FirstInOrder == Spec => FirstRunsInOrder
<1>1. CommandInv /\ [Next]_vars =>
        \A n \in Nodes : \A i, j \in DOMAIN pending[n] :
          (i < j /\ pending[n][j].name \in fresh[n] \ fresh'[n]) => pending[n][i].name \notin fresh[n]
  <2> SUFFICES ASSUME CommandInv, [Next]_vars, NEW n \in Nodes,
                      NEW i \in DOMAIN pending[n], NEW j \in DOMAIN pending[n], i < j,
                      pending[n][j].name \in fresh[n] \ fresh'[n]
               PROVE  pending[n][i].name \notin fresh[n]
    OBVIOUS
  <2>1. RunCommand(n) /\ pending[n][j].name = Head(inbox[n]).name
    BY OnlyRunsTake
  <2>2. Polled(pending[n], inbox[n], fresh[n], acking[n]) /\ pending[n] \in Seq(Row)
    BY DEF CommandInv
  <2>3. DOMAIN pending[n] = 1 .. Len(pending[n]) BY <2>2, LenProperties
  <2>4. inbox[n] # <<>> BY <2>1 DEF RunCommand
  <2> QED BY <2>1, <2>2, <2>3, <2>4, FirstRuns
<1> QED BY <1>1, CommandHolds, PTL DEF Spec, FirstRunsInOrder

-----------------------------------------------------------------------------
(* Types and bounds *)

MaxRows == MaxPending + NumRules

\* A round begins with at most MaxPending rows per node and adds one for each
\* rule it has fired, so that the names suffice.
Fits ==
  /\ enabled \subseteq rules /\ rules \subseteq Rules /\ known \subseteq Nodes
  /\ todo \subseteq Rules /\ fired \in Seq(Rules) /\ targets \subseteq known
  /\ pending \in [Nodes -> Seq(Rows)] /\ inbox \in [Nodes -> Seq(Rows)]
  /\ \A n \in Nodes : Len(pending[n]) <= MaxRows /\ Len(inbox[n]) <= Page
  /\ phase = "idle" => fired = <<>>
  /\ phase \in {"autopilot", "route"} =>
       /\ Len(fired) + Cardinality(todo) <= NumRules
       /\ \A n \in Nodes : Len(pending[n]) <= MaxPending
  /\ phase = "push" =>
       /\ fired # <<>> /\ Len(fired) <= NumRules
       /\ \A n \in Nodes :
            Len(pending[n]) <= MaxRows - Len(fired) + (IF n \in targets THEN 0 ELSE 1)

LEMMA RulesAreFinite ==
  ASSUME NEW S \in SUBSET Rules
  PROVE  IsFiniteSet(S) /\ Cardinality(S) \in Nat /\ Cardinality(S) <= NumRules
<1>1. 1 \in Int /\ NumRules \in Int /\ (~(1 > NumRules) => NumRules - 1 + 1 = NumRules)
      /\ (1 > NumRules => NumRules = 0)
  BY BoundsAssumption
<1>2. IsFiniteSet(Rules) /\ Cardinality(Rules) = NumRules BY <1>1, FS_Interval DEF Rules
<1> QED BY <1>2, FS_Subset, FS_CardinalityType

\* What a node holds and what it is sent, and what is left of it.
LEMMA RowsFit ==
  ASSUME NEW S, NEW rows \in Seq(S), NEW name
  PROVE  /\ Acknowledged(rows, name) \in Seq(S)
         /\ Len(Acknowledged(rows, name)) \in Nat /\ Len(Acknowledged(rows, name)) <= Len(rows)
         /\ FirstPage(rows) \in Seq(S) /\ Len(FirstPage(rows)) \in Nat /\ Len(FirstPage(rows)) <= Page
<1>0. /\ Len(rows) \in Nat /\ DOMAIN rows = 1 .. Len(rows)
      /\ \A i \in 1 .. Len(rows) : rows[i] \in S
  BY LenProperties, ElementOfSeq
<1>1. ASSUME NEW p \in Int, NEW q \in Int, 1 <= p, q <= Len(rows)
      PROVE  /\ SubSeq(rows, p, q) \in Seq(S)
             /\ Len(SubSeq(rows, p, q)) = IF p <= q THEN q - p + 1 ELSE 0
  <2>1. \A i \in p .. q : rows[i] \in S
    <3> TAKE i \in p .. q
    <3>1. i \in 1 .. Len(rows) BY <1>0, <1>1
    <3> QED BY <1>0, <3>1
  <2> QED BY <2>1, SubSeqProperties
<1>2. Acknowledged(rows, name) \in Seq(S) /\ Len(Acknowledged(rows, name)) <= Len(rows)
  <2> DEFINE at == {i \in DOMAIN rows : rows[i].name = name}
             k == CHOOSE i \in at : TRUE
  <2>1. CASE at = {}
    BY <1>0, <2>1 DEF Acknowledged
  <2>2. CASE at # {}
    <3>1. k \in 1 .. Len(rows) BY <1>0, <2>2
    <3>2. Acknowledged(rows, name) = SubSeq(rows, 1, k - 1) \o SubSeq(rows, k + 1, Len(rows))
      BY <2>2 DEF Acknowledged, RemoveAt
    <3> HIDE DEF k, at
    <3> DEFINE a == SubSeq(rows, 1, k - 1)
               b == SubSeq(rows, k + 1, Len(rows))
    <3>3. a \in Seq(S) /\ Len(a) = k - 1
      <4>1. k - 1 \in Int /\ k - 1 <= Len(rows) BY <1>0, <3>1
      <4>2. a \in Seq(S) /\ Len(a) = IF 1 <= k - 1 THEN (k - 1) - 1 + 1 ELSE 0 BY <1>1, <4>1
      <4> HIDE DEF a
      <4> QED BY <3>1, <4>2
    <3>4. b \in Seq(S) /\ Len(b) = Len(rows) - k
      <4>1. k + 1 \in Int /\ 1 <= k + 1 /\ Len(rows) \in Int BY <1>0, <3>1
      <4>2. b \in Seq(S) /\ Len(b) = IF k + 1 <= Len(rows) THEN Len(rows) - (k + 1) + 1 ELSE 0
        BY <1>0, <1>1, <4>1
      <4>3. (IF k + 1 <= Len(rows) THEN Len(rows) - (k + 1) + 1 ELSE 0) = Len(rows) - k
        <5> DEFINE l == Len(rows)
        <5>1. l \in Nat /\ k \in 1 .. l BY <1>0, <3>1
        <5> HIDE DEF l
        <5>2. (IF k + 1 <= l THEN l - (k + 1) + 1 ELSE 0) = l - k BY <5>1
        <5> QED BY <5>2 DEF l
      <4> QED BY <4>2, <4>3
    <3> HIDE DEF a, b
    <3>5. a \o b \in Seq(S) /\ Len(a \o b) = Len(a) + Len(b) BY <3>3, <3>4, ConcatProperties
    <3>6. Len(a \o b) <= Len(rows) BY <1>0, <3>1, <3>3, <3>4, <3>5
    <3> QED BY <3>2, <3>5, <3>6 DEF a, b
  <2> QED BY <2>1, <2>2
<1>3. FirstPage(rows) \in Seq(S) /\ Len(FirstPage(rows)) <= Page
  <2> DEFINE p == IF Len(rows) > Page THEN Page ELSE Len(rows)
  <2>1. p \in Nat /\ p <= Len(rows) /\ p <= Page BY <1>0, PageAssumption
  <2>2. FirstPage(rows) = SubSeq(rows, 1, p) BY DEF FirstPage
  <2> HIDE DEF p
  <2>3. SubSeq(rows, 1, p) \in Seq(S) /\ Len(SubSeq(rows, 1, p)) = IF 1 <= p THEN p - 1 + 1 ELSE 0
    BY <1>1, <2>1
  <2>4. Len(SubSeq(rows, 1, p)) <= Page BY <2>1, <2>3, PageAssumption
  <2> QED BY <2>2, <2>3, <2>4
<1> QED BY <1>2, <1>3, LenProperties

LEMMA FitsInit == Init => Fits
<1> SUFFICES ASSUME Init PROVE Fits
  OBVIOUS
<1>1. <<>> \in Seq(Rows) /\ <<>> \in Seq(Rules) /\ Len(<<>>) = 0 BY EmptySeq
<1>2. 0 <= MaxRows /\ 0 <= Page BY BoundsAssumption, PageAssumption DEF MaxRows
<1> QED BY <1>1, <1>2 DEF Init, Fits

LEMMA StartFits == ASSUME Fits, NEW caller \in {"autopilot", "route"}, StartRound(caller) PROVE Fits'
<1>1. /\ phase = "idle" /\ phase' = caller /\ todo' = enabled
      /\ \A n \in Nodes : Len(pending[n]) <= MaxPending
      /\ UNCHANGED <<rules, enabled, known, pending, fired, targets, inbox>>
  BY DEF StartRound, server, node
<1>2. fired = <<>> /\ Len(fired) = 0 BY <1>1 DEF Fits
<1>3. todo' \in SUBSET Rules BY <1>1 DEF Fits
<1>4. Len(fired') + Cardinality(todo') <= NumRules
  BY <1>1, <1>2, <1>3, RulesAreFinite
<1> QED BY <1>1, <1>3, <1>4 DEF Fits

LEMMA EvaluateFits == ASSUME Fits, NEW m \in BOOLEAN, Evaluate(m) PROVE Fits'
<1>1. PICK r \in todo : todo' = todo \ {r} /\ (fired' = Append(fired, r) \/ fired' = fired)
  BY DEF Evaluate
<1>2. /\ phase \in {"autopilot", "route"}
      /\ UNCHANGED <<rules, enabled, known, pending, phase, targets, inbox>>
  BY DEF Evaluate, node
<1>3. /\ r \in Rules /\ fired \in Seq(Rules) /\ Len(fired) \in Nat
      /\ todo \in SUBSET Rules /\ Len(fired) + Cardinality(todo) <= NumRules
  BY <1>1, <1>2, LenProperties DEF Fits
<1>4. Cardinality(todo') = Cardinality(todo) - 1 /\ Cardinality(todo) \in Nat
  BY <1>1, <1>3, RulesAreFinite, FS_RemoveElement
<1>5. fired' \in Seq(Rules) /\ Len(fired') \in Nat /\ Len(fired') <= Len(fired) + 1
  BY <1>1, <1>3, AppendProperties
<1>6. Len(fired') + Cardinality(todo') <= NumRules
  BY <1>3, <1>4, <1>5, BoundsAssumption
<1> QED BY <1>1, <1>2, <1>3, <1>5, <1>6 DEF Fits

LEMMA CutOffFits == ASSUME Fits, EvaluationRaises \/ NodesUnread PROVE Fits'
<1>1. /\ phase' = "idle" /\ todo' = {} /\ fired' = <<>>
      /\ UNCHANGED <<rules, enabled, known, pending, targets, inbox>>
  BY DEF EvaluationRaises, NodesUnread, CutOff, server, node
<1>2. fired' \in Seq(Rules) BY <1>1, EmptySeq
<1> QED BY <1>1, <1>2 DEF Fits

LEMMA EvaluatedFits == ASSUME Fits, Evaluated PROVE Fits'
<1>1. /\ phase \in {"autopilot", "route"} /\ todo = {}
      /\ UNCHANGED <<rules, enabled, known, pending, todo, inbox>>
  BY DEF Evaluated, server, node
<1>2. CASE phase = "autopilot" /\ fired # <<>> /\ known # {}
  <2>1. phase' = "push" /\ targets' = known /\ fired' = fired BY <1>2 DEF Evaluated
  <2>2. Len(fired) \in Nat /\ Len(fired) <= NumRules
    <3>1. fired \in Seq(Rules) /\ todo \in SUBSET Rules /\ Len(fired) + Cardinality(todo) <= NumRules
      BY <1>1 DEF Fits
    <3>2. Cardinality(todo) = 0 BY <1>1, FS_EmptySet
    <3> QED BY <3>1, <3>2, LenProperties
  <2>3. ASSUME NEW n \in Nodes
        PROVE  Len(pending[n]) <= MaxRows - Len(fired) + (IF n \in known THEN 0 ELSE 1)
    <3>1. Len(pending[n]) \in Nat /\ Len(pending[n]) <= MaxPending
      BY <1>1, LenProperties DEF Fits
    <3> QED BY <2>2, <3>1, BoundsAssumption DEF MaxRows
  <2> QED BY <1>1, <1>2, <2>1, <2>2, <2>3 DEF Fits
<1>3. CASE ~(phase = "autopilot" /\ fired # <<>> /\ known # {})
  <2>1. phase' = "idle" /\ fired' = <<>> /\ targets' = targets BY <1>3 DEF Evaluated
  <2>2. fired' \in Seq(Rules) BY <2>1, EmptySeq
  <2> QED BY <1>1, <2>1, <2>2 DEF Fits
<1> QED BY <1>2, <1>3

\* A new row has a name, and its node is not yet over its share.
LEMMA InsertFits ==
  ASSUME Fits, CommandInv, NEW n \in Nodes, NEW what \in {Other} \union Rules, Insert(n, what),
         Len(pending[n]) < MaxRows
  PROVE  /\ pending' \in [Nodes -> Seq(Rows)]
         /\ Len(pending'[n]) = Len(pending[n]) + 1
         /\ \A i \in Nodes : i # n => pending'[i] = pending[i]
<1> DEFINE row == [name |-> FreeName(n), what |-> what]
<1>1. /\ pending[n] \in Seq(Rows) /\ pending[n] \in Seq(Row) /\ Len(pending[n]) \in Nat
      /\ pending \in [Nodes -> Seq(Rows)]
  BY LenProperties DEF Fits, CommandInv
<1>2. FreeName(n) \in 1 .. Len(pending[n]) + 1 BY <1>1, FreeNameIsFree
<1>3. FreeName(n) \in Names BY <1>1, <1>2, BoundsAssumption DEF Names, MaxRows
<1>4. row \in Rows BY <1>3 DEF Rows
<1>5. pending' = [pending EXCEPT ![n] = Append(@, row)] BY DEF Insert
<1> HIDE DEF row
<1>6. Append(pending[n], row) \in Seq(Rows) /\ Len(Append(pending[n], row)) = Len(pending[n]) + 1
  BY <1>1, <1>4, AppendProperties
<1> QED BY <1>1, <1>5, <1>6

LEMMA PushFits == ASSUME Fits, CommandInv, NEW n \in Nodes, Push(n) PROVE Fits'
<1> DEFINE nodes == targets \ {n}
           more == IF nodes = {} THEN Tail(fired) ELSE fired
           share == MaxRows - Len(fired) + 1
<1>1. /\ phase = "push" /\ n \in targets
      /\ fired' = more /\ targets' = (IF nodes = {} /\ more # <<>> THEN known ELSE nodes)
      /\ phase' = (IF more = <<>> THEN "idle" ELSE "push")
      /\ UNCHANGED <<rules, enabled, known, todo, inbox>>
  BY DEF Push, Rest, node
<1>2. /\ fired \in Seq(Rules) /\ fired # <<>> /\ Len(fired) \in Nat \ {0} /\ Len(fired) <= NumRules
      /\ Head(fired) \in Rules /\ Tail(fired) \in Seq(Rules) /\ Len(Tail(fired)) = Len(fired) - 1
      /\ targets \subseteq known
  BY <1>1, EmptySeq, HeadTailProperties DEF Fits
<1>3. \A i \in Nodes : /\ pending[i] \in Seq(Rows) /\ Len(pending[i]) \in Nat
                       /\ Len(pending[i]) <= share
                       /\ i \in targets => Len(pending[i]) <= share - 1
  BY <1>1, <1>2, LenProperties, BoundsAssumption DEF Fits, MaxRows
<1>4. /\ pending' \in [Nodes -> Seq(Rows)]
      /\ \A i \in Nodes : Len(pending'[i]) \in Nat
      /\ \A i \in Nodes : Len(pending'[i]) <= share
      /\ \A i \in nodes : Len(pending'[i]) <= share - 1
  <2>0. \A i \in nodes : i \in targets /\ i \in Nodes /\ i # n BY DEF Fits
  <2>1. CASE Insert(n, Head(fired))
    <3>1. Len(pending[n]) < MaxRows BY <1>1, <1>2, <1>3, BoundsAssumption DEF MaxRows
    <3>2. /\ pending' \in [Nodes -> Seq(Rows)] /\ Len(pending'[n]) = Len(pending[n]) + 1
          /\ \A i \in Nodes : i # n => pending'[i] = pending[i]
      BY <1>2, <2>1, <3>1, InsertFits
    <3>3. Len(pending'[n]) <= share /\ Len(pending'[n]) \in Nat
      BY <1>1, <1>2, <1>3, <3>2, BoundsAssumption DEF MaxRows
    <3> QED BY <1>3, <2>0, <3>2, <3>3
  <2>2. CASE UNCHANGED pending
    BY <1>3, <2>0, <2>2 DEF Fits
  <2> QED BY <2>1, <2>2 DEF Push
<1>5. share \in Int /\ share <= MaxRows /\ MaxRows \in Nat BY <1>2, BoundsAssumption DEF MaxRows
<1>6. \A i \in Nodes : Len(pending'[i]) <= MaxRows /\ Len(inbox'[i]) <= Page
  BY <1>1, <1>4, <1>5 DEF Fits
<1>7. fired' \in Seq(Rules) /\ targets' \subseteq known' /\ todo' \subseteq Rules
  BY <1>1, <1>2 DEF Fits
<1>8. CASE more = <<>>
  <2>1. phase' = "idle" /\ fired' = <<>> BY <1>1, <1>8
  <2> QED BY <1>1, <1>4, <1>6, <1>7, <2>1 DEF Fits
<1>9. CASE more # <<>> /\ nodes # {}
  <2>1. phase' = "push" /\ fired' = fired /\ targets' = nodes BY <1>1, <1>9
  <2>2. ASSUME NEW i \in Nodes
        PROVE  Len(pending'[i]) <= MaxRows - Len(fired') + (IF i \in targets' THEN 0 ELSE 1)
    BY <1>2, <1>4, <1>5, <2>1
  <2> QED BY <1>1, <1>2, <1>4, <1>6, <1>7, <2>1, <2>2 DEF Fits
<1>10. CASE more # <<>> /\ nodes = {}
  <2>1. phase' = "push" /\ fired' = Tail(fired) /\ targets' = known /\ fired' # <<>>
    BY <1>1, <1>10
  <2>2. Len(fired') = Len(fired) - 1 /\ Len(fired') <= NumRules
    BY <1>2, <2>1, BoundsAssumption
  <2>3. ASSUME NEW i \in Nodes
        PROVE  Len(pending'[i]) <= MaxRows - Len(fired') + (IF i \in targets' THEN 0 ELSE 1)
    BY <1>2, <1>4, <1>5, <2>2
  <2> QED BY <1>1, <1>4, <1>6, <1>7, <2>1, <2>2, <2>3 DEF Fits
<1> QED BY <1>8, <1>9, <1>10

LEMMA FitsStep == Fits /\ CommandInv /\ [Next]_vars => Fits'
<1> SUFFICES ASSUME Fits, CommandInv, [Next]_vars PROVE Fits'
  OBVIOUS
<1>0. \A n \in Nodes : pending[n] \in Seq(Rows) /\ inbox[n] \in Seq(Rows) /\ Len(pending[n]) \in Nat
  BY LenProperties DEF Fits
<1>1. ASSUME NEW caller \in {"autopilot", "route"}, StartRound(caller) PROVE Fits'
  BY <1>1, StartFits
<1>2. CASE RoundStep
  BY <1>2, EvaluateFits, EvaluatedFits, CutOffFits, PushFits DEF RoundStep
<1>3. CASE Crash
  <2>1. /\ phase' = "idle" /\ todo' = {} /\ fired' = <<>> /\ targets' = {}
        /\ UNCHANGED <<rules, enabled, known, pending, inbox>>
    BY <1>3 DEF Crash, server, node
  <2>2. fired' \in Seq(Rules) BY <2>1, EmptySeq
  <2> QED BY <2>1, <2>2 DEF Fits
<1>4. ASSUME NEW r \in Rules, Dismiss(r) \/ DeleteRule(r) \/ \E on \in BOOLEAN : CreateRule(r, on)
      PROVE  Fits'
  BY <1>4 DEF Dismiss, DeleteRule, CreateRule, round, node, Fits
<1>5. ASSUME NEW n \in Nodes, Register(n) PROVE Fits'
  BY <1>5 DEF Register, round, node, Fits
<1>6. ASSUME NEW n \in Nodes, QueueCommand(n) PROVE Fits'
  <2>1. Len(pending[n]) < MaxPending /\ Len(pending[n]) < MaxRows
    BY <1>0, <1>6, BoundsAssumption DEF QueueCommand, MaxRows
  <2>2. /\ pending' \in [Nodes -> Seq(Rows)] /\ Len(pending'[n]) = Len(pending[n]) + 1
        /\ \A i \in Nodes : i # n => pending'[i] = pending[i]
    BY <1>6, <2>1, InsertFits DEF QueueCommand
  <2>3. \A i \in Nodes : Len(pending'[i]) <= MaxRows
    <3>1. Len(pending'[n]) <= MaxRows BY <1>0, <2>1, <2>2, BoundsAssumption DEF MaxRows
    <3> QED BY <2>2, <3>1 DEF Fits
  <2>4. phase = "idle" /\ UNCHANGED <<rules, enabled, known, round, inbox>>
    BY <1>6 DEF QueueCommand, node
  <2> QED BY <2>2, <2>3, <2>4 DEF Fits, round
<1>7. ASSUME NEW n \in Nodes, AckCommand(n) PROVE Fits'
  <2> DEFINE left == Acknowledged(pending[n], Head(inbox[n]).name)
  <2>1. left \in Seq(Rows) /\ Len(left) \in Nat /\ Len(left) <= Len(pending[n])
    BY <1>0, RowsFit
  <2>2. /\ phase = "idle" /\ UNCHANGED <<rules, enabled, known, round>>
        /\ pending' = [pending EXCEPT ![n] = left] /\ inbox' = [inbox EXCEPT ![n] = Tail(@)]
    BY <1>7 DEF AckCommand
  <2>3. inbox[n] # <<>> BY <1>7 DEF AckCommand, CommandInv, Polled
  <2>4. Tail(inbox[n]) \in Seq(Rows) /\ Len(Tail(inbox[n])) <= Page
    <3>1. Len(inbox[n]) \in Nat /\ Len(inbox[n]) <= Page BY <1>0, LenProperties DEF Fits
    <3>2. Tail(inbox[n]) \in Seq(Rows) /\ Len(Tail(inbox[n])) = Len(inbox[n]) - 1
      BY <1>0, <2>3, HeadTailProperties
    <3> QED BY <3>1, <3>2, PageAssumption
  <2> HIDE DEF left
  <2>5. pending' \in [Nodes -> Seq(Rows)] /\ inbox' \in [Nodes -> Seq(Rows)]
    BY <2>1, <2>2, <2>4 DEF Fits
  <2>6. \A i \in Nodes : Len(pending'[i]) <= MaxRows /\ Len(inbox'[i]) <= Page
    BY <1>0, <2>1, <2>2, <2>4, BoundsAssumption DEF Fits, MaxRows
  <2> QED BY <2>2, <2>5, <2>6 DEF Fits, round
<1>8. ASSUME NEW n \in Nodes, NEW page \in Seq(Rows), Len(page) <= Page,
             inbox' = [inbox EXCEPT ![n] = page], UNCHANGED <<server, round>>
      PROVE  Fits'
  BY <1>8 DEF Fits, server, round
<1>9. ASSUME NEW n \in Nodes, PollCommands(n) PROVE Fits'
  <2>1. inbox' = [inbox EXCEPT ![n] = FirstPage(pending[n])] /\ UNCHANGED <<server, round>>
    BY <1>9 DEF PollCommands
  <2> QED BY <1>0, <1>8, <2>1, RowsFit
<1>10. ASSUME NEW n \in Nodes, AckLost(n) \/ NodeRestarts(n) PROVE Fits'
  <2>1. inbox[n] # <<>> BY <1>10 DEF AckLost, NodeRestarts, CommandInv, Polled
  <2>2. Tail(inbox[n]) \in Seq(Rows) /\ Len(Tail(inbox[n])) <= Page
    <3>1. Len(inbox[n]) \in Nat /\ Len(inbox[n]) <= Page BY <1>0, LenProperties DEF Fits
    <3>2. Tail(inbox[n]) \in Seq(Rows) /\ Len(Tail(inbox[n])) = Len(inbox[n]) - 1
      BY <1>0, <2>1, HeadTailProperties
    <3> QED BY <3>1, <3>2, PageAssumption
  <2>3. <<>> \in Seq(Rows) /\ Len(<<>>) <= Page BY EmptySeq, PageAssumption
  <2>4. CASE AckLost(n)
    <3>1. inbox' = [inbox EXCEPT ![n] = Tail(inbox[n])] /\ UNCHANGED <<server, round>>
      BY <2>4 DEF AckLost
    <3> QED BY <1>8, <2>2, <3>1
  <2>5. CASE NodeRestarts(n)
    <3>1. inbox' = [inbox EXCEPT ![n] = <<>>] /\ UNCHANGED <<server, round>>
      BY <2>5 DEF NodeRestarts
    <3> QED BY <1>8, <2>3, <3>1
  <2> QED BY <1>10, <2>4, <2>5
<1>11. ASSUME NEW n \in Nodes, RunCommand(n) PROVE Fits'
  BY <1>11 DEF RunCommand, server, round, Fits
<1>12. CASE Tick
  BY <1>12 DEF Tick, round, node, Fits
<1>13. CASE UNCHANGED vars
  BY <1>13 DEF vars, server, round, node, Fits
<1> QED BY <1>1, <1>2, <1>3, <1>4, <1>5, <1>6, <1>7, <1>9, <1>10, <1>11, <1>12, <1>13 DEF Next

\* The types; the rows of a node stay within what a round may add, a page within
\* its limit (poll_commands), and no two pending rows share a name.
THEOREM TypeCorrect == Spec => []TypeOK
<1>1. RoundInv /\ CooldownInv /\ CommandInv /\ Fits => TypeOK
  <2> SUFFICES ASSUME RoundInv, CooldownInv, CommandInv, Fits PROVE TypeOK
    OBVIOUS
  <2>1. ASSUME NEW n \in Nodes
        PROVE  /\ pending[n] \in Seq(Rows) /\ inbox[n] \in Seq(Rows)
               /\ IsInjective([i \in DOMAIN pending[n] |-> pending[n][i].name])
               /\ Len(inbox[n]) <= Page /\ (acking[n] => inbox[n] # <<>>)
    <3>1. Polled(pending[n], inbox[n], fresh[n], acking[n]) BY DEF CommandInv
    <3>2. DOMAIN pending[n] = 1 .. Len(pending[n]) BY <3>1, LenProperties DEF Polled
    <3>3. IsInjective([i \in DOMAIN pending[n] |-> pending[n][i].name])
      BY <3>1, <3>2 DEF Polled, Distinct, IsInjective
    <3> QED BY <3>1, <3>3 DEF Fits, Polled
  <2>2. due \subseteq Rules \X known
    <3>1. CASE phase = "autopilot"
      <4>1. ToSet(fired) \subseteq Rules
        BY LenProperties, ElementOfSeq DEF RoundInv, RoundTypes, ToSet
      <4> QED BY <3>1, <4>1 DEF RoundInv, DueIsListed
    <3>2. CASE phase = "push"
      <4>1. fired \in Seq(Rules) /\ fired # <<>> /\ targets \subseteq known
        BY <3>2 DEF Fits
      <4>2. Head(fired) \in Rules /\ Tail(fired) \in Seq(Rules) BY <4>1, HeadTailProperties
      <4>3. ToSet(Tail(fired)) \subseteq Rules
        BY <4>2, LenProperties, ElementOfSeq DEF ToSet
      <4> QED BY <3>2, <4>1, <4>2, <4>3 DEF RoundInv, DueIsListed
    <3>3. CASE phase \notin {"autopilot", "push"}
      BY <3>3 DEF RoundInv, DueIsListed
    <3> QED BY <3>1, <3>2, <3>3
  <2> QED BY <2>1, <2>2 DEF TypeOK, RoundInv, RoundTypes, CooldownInv, Fits
<1> QED BY <1>1, RoundHolds, CooldownInit, CooldownStep, CommandHolds, FitsInit, FitsStep, PTL DEF Spec

===============================================================================
