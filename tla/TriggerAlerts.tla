---------------------------- MODULE TriggerAlerts ----------------------------
(***************************************************************************)
(* Alerts from the rules of trigger_engine.py to the edge nodes.           *)
(*                                                                         *)
(* A round evaluates the enabled rules one after the other. A rule that    *)
(* holds and is not cooling down is written to trigger_log, which starts   *)
(* its cooldown, and joins the list of fired rules. The round of the       *)
(* briefing autopilot (lifespan.py) then queues a command per fired rule   *)
(* and known node; the round of POST /triggers/evaluate does not. Nodes    *)
(* poll a page of their pending commands, run them and acknowledge each    *)
(* (node_ingest.py).                                                       *)
(*                                                                         *)
(* A round never suspends, so requests wait for its end; but every row is  *)
(* a transaction of its own, and the process can die between two.          *)
(*                                                                         *)
(* Differences from the code: a rule matches or does not; the cooldown is  *)
(* the same for all rules and is counted in ticks; all that matters of     *)
(* trigger_log is how much of a cooldown is left. The webhooks and the     *)
(* event queues of /node/stream are left out. The program of a node is not *)
(* in the repository: it is modelled as what the routes expect of it.      *)
(***************************************************************************)
EXTENDS Naturals, FiniteSets, Sequences, SequencesExt

CONSTANTS
  NumRules,     \* rules 1..NumRules, in the order of list_rules
  Nodes,        \* the edge nodes
  Cooldown,     \* cooldown_min in ticks
  Page,         \* commands per poll ("limit", 10 in the code)
  MaxPending,   \* bound: unacknowledged commands per node before a round
  MaxTrouble,   \* bound: crashes in the middle of a round, queries and INSERTs that
                \* raise and rounds of POST /triggers/evaluate, taken together
  MaxSlips      \* bound: dismissals and lost log rows of a rule per cooldown

ASSUME CooldownAssumption == Cooldown \in Nat \ {0}
ASSUME PageAssumption == Page \in Nat \ {0}
ASSUME BoundsAssumption == NumRules \in Nat /\ MaxPending \in Nat

Rules == 1 .. NumRules
Other == 0               \* a command of an operator (reboot, exec, ...)
Names == 1 .. MaxPending + NumRules   \* those that are ever in use

VARIABLES
  rules,     \* the rules in trigger_rules
  enabled,   \* those with enabled = 1
  cooling,   \* per rule: what is left of the cooldown in trigger_log
  known,     \* the nodes in node_state
  pending,   \* per node: its rows of node_commands with status 'pending', by id
  phase,     \* "idle"; "autopilot" or "route": evaluates for it; "push"
  todo,      \* rules the round has still to evaluate
  fired,     \* rules the round has fired and not yet pushed
  targets,   \* nodes still without a command for the first of fired
  inbox,     \* per node: the rows of the last poll it has not dealt with
  acking,    \* per node: it has run the first of them
  trouble,   \* how much of MaxTrouble there was
  \* history
  shots,     \* per rule: what is left of the window of each fire
  slips,     \* per rule: the same of each dismissal and each lost log row
  due,       \* fires of the last round that a known node has not heard of
  fresh      \* per node: names of pending commands it has never run

server == <<rules, enabled, cooling, known, pending>>
round == <<phase, todo, fired, targets, due>>
node == <<inbox, acking>>
ghost == <<shots, slips, fresh>>
vars == <<server, round, node, ghost, trouble>>

Init ==
  /\ rules = Rules /\ enabled = Rules
  /\ cooling = [r \in Rules |-> 0]
  /\ known \in SUBSET Nodes
  /\ pending = [n \in Nodes |-> <<>>]
  /\ phase = "idle"
  /\ todo = {} /\ fired = <<>> /\ targets = {} /\ due = {}
  /\ inbox = [n \in Nodes |-> <<>>]
  /\ acking = [n \in Nodes |-> FALSE]
  /\ trouble = 0
  /\ shots = [r \in Rules |-> <<>>] /\ slips = [r \in Rules |-> <<>>]
  /\ fresh = [n \in Nodes |-> {}]

-----------------------------------------------------------------------------
(* The round of evaluate_triggers and push_trigger_to_nodes.               *)

\* Fault: the window ends a tick early.
OnCooldownShort(r) == cooling[r] > 1

\* _is_on_cooldown: the latest row that is not dismissed is younger than the
\* cooldown. A rule with such a row does not fire, so there is one at most.
OnCooldown(r) == cooling[r] > 0

Trouble == trouble < MaxTrouble /\ trouble' = trouble + 1

StartRound(caller) ==
  /\ phase = "idle"
  /\ \A n \in Nodes : Len(pending[n]) <= MaxPending
  /\ phase' = caller
  /\ todo' = enabled
  /\ due' = {}
  /\ IF caller = "route" THEN Trouble ELSE UNCHANGED trouble
  /\ UNCHANGED <<server, fired, targets, node, ghost>>

\* One rule of the loop. _log_trigger swallows its errors: the rule has fired,
\* and nothing remembers it. matches: a fusion cell or a watch item meets the
\* condition of the rule.
Evaluate(matches) ==
  /\ phase \in {"autopilot", "route"}
  /\ \E r \in todo :
     /\ \A q \in todo : r <= q
     /\ todo' = todo \ {r}
     /\ IF matches /\ ~OnCooldown(r)
        THEN /\ fired' = Append(fired, r)
             /\ due' = IF phase = "autopilot" THEN due \union ({r} \X known) ELSE due
             /\ shots' = [shots EXCEPT ![r] = Append(@, Cooldown)]
             /\ \/ /\ cooling' = [cooling EXCEPT ![r] = Cooldown]
                   /\ UNCHANGED <<slips, trouble>>
                \/ /\ Trouble /\ Len(slips[r]) < MaxSlips
                   /\ slips' = [slips EXCEPT ![r] = Append(@, Cooldown)]
                   /\ UNCHANGED cooling
        ELSE UNCHANGED <<fired, due, shots, cooling, slips, trouble>>
  /\ UNCHANGED <<rules, enabled, known, pending, phase, targets, node, fresh>>

\* The round is over before a node was told: its caller swallows the error.
CutOff ==
  /\ Trouble
  /\ phase' = "idle" /\ todo' = {} /\ fired' = <<>>
  /\ UNCHANGED <<server, targets, due, node, ghost>>

\* The query of _is_on_cooldown raises, after other rules have fired.
EvaluationRaises == phase \in {"autopilot", "route"} /\ todo # {} /\ CutOff

\* The push swallows the error of its SELECT on node_state: it knows no node.
NodesUnread == phase = "autopilot" /\ todo = {} /\ fired # <<>> /\ CutOff

\* The end of the evaluation: the autopilot goes on to the push, which reads
\* the node ids once; the route answers.
Evaluated ==
  /\ phase \in {"autopilot", "route"} /\ todo = {}
  /\ IF phase = "autopilot" /\ fired # <<>> /\ known # {}
     THEN phase' = "push" /\ targets' = known /\ UNCHANGED fired
     ELSE phase' = "idle" /\ fired' = <<>> /\ UNCHANGED targets
  /\ UNCHANGED <<server, todo, due, node, ghost, trouble>>

\* A new row of node_commands. A row is known by a name that no other pending
\* row has; the order of the ids is the order of the sequence.
FreeName(n) ==
  CHOOSE i \in 1 .. Len(pending[n]) + 1 : \A row \in ToSet(pending[n]) : row.name # i

Insert(n, what) ==
  /\ pending' = [pending EXCEPT ![n] = Append(@, [name |-> FreeName(n), what |-> what])]
  /\ fresh' = [fresh EXCEPT ![n] = @ \union {FreeName(n)}]

\* The rest of the push after node n: the next node, the next rule, or the end.
\* Fault: an INSERT that raises ends the push.
RestOrNothing(n, raised) ==
  IF raised THEN phase' = "idle" /\ fired' = <<>> /\ targets' = {}
  ELSE LET nodes == targets \ {n}
           more == IF nodes = {} THEN Tail(fired) ELSE fired IN
       /\ fired' = more
       /\ targets' = IF nodes = {} /\ more # <<>> THEN known ELSE nodes
       /\ phase' = IF more = <<>> THEN "idle" ELSE "push"

Rest(n, raised) ==
  LET nodes == targets \ {n}
      more == IF nodes = {} THEN Tail(fired) ELSE fired IN
  /\ fired' = more
  /\ targets' = IF nodes = {} /\ more # <<>> THEN known ELSE nodes
  /\ phase' = IF more = <<>> THEN "idle" ELSE "push"

\* One INSERT of the push; an error is swallowed and the loop goes on.
Push(n) ==
  /\ phase = "push" /\ n \in targets
  /\ due' = due \ {<<Head(fired), n>>}
  /\ \/ Insert(n, Head(fired)) /\ Rest(n, FALSE) /\ UNCHANGED trouble
     \/ Trouble /\ Rest(n, TRUE) /\ UNCHANGED <<pending, fresh>>
  /\ UNCHANGED <<rules, enabled, cooling, known, todo, node, shots, slips>>

\* The process dies in the middle of a round and starts again: the rows stay.
Crash ==
  /\ phase # "idle" /\ Trouble
  /\ phase' = "idle" /\ todo' = {} /\ fired' = <<>> /\ targets' = {} /\ due' = {}
  /\ UNCHANGED <<server, node, ghost>>

-----------------------------------------------------------------------------
(* Requests to the server, between rounds.                                 *)

\* The operator dismisses the row a rule is cooling down from.
Dismiss(r) ==
  /\ phase = "idle" /\ cooling[r] > 0 /\ Len(slips[r]) < MaxSlips
  /\ cooling' = [cooling EXCEPT ![r] = 0]
  /\ slips' = [slips EXCEPT ![r] = Append(@, Cooldown)]
  /\ UNCHANGED <<rules, enabled, known, pending, round, node, shots, fresh, trouble>>

\* create_rule: an upsert; the log keeps what it knows of the name.
CreateRule(r, on) ==
  /\ phase = "idle"
  /\ rules' = rules \union {r}
  /\ enabled' = IF on THEN enabled \union {r} ELSE enabled \ {r}
  /\ UNCHANGED <<cooling, known, pending, round, node, ghost, trouble>>

\* delete_rule. init_trigger_db, which every function calls first, seeds an
\* empty table again: deleting the last rule brings all the defaults back.
DeleteRule(r) ==
  /\ phase = "idle" /\ r \in rules
  /\ rules' = IF rules = {r} THEN Rules ELSE rules \ {r}
  /\ enabled' = IF rules = {r} THEN Rules ELSE enabled \ {r}
  /\ UNCHANGED <<cooling, known, pending, round, node, ghost, trouble>>

\* The first telemetry of a node.
Register(n) ==
  /\ phase = "idle" /\ n \notin known /\ known' = known \union {n}
  /\ UNCHANGED <<rules, enabled, cooling, pending, round, node, ghost, trouble>>

QueueCommand(n) ==
  /\ phase = "idle" /\ Len(pending[n]) < MaxPending
  /\ Insert(n, Other)
  /\ UNCHANGED <<rules, enabled, cooling, known, round, node, shots, slips, trouble>>

\* Fault: the newest commands come first.
NewestPage(rows) == Reverse(SubSeq(rows, IF Len(rows) > Page THEN Len(rows) - Page + 1 ELSE 1, Len(rows)))

\* SELECT ... WHERE status = 'pending' ORDER BY id LIMIT ?
FirstPage(rows) == SubSeq(rows, 1, IF Len(rows) > Page THEN Page ELSE Len(rows))

PollCommands(n) ==
  /\ phase = "idle" /\ inbox[n] = <<>> /\ pending[n] # <<>>
  /\ inbox' = [inbox EXCEPT ![n] = FirstPage(pending[n])]
  /\ UNCHANGED <<server, round, acking, ghost, trouble>>

\* Fault: an acknowledged command is delivered again.
StaysPending(rows, name) == rows

\* UPDATE node_commands SET status = ? WHERE id = ?
Acknowledged(rows, name) ==
  LET at == {i \in DOMAIN rows : rows[i].name = name} IN
  IF at = {} THEN rows ELSE RemoveAt(rows, CHOOSE i \in at : TRUE)

AckCommand(n) ==
  /\ phase = "idle" /\ acking[n]
  /\ pending' = [pending EXCEPT ![n] = Acknowledged(@, Head(inbox[n]).name)]
  /\ inbox' = [inbox EXCEPT ![n] = Tail(@)]
  /\ acking' = [acking EXCEPT ![n] = FALSE]
  /\ UNCHANGED <<rules, enabled, cooling, known, round, ghost, trouble>>

-----------------------------------------------------------------------------
(* The nodes, the network and the world.                                   *)

RunCommand(n) ==
  /\ inbox[n] # <<>> /\ ~acking[n]
  /\ acking' = [acking EXCEPT ![n] = TRUE]
  /\ fresh' = [fresh EXCEPT ![n] = @ \ {Head(inbox[n]).name}]
  /\ UNCHANGED <<server, round, inbox, shots, slips, trouble>>

\* The acknowledgement does not get through; the node goes on.
AckLost(n) ==
  /\ acking[n]
  /\ inbox' = [inbox EXCEPT ![n] = Tail(@)]
  /\ acking' = [acking EXCEPT ![n] = FALSE]
  /\ UNCHANGED <<server, round, ghost, trouble>>

\* A node restarts before it has acknowledged - the command may have told it
\* to - and polls again. (A reply that is lost before the node acts on it leaves
\* no trace.)
NodeRestarts(n) ==
  /\ acking[n]
  /\ inbox' = [inbox EXCEPT ![n] = <<>>]
  /\ acking' = [acking EXCEPT ![n] = FALSE]
  /\ UNCHANGED <<server, round, ghost, trouble>>

\* Windows that are a tick older; those that end now are the first ones.
Older(left) ==
  LET ended == Cardinality({i \in DOMAIN left : left[i] <= 1}) IN
  [i \in 1 .. Len(left) - ended |-> left[i + ended] - 1]

Tick ==
  /\ phase = "idle"
  /\ \E r \in Rules : cooling[r] > 0 \/ shots[r] # <<>> \/ slips[r] # <<>>
  /\ cooling' = [r \in Rules |-> IF cooling[r] > 0 THEN cooling[r] - 1 ELSE 0]
  /\ shots' = [r \in Rules |-> Older(shots[r])]
  /\ slips' = [r \in Rules |-> Older(slips[r])]
  /\ UNCHANGED <<rules, enabled, known, pending, round, node, fresh, trouble>>

RoundStep ==
  \/ \E m \in BOOLEAN : Evaluate(m)
  \/ EvaluationRaises \/ Evaluated \/ NodesUnread
  \/ \E n \in Nodes : Push(n)

Next ==
  \/ \E caller \in {"autopilot", "route"} : StartRound(caller)
  \/ RoundStep
  \/ Crash
  \/ \E r \in Rules : Dismiss(r) \/ DeleteRule(r) \/ \E on \in BOOLEAN : CreateRule(r, on)
  \/ \E n \in Nodes :
       \/ Register(n) \/ QueueCommand(n) \/ PollCommands(n) \/ AckCommand(n)
       \/ RunCommand(n) \/ AckLost(n) \/ NodeRestarts(n)
  \/ Tick

Spec == Init /\ [][Next]_vars

\* A round that began goes on, time passes, the autopilot comes round again and
\* again, and a node gets through now and then: the strong fairness stands for
\* a network and a node that fail, but not each time for ever.
Fairness ==
  /\ WF_vars(RoundStep) /\ SF_vars(Tick) /\ SF_vars(StartRound("autopilot"))
  /\ \A n \in Nodes : SF_vars(PollCommands(n)) /\ WF_vars(RunCommand(n)) /\ SF_vars(AckCommand(n))

FairSpec == Spec /\ Fairness
-----------------------------------------------------------------------------
(* Properties.                                                             *)

Rows == [name : Names, what : {Other} \union Rules]

\* The variables have their types; a node never holds two rows of one name.
TypeOK ==
  /\ enabled \subseteq rules /\ rules \subseteq Rules /\ known \subseteq Nodes
  /\ cooling \in [Rules -> 0 .. Cooldown]
  /\ \A n \in Nodes :
       /\ pending[n] \in Seq(Rows) /\ inbox[n] \in Seq(Rows)
       /\ IsInjective([i \in DOMAIN pending[n] |-> pending[n][i].name])
       /\ Len(inbox[n]) <= Page /\ (acking[n] => inbox[n] # <<>>)
  /\ phase \in {"idle", "autopilot", "route", "push"}
  /\ targets \subseteq known /\ due \subseteq Rules \X known

\* Within a cooldown a rule fires again only as often as an operator dismissed
\* its alert or its row was lost in _log_trigger - whether the autopilot or the
\* route evaluates it, and even if it was deleted and created again.
RepeatsAreExcused == \A r \in Rules : Len(shots[r]) <= 1 + Len(slips[r])

\* The errors of one node do not cost another its alert: a round of the autopilot
\* that comes to its end has told every node it knew of every rule it fired, but for
\* an INSERT that failed itself; or a query raised before the push, and it has told
\* nobody of anything. (The rules that fired cool down all the same.)
AllOrNobody ==
  [][phase # "idle" /\ phase' = "idle" =>
       due' = {} \/ (phase = "autopilot" /\ trouble' # trouble)]_vars

\* A node runs its commands for the first time in the order in which they were
\* queued, through lost acknowledgements, restarts and pages.
FirstRunsInOrder ==
  [][\A n \in Nodes : \A i, j \in DOMAIN pending[n] :
       (i < j /\ pending[n][j].name \in fresh[n] \ fresh'[n])
         => pending[n][i].name \notin fresh[n]]_vars

RunsAlert(n, r) ==
  inbox[n] # <<>> /\ Head(inbox[n]).what = r /\ ~acking[n] /\ acking'[n]

\* Whenever the rule is evaluated and is not cooling down, it fires.
Matches(r) ==
  phase' = phase /\ r \in todo \ todo' /\ ~OnCooldown(r) => fired' # fired

\* A rule that goes on matching reaches every node again and again, although
\* rounds are cut off by crashes, rows fail, and polls and acknowledgements get
\* lost: a cooldown delays an alert but never swallows it for good.
AlertsArrive ==
  \A r \in Rules, n \in Nodes :
    <>[](r \in enabled /\ n \in known) /\ <>[][Matches(r)]_vars
      => []<><<RunsAlert(n, r)>>_vars

=============================================================================
