---------------------------- MODULE DurableWrites ----------------------------
(***************************************************************************)
(* What the write-through queue promises its users, without queue, WAL or  *)
(* threads (module header of backend/duckdb_queue.py): a write is refused, *)
(* or it stays open until it has taken effect at least once or sits among  *)
(* the dead letters, from where only an operator moves it.                 *)
(***************************************************************************)
EXTENDS Naturals

CONSTANTS Works

VARIABLES
  st,    \* [Works -> status of the write]
  runs   \* [Works -> how often it took effect]

avars == <<st, runs>>

Status == {"new", "refused", "open", "buried", "dropped", "settled"}

ATypeOK ==
  /\ st \in [Works -> Status]
  /\ runs \in [Works -> Nat]

AInit ==
  /\ st = [w \in Works |-> "new"]
  /\ runs = [w \in Works |-> 0]

\* Calls that have not been decided are; a crash decides several at once.
Decide(accept, refuse) ==
  /\ accept \union refuse # {}
  /\ accept \intersect refuse = {}
  /\ st' = [w \in Works |-> IF w \in accept THEN "open"
                            ELSE IF w \in refuse THEN "refused" ELSE st[w]]
  /\ UNCHANGED runs

\* A write that bypasses a disabled queue takes effect at once.
Bypass(w) ==
  /\ st[w] = "new"
  /\ st' = [st EXCEPT ![w] = "settled"]
  /\ runs' = [runs EXCEPT ![w] = @ + 1]

TakeEffect(w) ==
  /\ st[w] = "open"
  /\ runs' = [runs EXCEPT ![w] = @ + 1]
  /\ UNCHANGED st

Settle(w) ==
  /\ st[w] = "open" /\ runs[w] > 0
  /\ st' = [st EXCEPT ![w] = "settled"]
  /\ UNCHANGED runs

Bury(w) ==
  /\ st[w] = "open"
  /\ st' = [st EXCEPT ![w] = "buried"]
  /\ UNCHANGED runs

Revive(w) ==
  /\ st[w] = "buried"
  /\ st' = [st EXCEPT ![w] = "open"]
  /\ UNCHANGED runs

\* The dead letters are cleared all at once.
Drop(ws) ==
  /\ ws # {}
  /\ st' = [w \in Works |-> IF w \in ws THEN "dropped" ELSE st[w]]
  /\ UNCHANGED runs

ANext ==
  \/ \E accept, refuse \in SUBSET {w \in Works : st[w] = "new"} : Decide(accept, refuse)
  \/ \E w \in Works : Bypass(w) \/ TakeEffect(w) \/ Settle(w) \/ Bury(w) \/ Revive(w)
  \/ \E ws \in SUBSET {w \in Works : st[w] = "buried"} : Drop(ws)

ASpec == AInit /\ [][ANext]_avars
=============================================================================
