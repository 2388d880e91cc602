------------------------------ MODULE GatedAction ------------------------------
(***************************************************************************)
(* What approvals and helpers promise together, with no records, leases,   *)
(* nonces or clocks: a proposed action is put up for decision, is decided  *)
(* at most once, and is performed only after it was granted, exactly as it *)
(* was put up.                                                             *)
(***************************************************************************)
CONSTANTS Ids, Deeds   \* what may be put up for decision, [action, target]

VARIABLES proposed,   \* proposed[id]: the deed put up for decision under id
          decided,    \* decided[id]: was it granted?
          performed   \* the deeds performed, each with the id it was granted under

\* The function f, with y for x as well.
With(f, x, y) == [z \in DOMAIN f \cup {x} |-> IF z = x THEN y ELSE f[z]]

gateVars == <<proposed, decided, performed>>

Init ==
  /\ proposed = <<>>
  /\ decided = <<>>
  /\ performed = {}

Propose(id, deed) ==
  /\ id \notin DOMAIN proposed
  /\ proposed' = With(proposed, id, deed)
  /\ UNCHANGED <<decided, performed>>

Decide(id, granted) ==
  /\ id \in DOMAIN proposed \ DOMAIN decided
  /\ decided' = With(decided, id, granted)
  /\ UNCHANGED <<proposed, performed>>

Perform(id) ==
  /\ id \in DOMAIN decided
  /\ decided[id]
  /\ performed' = performed \cup {[id |-> id, deed |-> proposed[id]]}
  /\ UNCHANGED <<proposed, decided>>

Next ==
  \/ \E id \in Ids, deed \in Deeds : Propose(id, deed)
  \/ \E id \in Ids, granted \in BOOLEAN : Decide(id, granted)
  \/ \E id \in Ids : Perform(id)

Spec == Init /\ [][Next]_gateVars

===============================================================================
