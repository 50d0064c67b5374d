------------------------------ MODULE SlotPool ------------------------------
(***************************************************************************)
(* What an exit promises its operator about connections: a ticket holds at *)
(* most one slot, a requester no more than its share, all together no more *)
(* than the limit, and a slot is given back by the ticket that took it.    *)
(***************************************************************************)
EXTENDS Naturals, FiniteSets

CONSTANTS Tickets,     \* what may hold a slot
          Requesters,
          Limit,       \* slots in all, 0 for no limit
          Share        \* slots of one requester, 0 for no limit

VARIABLE holds  \* requester -> the tickets that hold a slot for it

Room(n, max) == max = 0 \/ n < max

Init == holds = [r \in Requesters |-> {}]

Take(r, t) ==
  /\ \A q \in Requesters : t \notin holds[q]
  /\ Room(Cardinality(UNION {holds[q] : q \in Requesters}), Limit)
  /\ Room(Cardinality(holds[r]), Share)
  /\ holds' = [holds EXCEPT ![r] = @ \cup {t}]

GiveBack(r, t) ==
  /\ t \in holds[r]
  /\ holds' = [holds EXCEPT ![r] = @ \ {t}]

Next == \E r \in Requesters, t \in Tickets : Take(r, t) \/ GiveBack(r, t)

Spec == Init /\ [][Next]_holds
=============================================================================
