----------------------------- MODULE SeatLedger -----------------------------
(***************************************************************************)
(* What the coordinator's invite store promises, without counters: an      *)
(* invite is a table with a fixed number of seats, a peer takes at most    *)
(* one seat anywhere and never leaves it, and one founder may sit down     *)
(* without an invite, provided nobody sits anywhere yet.                   *)
(***************************************************************************)
EXTENDS Naturals, FiniteSets

CONSTANTS Peers,    \* peer identities
          Codes,    \* invite codes
          Sizes     \* numbers of seats an invite may have

VARIABLES open,     \* codes that were issued
          seats,    \* code -> number of seats of an issued code
          seated,   \* code -> peers admitted through it
          founders  \* peers admitted without a code

ledgerVars == <<open, seats, seated, founders>>

Everyone == founders \cup UNION {seated[c] : c \in Codes}

Init ==
  /\ open = {}
  /\ seats = [c \in Codes |-> 0]
  /\ seated = [c \in Codes |-> {}]
  /\ founders = {}

Issue(c, n) ==
  /\ c \notin open
  /\ open' = open \cup {c}
  /\ seats' = [seats EXCEPT ![c] = n]
  /\ UNCHANGED <<seated, founders>>

TakeSeat(p, c) ==
  /\ c \in open
  /\ p \notin Everyone
  /\ Cardinality(seated[c]) < seats[c]
  /\ seated' = [seated EXCEPT ![c] = @ \cup {p}]
  /\ UNCHANGED <<open, seats, founders>>

Found(p) ==
  /\ Everyone = {}
  /\ founders' = {p}
  /\ UNCHANGED <<open, seats, seated>>

Next ==
  \/ \E c \in Codes, n \in Sizes : Issue(c, n)
  \/ \E p \in Peers, c \in Codes : TakeSeat(p, c)
  \/ \E p \in Peers : Found(p)

Spec == Init /\ [][Next]_ledgerVars
=============================================================================
