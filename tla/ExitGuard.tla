----------------------------- MODULE ExitGuard -----------------------------
(***************************************************************************)
(* The counters of an exit's guard (internal/exit/guard.go) and its byte   *)
(* budget (internal/bandwidth/limiter.go).  Authorize asks the policy,     *)
(* then the budget, then takes a slot; only the last two touch state, each *)
(* under a lock of its own, so they are two operators here and two steps   *)
(* of whoever calls Authorize.  A requester without an entry in a map is   *)
(* one with no connection, or with a full bucket: the pruning of full and  *)
(* idle buckets cannot be observed.                                        *)
(***************************************************************************)
EXTENDS Integers, FiniteSets

CONSTANTS Requesters,      \* peers that ask this exit to carry traffic
          MaxConns,        \* Policy.MaxConns, 0 for no limit
          MaxPerRequester, \* Policy.MaxConnsPerRequester, 0 for no limit
          Burst            \* Policy.RequesterByteBurst, in chunks

ASSUME GuardAssumption ==
  /\ IsFiniteSet(Requesters)
  /\ {MaxConns, MaxPerRequester, Burst} \subseteq Nat

VARIABLES active,  \* connections served now
          perReq,  \* requester -> connections served for it now
          tokens   \* requester -> what is left of its budget

guardVars == <<active, perReq, tokens>>

GuardInit ==
  /\ active = 0
  /\ perReq = [r \in Requesters |-> 0]
  /\ tokens = [r \in Requesters |-> Burst]

Room(n, max) == max = 0 \/ n < max

\* Mutant: the per-requester limit is off by one.
HasRoomForOneMore(r) ==
  /\ Room(active, MaxConns)
  /\ MaxPerRequester = 0 \/ perReq[r] <= MaxPerRequester

HasRoom(r) == Room(active, MaxConns) /\ Room(perReq[r], MaxPerRequester)

Acquire(r) ==
  /\ HasRoom(r)
  /\ active' = active + 1
  /\ perReq' = [perReq EXCEPT ![r] = @ + 1]
  /\ UNCHANGED tokens

\* The release function of a connection of r, which runs once.
Release(r) ==
  /\ active' = active - 1
  /\ perReq' = [perReq EXCEPT ![r] = IF @ - 1 <= 0 THEN 0 ELSE @ - 1]
  /\ UNCHANGED tokens

Over(r) == tokens[r] < 0

\* One relayed chunk is charged; the breaker trips if that overdraws.
Charge(r) ==
  /\ tokens' = [tokens EXCEPT ![r] = @ - 1]
  /\ UNCHANGED <<active, perReq>>
Trips(r) == tokens[r] - 1 < 0

\* Time passes: a bucket gains a token, up to the burst.
Refill(r) ==
  /\ tokens[r] < Burst
  /\ tokens' = [tokens EXCEPT ![r] = @ + 1]
  /\ UNCHANGED <<active, perReq>>
=============================================================================
