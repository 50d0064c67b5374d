----------------------------- MODULE TunRoutes -----------------------------
(***************************************************************************)
(* Automatic routing in TUN mode (internal/tun): the plan is a list of     *)
(* routes, one command for each.  ApplyUp adds them one by one and stops   *)
(* at the first failure; ApplyDown deletes every planned route and goes on *)
(* past failures.  The platform's table holds one route per destination:   *)
(* adding a second one fails, deleting does not ask whose it is.           *)
(*                                                                         *)
(* The commands that give the device its address are part of the first     *)
(* step: they add no route and are not undone.  The routes are as the      *)
(* process leaves them; what the system does when the device is gone is    *)
(* outside.                                                                *)
(***************************************************************************)
EXTENDS Naturals, Sequences

CONSTANTS Halves,    \* the two routes that capture the default route
          Excludes   \* addresses that go through the physical gateway

VARIABLES routes,    \* destination -> "none", "host" or "ours"
          before,    \* history: the table the program found
          at,        \* commands of the current pass that are done
          stuck      \* history: a delete failed although the route was there

routeVars == <<routes, before, at, stuck>>

Dests == {Halves[i] : i \in DOMAIN Halves} \cup {Excludes[i] : i \in DOMAIN Excludes}

ASSUME RoutesAssumption == Halves \in Seq(Dests) /\ Excludes \in Seq(Dests)

\* PlanUp for -tun-auto-route.
Plan == Halves \o Excludes

\* Another program may have pinned an excluded address before.
RoutesInit ==
  /\ routes \in {f \in [Dests -> {"none", "host"}] :
                   \A i \in DOMAIN Halves : f[Halves[i]] = "none"}
  /\ before = routes /\ at = 0 /\ stuck = FALSE

More == at < Len(Plan)

AddRoute ==
  /\ More /\ routes[Plan[at + 1]] = "none"
  /\ routes' = [routes EXCEPT ![Plan[at + 1]] = "ours"]
  /\ at' = at + 1
  /\ UNCHANGED <<before, stuck>>

\* Any command may fail; it does when there is such a route already.
AddFails == More /\ at' = 0 /\ UNCHANGED <<routes, before, stuck>>

AllDone == ~More /\ at' = 0 /\ UNCHANGED <<routes, before, stuck>>

\* Mutant: PlanDown forgets the exclusions.
DeleteHalves ==
  /\ More /\ at' = at + 1
  /\ routes' = [routes EXCEPT ![Plan[at + 1]] = IF at < Len(Halves) THEN "none" ELSE @]
  /\ UNCHANGED <<before, stuck>>

DeleteRoute ==
  /\ More /\ at' = at + 1
  /\ routes' = [routes EXCEPT ![Plan[at + 1]] = "none"]
  /\ UNCHANGED <<before, stuck>>

\* A delete that fails is noted and the next one tried.
DeleteFails ==
  /\ More /\ at' = at + 1
  /\ stuck' = (stuck \/ routes[Plan[at + 1]] # "none")
  /\ UNCHANGED <<routes, before>>
=============================================================================
