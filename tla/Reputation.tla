----------------------------- MODULE Reputation -----------------------------
(***************************************************************************)
(* The two-level reputation store (internal/trust/reputation.go and        *)
(* outcome.go): a score per peer and per group, moved by reports and       *)
(* decayed towards zero.  A missing map entry reads as zero, so deleting a *)
(* zero entry is invisible and is not modelled.                            *)
(***************************************************************************)
EXTENDS Names, Integers

VARIABLES peerRep,   \* peer -> score
          groupRep   \* group -> score

repVars == <<peerRep, groupRep>>

Outcomes == {"served", "blocked"}
Delta(outcome) == IF outcome = "served" THEN 1 ELSE -10

NoPeerRep == [p \in Peers |-> 0]
NoGroupRep == [g \in Groups |-> 0]

RepInit ==
  /\ peerRep = NoPeerRep
  /\ groupRep = NoGroupRep

AdjustPeer(p, delta) ==
  /\ peerRep' = [peerRep EXCEPT ![p] = @ + delta]
  /\ UNCHANGED groupRep

AdjustGroup(g, delta) ==
  /\ groupRep' = [groupRep EXCEPT ![g] = @ + delta]
  /\ UNCHANGED peerRep

\* Mutant: the step is not cut short at zero.
DecayPastZero(v, step) ==
  CASE v > 0 -> v - step
    [] v < 0 -> v + step
    [] OTHER -> 0

DecayToward0(v, step) ==
  CASE v > 0 -> IF v - step <= 0 THEN 0 ELSE v - step
    [] v < 0 -> IF v + step >= 0 THEN 0 ELSE v + step
    [] OTHER -> 0

Decay(step) ==
  /\ peerRep' = [p \in Peers |-> DecayToward0(peerRep[p], step)]
  /\ groupRep' = [g \in Groups |-> DecayToward0(groupRep[g], step)]
=============================================================================
