---------------------------- MODULE MCMembership ----------------------------
(* A small discovery plane for TLC: two devices with one key.              *)
EXTENDS Membership, TLC

CONSTANTS d1, d2, p1, online, offline

MCKey == d1 :> p1 @@ d2 :> p1
MCGrants == online :> {"member"} @@ offline :> {"member", "exit"}
Symmetry == Permutations(Resolvers) \cup Permutations(Places) \cup Permutations(Devices)
=============================================================================
