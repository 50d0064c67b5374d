--------------------------- MODULE MCCoordinator ---------------------------
(* Small coordinators for TLC; the cfg of each run picks the operations.   *)
EXTENDS Coordinator, TLC

\* Handlers, peers, groups and secrets each have no names of their own (codes
\* have: one of them is seeded).
Symmetry ==
  {h @@ p @@ g @@ k : h \in Permutations(Handlers), p \in Permutations(Peers),
                      g \in Permutations(Groups), k \in Permutations(Secrets)}
=============================================================================
