---------------------------- MODULE MCExitServer ----------------------------
(* Small exits for TLC.                                                    *)
EXTENDS ExitServer, TLC

\* For the runs without liveness properties.
Symmetry ==
  {s @@ r @@ t : s \in Permutations(Tunnels), r \in Permutations(Requesters),
                 t \in Permutations(Targets)}
=============================================================================
