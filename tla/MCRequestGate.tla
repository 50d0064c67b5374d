--------------------------- MODULE MCRequestGate ---------------------------
(* Small networks for TLC.                                                 *)
EXTENDS RequestGate, TLC

CONSTANTS k1, k2, s1, s2, p1, p2, proxy1, proxy2

\* k1 calls directly, k2 through two proxies; both claim to be s1.
MCOrigin == k1 :> s1 @@ k2 :> s2
MCHops == k1 :> << >> @@ k2 :> <<proxy1, proxy2>>
MCClaimed == <<s1>>
\* The clock of p2 is ahead by a second.
MCDrift == p1 :> 0 @@ p2 :> 2
=============================================================================
