--------------------------- MODULE MCNodeProgram ---------------------------
(* A small node for TLC: two exits to choose from, the two halves of the   *)
(* default route and one excluded address.                                 *)
EXTENDS NodeProgram

CONSTANTS low, high, coordinator

MCHalves == <<low, high>>
MCExcludes == <<coordinator>>
=============================================================================
