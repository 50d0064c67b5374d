--------------------------- MODULE MCSocksIngress ---------------------------
(* A small ingress for TLC: one connection of either kind, two exits.     *)
EXTENDS SocksIngress
=============================================================================
