------------------------------- MODULE Names -------------------------------
(***************************************************************************)
(* The identities the coordinator's modules share.                         *)
(***************************************************************************)
CONSTANTS Peers,     \* peer identities
          Groups,    \* group names
          Handlers,  \* goroutines that can be inside a handler at once
          None       \* no entry in a map; also the empty invite code
=============================================================================
