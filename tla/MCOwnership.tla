----------------------------- MODULE MCOwnership -----------------------------
(***************************************************************************)
(* Two vaults and two requests at a time, for TLC; two accounts, so that   *)
(* REAP could make a second one under a key.                               *)
(***************************************************************************)
EXTENDS Ownership
=============================================================================
