----------------------------- MODULE MCLifecycle -----------------------------
(***************************************************************************)
(* Two requests at a time, for TLC.                                        *)
(***************************************************************************)
EXTENDS Lifecycle
=============================================================================
