---------------------------- MODULE MCUserCreate ----------------------------
(***************************************************************************)
(* Two handler slots that compete for one vault and a third that serves    *)
(* another vault, for TLC.                                                 *)
(***************************************************************************)
EXTENDS UserCreate, TLC

CONSTANTS v1, v2, a1, a2, b1

\* a1 and a2 serve v1, every other slot serves v2.
MCVaultOf == [r \in Req |-> IF r \in {a1, a2} THEN v1 ELSE v2]

\* REAP's user IDs are interchangeable, and so are the two slots of v1.
Symmetry == Permutations(UserId) \cup Permutations({a1, a2})
=============================================================================
