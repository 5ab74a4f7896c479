--------------------------- MODULE MCScopedAccess ---------------------------
(***************************************************************************)
(* Two vaults, for TLC.  Each has a user with an account, and v1 has two   *)
(* cards; a third user was made for v1 by a create that was given up.  One *)
(* slot is enough: all another request can do to it, which is to make a    *)
(* row or a thing, Elsewhere does at any time.                             *)
(***************************************************************************)
EXTENDS ScopedAccess, TLC

CONSTANTS v1, v2, u1, u2, u3, a1, a2, c1, c2

MCVaultOf == [u \in User |-> IF u = u2 THEN v2 ELSE v1]
MCUserOf == [x \in Account \cup Card |-> IF x \in {a2, c2} THEN u2 ELSE u1]
MCAccountOf == [c \in Card |-> IF c = c2 THEN a2 ELSE a1]

Symmetry == Permutations(Thing)
=============================================================================
