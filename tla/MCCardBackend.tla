---------------------------- MODULE MCCardBackend ----------------------------
(***************************************************************************)
(* Two vaults, an account and a card that are the first one's, one request *)
(* and one delivery at a time, for TLC.                                    *)
(***************************************************************************)
EXTENDS CardBackend, TLC

CONSTANTS v, w, u1, u2

MCOwnerIn ==
    [kind \in {"card", "account", "user"} |->
        [id \in Id |-> IF id = u2 THEN w ELSE v]]

\* With a notification client; without one nobody is notified.
WithClient == client = "ready"

\* The keys are interchangeable.
Symmetry == Permutations(Key)
=============================================================================
