------------------------------- MODULE MCAuth -------------------------------
(***************************************************************************)
(* Two logins side by side and one request behind RequireAuth, for TLC.    *)
(* Chain code c has two spellings and d one.                               *)
(***************************************************************************)
EXTENDS Auth, TLC

CONSTANTS c, d, C1, C2, D1

MCNormal == [s \in Spelling |-> IF s \in {C1, C2} THEN c ELSE d]

\* Slots and token IDs are interchangeable, and so are c's two spellings.
Symmetry ==
    Permutations(Auther) \cup Permutations(Token) \cup Permutations({C1, C2})
=============================================================================
