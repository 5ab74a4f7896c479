--------------------------- MODULE MCKeyDerivation ---------------------------
(***************************************************************************)
(* A group of order N, its points twice their scalars mod N, and a family  *)
(* of MACs in which every kind of digest occurs, for TLC.                  *)
(***************************************************************************)
EXTENDS KeyDerivation

CONSTANT N

MCScalar == 0..N - 1
MCPlus(a, b) == (a + b) % N
MCTimes(a) == (2 * a) % N

MCPaths == {<<0, 0, 0>>, <<1, 0, 0>>, <<1, 2>>}

MCMacs ==
    {[x \in Chain \X Point \X Index |->
        [il |-> (a * x[2] + b * x[3] + x[1]) % N,
         overflow |-> (x[1] + x[2] + a) % 4 = 3,
         chain |-> (x[1] + x[3] + b) % 2]]
     : a \in 0..N - 1, b \in {1, 2}}
=============================================================================
