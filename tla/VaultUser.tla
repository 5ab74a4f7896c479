------------------------------ MODULE VaultUser ------------------------------
(***************************************************************************)
(* What POST /user promises about the mapping table, with no word about    *)
(* requests, claims, time or failures: a vault is bound to at most one     *)
(* REAP user, the binding is never changed or removed, and no REAP user is *)
(* bound to two vaults.  UserCreate implements this specification.         *)
(***************************************************************************)
CONSTANTS Vault, UserId, NoUser

VARIABLE bound          \* [Vault -> UserId \cup {NoUser}]

Init == bound = [v \in Vault |-> NoUser]

\* Bind unbound vault v to user u, which no vault is bound to yet.
Bind(v, u) ==
    /\ bound[v] = NoUser
    /\ \A w \in Vault : bound[w] # u
    /\ bound' = [bound EXCEPT ![v] = u]

Next == \E v \in Vault, u \in UserId : Bind(v, u)

Spec == Init /\ [][Next]_bound
=============================================================================
