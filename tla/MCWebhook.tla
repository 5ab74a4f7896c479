----------------------------- MODULE MCWebhook -----------------------------
(***************************************************************************)
(* Overlapping deliveries, for TLC.  Cards and accounts i and j belong to  *)
(* different vaults, and card i not to the owner of account i; i is a user *)
(* as well.                                                                *)
(***************************************************************************)
EXTENDS Webhook

CONSTANTS v, w, i, j

MCOwnerIn ==
    [card    |-> [id \in Id |-> IF id = i THEN v ELSE w],
     account |-> [id \in Id |-> IF id = i THEN w ELSE v],
     user    |-> [id \in Id |-> IF id = i THEN v ELSE None]]
=============================================================================
