----------------------------- MODULE MCShipment -----------------------------
(***************************************************************************)
(* Two vaults, two requests at a time, for TLC.                            *)
(***************************************************************************)
EXTENDS Shipment, TLC

\* Vaults, cards, shipments and slots are each interchangeable.
Symmetry ==
    Permutations(Vault) \cup Permutations(Card)
        \cup Permutations(Shipment) \cup Permutations(Slot)
=============================================================================
