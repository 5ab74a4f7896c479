SPECIFICATION Spec
CONSTANTS
    Vault = {v1, v2}
    Card = {c1, c2}
    Shipment = {s1, s2}
    Slot = {r1, r2}
    None = None
INVARIANTS
    TypeOK
    StaysWithVault
    SeenIsOwned
SYMMETRY Symmetry
