SPECIFICATION Spec
CONSTANTS
    v1 = v1
    v2 = v2
    u1 = u1
    u2 = u2
    u3 = u3
    a1 = a1
    a2 = a2
    c1 = c1
    c2 = c2
    Vault = {v1, v2}
    User = {u1, u2, u3}
    Account = {a1, a2}
    Card = {c1, c2, c3}
    Thing = {t1, t2}
    Slot = {r1}
    None = None
    VaultOf <- MCVaultOf
    UserOf <- MCUserOf
    AccountOf <- MCAccountOf
INVARIANTS
    TypeOK
    ShownIsOwn
    ChangedIsOwn
SYMMETRY Symmetry
