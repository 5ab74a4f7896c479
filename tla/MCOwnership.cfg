SPECIFICATION FairSpec
CONSTANTS
    Vault = {v1, v2}
    v1 = v1
    v2 = v2
    UserId = {u1, u2}
    u1 = u1
    u2 = u2
    Account = {a1,a2}
    a2 = a2
    a1 = a1
    Card = {c1}
    c1 = c1
    Key = {k1, k2}
    k1 = k1
    k2 = k2
    Slot = {r1, r2}
    r1 = r1
    r2 = r2
    NoUser = NoUser
    None = None
INVARIANTS
    TypeOK
    RowsAreReal
    GrantedIsOwned
    OnlyOwnerActs
    OneResourcePerKey
PROPERTY CardIsOwnedInTheEnd
