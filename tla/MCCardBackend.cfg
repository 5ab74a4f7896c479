SPECIFICATION BackendSpec
CONSTANTS
    v = v
    w = w
    u1 = u1
    u2 = u2
    a1 = a1
    c1 = c1
    k1 = k1
    k2 = k2
    r1 = r1
    e1 = e1
    d1 = d1
    Vault = {v, w}
    UserId = {u1, u2}
    NoUser = NoUser
    Account = {a1}
    Card = {c1}
    Key = {k1, k2}
    None = None
    Slot = {r1}
    Empty = Empty
    OwnerIn <- MCOwnerIn
    Event = {e1}
    Tolerance = 0
    MaxSkew = 0
    Delivery = {d1}
INVARIANTS
    NotifiedIsReapOwner
PROPERTY
    RowsAsForetold
SYMMETRY Symmetry
CONSTRAINT WithClient
