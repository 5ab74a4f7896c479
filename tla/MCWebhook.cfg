SPECIFICATION FairSpec
CONSTANTS
    v = v
    w = w
    i = i
    j = j
    Vault = {v, w}
    Id = {i, j}
    Empty = Empty
    OwnerIn <- MCOwnerIn
    Event = {e1}
    e1 = e1
    Slot = {d1, d2}
    d1 = d1
    d2 = d2
    None = None
    Tolerance = 1
    MaxSkew = 2
INVARIANTS
    TypeOK
    AckedIsRecorded
    NoDoubleNotify
    OwnerIsNotified
    MissedOnlyIfExcused
PROPERTY EmittedIsRecorded
