SPECIFICATION FairSpec
CONSTANTS
    Slot = {r1, r2}
    r1 = r1
    r2 = r2
    Conns = 1
    Window = 14
    Grace = 1
    ReapTimeout = 1
    SendTimeout = 1
    StoreBound = 1
INVARIANTS
    TypeOK
    PoolDiscipline
    NoRowLostToShutdown
    InFlightCallsFinish
PROPERTIES
    RequestsEnd
    StopsWhenTold
