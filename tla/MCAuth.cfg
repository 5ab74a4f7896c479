SPECIFICATION Spec
CONSTANTS
    Vault = {v1}
    v1 = v1
    c = c
    d = d
    C1 = C1
    C2 = C2
    D1 = D1
    ChainCode = {c, d}
    Spelling = {C1, C2, D1}
    Normal <- MCNormal
    Auther = {a1, a2}
    a1 = a1
    a2 = a2
    Caller = {q1}
    q1 = q1
    Token = {t1, t2}
    t1 = t1
    t2 = t2
    None = None
    MaxNonce = 1
    TokenLife = 1
INVARIANTS
    TypeOK
    OneTokenPerNonce
    OneChainCodePerVault
    AdmittedWasLive
SYMMETRY Symmetry
