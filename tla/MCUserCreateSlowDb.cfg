SPECIFICATION FairSpec
CONSTANTS
    v1 = v1
    v2 = v2
    a1 = a1
    a2 = a2
    b1 = b1
    Vault = {v1}
    Req = {a1, a2}
    VaultOf <- MCVaultOf
    UserId = {u1, u2, u3}
    u1 = u1
    u2 = u2
    u3 = u3
    NoUser = NoUser
    NoVault = NoVault
    NoClaim = NoClaim
    StaleAfter = 2
    ReapTimeout = 1
    ReleaseTimeout = 1
    DbBound = 3
PROPERTIES
    ImplementsVaultUser
    NeverLockedOut
