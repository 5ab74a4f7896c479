SPECIFICATION Spec
CONSTANTS
    N = 5
    Scalar <- MCScalar
    Zero = 0
    Plus <- MCPlus
    Point <- MCScalar
    Infinity = 0
    PointPlus <- MCPlus
    Times <- MCTimes
    Chain = {0, 1}
    Index = {0, 1, 2}
    Hardened = {2}
    Paths <- MCPaths
    Macs <- MCMacs
    Nonce = {0, 1}
    None = None
INVARIANTS
    DerivationsMatch
    AcceptsTheKey
CHECK_DEADLOCK FALSE
