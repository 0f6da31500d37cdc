SPECIFICATION Spec
CONSTANTS
    None = None
    p1 = p1
    p2 = p2
    p3 = p3
    p4 = p4
    Pool <- Pools4
    SignerPool <- Pools3
    Gap = 1
    Ahead = 0
    Dust = 1
    GasFee = 2
    Coins = {1}
    Tokens = {0, 1}
    Bnbs = {3, 7}
    Rotation = "calm"
    MaxJolt = 9
    MaxPub = 9
SYMMETRY Symmetry
INVARIANTS
    NoCoinsForgotten
    NoTokensForgotten
PROPERTIES
    CacheSettles
CHECK_DEADLOCK FALSE
