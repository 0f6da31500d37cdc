SPECIFICATION Spec
CONSTANTS
    None = None
    p1 = p1
    p2 = p2
    p3 = p3
    p4 = p4
    Pool <- Pools4
    SignerPool <- Pools3
    Gap = 1
    Ahead = 0
    Dust = 1
    GasFee = 2
    Coins = {1}
    Tokens = {1}
    Bnbs = {7}
    Rotation = "any"
    MaxJolt = 6
    MaxPub = 6
SYMMETRY Symmetry
INVARIANTS
    TypeOK
    MovesForward
    NewestNotQueued
CHECK_DEADLOCK FALSE
