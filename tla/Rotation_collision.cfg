SPECIFICATION Spec
CONSTANTS
    None = None
    p1 = p1
    p2 = p2
    p3 = p3
    p4 = p4
    Pool <- Pools4
    SignerPool <- Pools3
    Gap = 6
    Ahead = 5
    Dust = 1
    GasFee = 2
    Coins = {1}
    Tokens = {1}
    Bnbs = {7}
    Rotation = "polled"
    MaxJolt = 12
    MaxPub = 1
SYMMETRY Symmetry
INVARIANTS
    NoCoinsForgotten
CHECK_DEADLOCK FALSE
