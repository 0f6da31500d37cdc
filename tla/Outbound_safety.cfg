SPECIFICATION Spec
CONSTANTS
    None = None
    n1 = n1
    n2 = n2
    n3 = n3
    p1 = p1
    p2 = p2
    Pool <- FirstPools
    Node <- Nodes
    Deposit <- OneDeposit
    Quorum <- TwoOfThree
    Created <- TwoPools
    FeeMin = 1
    Cap = 1
    Faults <- FaultKinds
    MaxNonce = 2
    Spare = 1
SYMMETRY SameNodes
INVARIANTS
    TypeOK
    OneLiveUndoubted
PROPERTIES
    PaidUnlessDoubted
CHECK_DEADLOCK FALSE
