SPECIFICATION FairSpec
CONSTANTS
    None = None
    n1 = n1
    n2 = n2
    n3 = n3
    p1 = p1
    p2 = p2
    Pool <- FirstPools
    Node <- OneNode
    Deposit <- TwoDeposits
    Quorum <- Alone
    Created <- TwoPools
    FeeMin = 1
    Cap = 2
    Faults <- FaultKinds
    MaxNonce = 3
    Spare = 1
PROPERTIES
    EventuallyPaid
CHECK_DEADLOCK FALSE
