SPECIFICATION Spec
CONSTANTS
    n1 = n1
    n2 = n2
    n3 = n3
    p1 = p1
    r1 = r1
    r2 = r2
    Node <- Nodes
    Req <- Requests
    Pool <- OnePool
    None = None
    Quorum <- TwoOfThree
    Flaky <- OneFlaky
    Refuses = FALSE
    MaxSeq = 2
SYMMETRY SameNodesAndRequests
INVARIANTS
    TypeOK
    LateMintsDead
PROPERTIES
    IssuesOnce
