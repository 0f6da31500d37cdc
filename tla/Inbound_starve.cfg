SPECIFICATION HealthyFairSpec
CONSTANTS
    None = None
    p1 = p1
    p2 = p2
    p3 = p3
    Pool <- Pools
    SignerPool <- Pools
    TxId <- Ids3
    PubTx <- ThreePaid
    FeeMin = 2
    TxTimeout = 1
    Word = 16
    ReqCacheSize = 3
    CheckBlocks = 1
    MaxHeight = 2
    Block <- LateDeposit
    MaxHeads = 1
    MaxReorg = 0
PROPERTIES
    LeastEventuallyIssued
