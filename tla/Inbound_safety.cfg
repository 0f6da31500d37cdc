SPECIFICATION Spec
CONSTANTS
    None = None
    p1 = p1
    p2 = p2
    p3 = p3
    Pool <- Pools
    SignerPool <- FirstPool
    TxId <- Ids2
    PubTx <- TwoDeposits
    FeeMin = 2
    TxTimeout = 1
    Word = 16
    ReqCacheSize = 1
    CheckBlocks = 0
    MaxHeight = 3
    Block <- SmallBlocks
    MaxHeads = 1
    MaxReorg = 1
INVARIANTS
    TypeOK
    NeverBothPending
    PoolsKnown
    OnlyPaidDeposits
    SingleCopy
PROPERTIES
    NeverLost
    PendingKept
CHECK_DEADLOCK FALSE
