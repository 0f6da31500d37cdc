SPECIFICATION FairSpec
CONSTANTS
    None = None
    p1 = p1
    p2 = p2
    p3 = p3
    Pool <- Pools
    SignerPool <- Pools
    TxId <- Ids2
    PubTx <- TwoPaid
    FeeMin = 2
    TxTimeout = 1
    Word = 16
    ReqCacheSize = 2
    CheckBlocks = 1
    MaxHeight = 1
    Block <- FullBlocks
    MaxHeads = 1
    MaxReorg = 0
PROPERTIES
    GreatestEventuallyIssued
