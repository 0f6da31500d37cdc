SPECIFICATION FairSpec
CONSTANTS
    Failing = {"passcode", "tss", "bridge", "keyring", "import", "validators", "pubchain", "subscribe", "pubsub"}
INVARIANTS
    TypeOK
    GracefulMeansClosed
PROPERTIES
    InterruptQuits
CHECK_DEADLOCK FALSE
