SPECIFICATION Spec
CONSTANTS
    v1 = v1
    v2 = v2
    Validator <- Validators
    Me = v1
    Faults = {"gap", "height", "keygen", "gas", "broadcast"}
    MaxHeight = 5
    MaxUpdates = 3
INVARIANTS
    TypeOK
    CacheSorted
    ValidatorsTracked
PROPERTIES
    ScheduledAhead
CHECK_DEADLOCK FALSE
