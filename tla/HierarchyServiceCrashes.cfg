SPECIFICATION Spec
CONSTANTS
    MaxEdits = 1
    MaxStores = 3
    MaxCrashes = 1
    SendHighWater = 1
    HighWater = 1
    ServerEdits = TRUE
CHECK_DEADLOCK FALSE
INVARIANTS
    TypeOK
    NoSilentStaleness
    StoreIsDurable
PROPERTIES
    RequestsAnswered
    ServerCatchesUp
