SPECIFICATION Spec
CONSTANTS
    MaxEdits = 1
    MaxStores = 1
    MaxCrashes = 0
    SendHighWater = 1
    HighWater = 1
    ServerEdits = FALSE
PROPERTY
    ServerGetsNewestState
