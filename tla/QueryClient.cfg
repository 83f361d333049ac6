SPECIFICATION Spec
CONSTANTS
    Retries = {0, 1, 3}
    ClientEnv = "1"
    DaemonEnv = "unset"
    Modes = {"server", "statemanager", "other"}
    MaxCalls = 3
    MaxCrashes = 1
    MaxSends = 5
INVARIANTS
    TypeOK
    AtMostOnce
    ReplyIsOwn
    SendsAreBounded
    BatchesInOrder
PROPERTY
    QueryEnds
CHECK_DEADLOCK FALSE
