SPECIFICATION Spec
CONSTANTS
    Retries = {1, 2}
    ClientEnv = "unset"
    DaemonEnv = "unset"
    Modes = {"server"}
    MaxCalls = 1
    MaxCrashes = 0
    MaxSends = 4
INVARIANT
    RetriesAsDocumented
CHECK_DEADLOCK FALSE
