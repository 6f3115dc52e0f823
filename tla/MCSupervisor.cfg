SPECIFICATION SupSpec
CONSTANTS
    UnhealthyLimit = 2
    HealthyLimit = 2
    FallbackHold = 2
    ShutdownWait = 1
    MaxClock = 4
INVARIANTS
    SupTypeOK
    FailClosed
    Hysteresis
PROPERTIES
    ShutdownIsFinal
    ShutdownEnds
    HealthRestoresMining
CHECK_DEADLOCK FALSE
