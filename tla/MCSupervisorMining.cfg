SPECIFICATION SupSafety
CONSTANTS
    UnhealthyLimit = 2
    HealthyLimit = 2
    FallbackHold = 2
    ShutdownWait = 1
    MaxClock = 4
INVARIANTS
    MiningAdmitsMiners
CHECK_DEADLOCK FALSE
