SPECIFICATION GwSpec
CONSTANTS
    NumBundles = 3
    MaxTime = 3
    MaxCaptures = 2
    RetireBatch = 1
    MaxRetirements = 2
    MaxSessions = 1
    w1 = w1
    w2 = w2
    w3 = w3
    Works <- MCWorks
    WorkJob <- MCWorkJob
    Bundle <- MCBundle
SYMMETRY MCSymmetry
INVARIANTS
    GwTypeOK
    Recoverable
    QueueMatchesRecords
    CreditFollowsCutoff
PROPERTIES
    CapturedAtMostOnce
CHECK_DEADLOCK FALSE
