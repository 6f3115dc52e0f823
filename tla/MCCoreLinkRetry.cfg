SPECIFICATION LinkSafety
CONSTANTS
    NumBundles = 1
    MaxTime = 2
    MaxCaptures = 2
    RetireBatch = 1
    MaxRetirements = 2
    MaxSessions = 1
    MaxSeq = 2
    CoreReceiptTime = TRUE
    MaxSkew = 0
    SpoolCapacity = 1
    DrainBatch = 1
    OracleAnswers = {TRUE}
    FaultKinds = {"operator", "core", "link", "timeout"}
    MaxFaults = 2
    w1 = w1
    w2 = w2
    w3 = w3
    w4 = w4
    NoWork = NoWork
    Works = {w1, w2}
    WorkJob <- MCWorkJob
    ShareKey <- MCShareKey
    Bundle <- MCOneBundle
SYMMETRY MCSymmetry
INVARIANTS
    SpoolAgreesWithCore
    CapacityIsExact
PROPERTIES
    DisposedOnce
CHECK_DEADLOCK FALSE
