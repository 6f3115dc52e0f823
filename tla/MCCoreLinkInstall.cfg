SPECIFICATION LinkSafety
CONSTANTS
    NumBundles = 2
    MaxTime = 2
    MaxCaptures = 3
    RetireBatch = 1
    MaxRetirements = 2
    MaxSessions = 1
    MaxSeq = 3
    CoreReceiptTime = TRUE
    MaxSkew = 0
    SpoolCapacity = 1
    DrainBatch = 1
    OracleAnswers = {TRUE}
    FaultKinds = {"operator", "core", "link", "timeout"}
    MaxFaults = 0
    w1 = w1
    w2 = w2
    w3 = w3
    w4 = w4
    NoWork = NoWork
    Works = {w1}
    WorkJob <- MCWorkJob
    ShareKey <- MCShareKey
    Bundle <- MCTightBundles
INVARIANTS
    ReplacementInstallable
CHECK_DEADLOCK FALSE
