SPECIFICATION CoSpec
CONSTANTS
    NumBundles = 2
    MaxTime = 2
    MaxSeq = 2
    CoreReceiptTime = FALSE
    MaxSkew = 1
    w1 = w1
    w2 = w2
    w3 = w3
    WorkJob <- MCWorkJob
    NoWork = NoWork
    Works <- MCWorks
    ShareKey <- MCShareKey
    Bundle <- MCBundle
INVARIANTS
    CoTypeOK
    GapFreeReceipts
    CreditOncePerWork
    DrainIsBoundary
    OneActiveAssignment
    HandoverIsCertified
PROPERTIES
    RecordsAreTerminal
CHECK_DEADLOCK FALSE
