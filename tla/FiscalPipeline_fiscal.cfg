SPECIFICATION FairSpec
CONSTANTS
    Receipts = {r1}
    Callers = {c1}
    Sweeper = Sweeper
    Copies <- MCCopies
    NoReceipt = NoReceipt
    MaxAttempts = 2
    IncludeStuck = TRUE
    TxCap = 2
    FaultCap = 1
INVARIANTS
    OneDocument
    SuccessIsPrinted
    QueuedIsTracked
    PrintedIsOnRecord
    IInv
PROPERTIES
    FailedIsRetried
    ImplementsLedger
CHECK_DEADLOCK FALSE
