SPECIFICATION Spec
CONSTANTS
    Receipts = {r1}
    Callers = {c1}
    Sweeper = Sweeper
    Copies <- MCCopies
    NoReceipt = NoReceipt
    MaxAttempts = 2
    IncludeStuck = FALSE
    TxCap = 2
    FaultCap = 1
PROPERTIES
    VoidIsEnqueued
CHECK_DEADLOCK FALSE
