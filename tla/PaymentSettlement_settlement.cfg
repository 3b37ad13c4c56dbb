SPECIFICATION FairSpec
CONSTANTS
    Payments = {p1}
    Settlers = {s1, s2, s3}
    Sweepers = {w1, w2}
    NoPayment = NoPayment
    PageSize = 1
    DeathCap = 3
INVARIANTS
    OneSettlement
    OneFiscalRequest
    SettledHasReceipt
    NothingForgotten
    IInv
PROPERTIES
    VerdictIsFinal
    NewsIsCurrent
    ImplementsSettlement
    OrphanIsReported
CHECK_DEADLOCK FALSE
