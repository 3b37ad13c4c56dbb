SPECIFICATION Spec
CONSTANTS
    Payments = {p1}
    Settlers = {s1, s2, s3}
    Sweepers = {w1, w2}
    NoPayment = NoPayment
    PageSize = 1
    DeathCap = 3
INVARIANTS
    OrphansAreSeen
CHECK_DEADLOCK FALSE
