SPECIFICATION FairSpec
CONSTANTS
    Processes = {m1, m2, scheduler}
    Monoliths = {m1, m2}
    Nobody = nobody
    Stray = stray
    TryCap = 2
    FaultCap = 4
INVARIANTS SchedulersRunOnce
PROPERTIES LeadershipPassesOn OrphanStepsDown
CHECK_DEADLOCK FALSE
