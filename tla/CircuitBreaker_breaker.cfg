SPECIFICATION FairSpec
CONSTANTS
    Processes = {p1, p2}
    Calls = {fetch, peek}
    Peekers = {peek}
    Threshold = 2
INVARIANTS TrippedIffCounted
PROPERTIES OpenIsProbed
