SPECIFICATION Spec
CONSTANTS
    p = p
    q = q
    CrmStates <- Starts
    Contacts = {1, 2}
    Peers = {p, q}
    NoPeer = NoPeer
    NoFilter = NoFilter
    Requests = {d1}
    Contents = {x}
    None = None
    Drafts <- OnlyVk
    Labels = {}
    MaxRecipients = 1
    ChangeCap = 0
INVARIANTS
    NeverTripsThePeerIndex
CHECK_DEADLOCK FALSE
