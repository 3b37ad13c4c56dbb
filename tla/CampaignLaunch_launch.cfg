SPECIFICATION Spec
CONSTANTS
    p = p
    q = q
    CrmStates <- Starts
    Contacts = {1, 2}
    Peers = {p, q}
    NoPeer = NoPeer
    NoFilter = NoFilter
    Requests = {d1, d2}
    Contents = {x, y}
    None = None
    Drafts <- AllDrafts
    Labels = {"telegram"}
    MaxRecipients = 1
    ChangeCap = 1
SYMMETRY Symmetry
INVARIANTS
    TestGateHolds
    DraftHasNoRows
    OnePeerOneRow
    IInv
PROPERTIES
    ImplementsRoster
    FunnelIsComplete
CHECK_DEADLOCK FALSE
