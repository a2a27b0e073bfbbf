SPECIFICATION BackfillSpec
CONSTANTS
    Owners = {o1}
    NoOwner = none
    MaxToken = 1
    Conversations = {c1}
    Cursors = {k1, k2, k3}
    NoCursor = none
    Listing = listing
    MaxAdvances = 4
    HistoryLimit = 2
    MaxPages = 5
INVARIANTS
    ScanIsBounded
CHECK_DEADLOCK FALSE
