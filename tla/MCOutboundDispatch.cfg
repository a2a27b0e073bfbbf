SPECIFICATION Spec
CONSTANTS
    o1 = o1
    o2 = o2
    none = none
    Owners = {o1, o2}
    NoOwner = none
    MaxToken = 3
    Messages = {1, 2}
    Lanes = {"l"}
    LaneOf <- OneLane
    NoMessage = 0
    Evidence = {"", "sent", "read", "failed"}
    MaxClaims = 3
    MaxFaults = 2
SYMMETRY OwnerSymmetry
INVARIANTS
    TypeOK
    AtMostOneSend
    WireIsFinal
    LaneSerial
    StateIsDerived
CHECK_DEADLOCK FALSE
