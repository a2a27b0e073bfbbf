SPECIFICATION FairSpec
CONSTANTS
    o1 = o1
    o2 = o2
    none = none
    Owners = {o1, o2}
    NoOwner = none
    MaxToken = 3
    Messages = {1}
    Lanes = {"l"}
    LaneOf <- OneLane
    NoMessage = 0
    Evidence = {"", "sent", "delivered", "read", "failed"}
    MaxClaims = 2
    MaxFaults = 1
PROPERTIES
    TimedOutSendResolves
CHECK_DEADLOCK FALSE
