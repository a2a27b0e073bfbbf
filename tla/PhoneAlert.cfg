SPECIFICATION FairLinkSpec
CONSTANTS
    Requests = {}
    Pings = {p1, p2}
    NoId = none
    AlertTimeoutCount = 2
    MaxOutages = 1
PROPERTIES
    AlertIsWithdrawn
CHECK_DEADLOCK FALSE
