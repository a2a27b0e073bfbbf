SPECIFICATION Spec
CONSTANTS
    Owners = {o1}
    NoOwner = none
    MaxToken = 2
    MaxSessions = 1
PROPERTIES
    AuthCauseRecorded
CHECK_DEADLOCK FALSE
