SPECIFICATION ShutdownSpec
CONSTANTS
    Components = {"actor", "supervisor", "client"}
    o1 = o1
    Owners = {o1}
    NoOwner = none
    MaxToken = 3
    MaxSessions = 3
    ConnectionCount = 1
    ConnectionLimit = 1
    FatalErrorThreshold = 2
    MaxErrors = 1
    Callers = {a, x}
    AuxCaller = x
    NoCaller = none
    MaxGenerations = 2
    MaxTokens = 1
    MaxCalls = 2
INVARIANTS
    FlushedIsNewest
PROPERTIES
    SessionNeverRegresses
    CancelledRunEnds
    SharedFailureStopsProcess
    ResetReturns
CHECK_DEADLOCK FALSE
