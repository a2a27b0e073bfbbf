SPECIFICATION ConnectionSpec
CONSTANTS
    Components = {"actor", "client", "link", "room", "login"}
    Owners = {p1, p2}
    NoOwner = none
    MaxToken = 3
    MaxSessions = 2
    p1 = p1
    p2 = p2
    Callers = {p1, p2, x}
    AuxCaller = x
    NoCaller = none
    MaxGenerations = 2
    MaxTokens = 1
    MaxCalls = 2
    Requests = {r1}
    Pings = {p1, p2}
    NoId = none
    AlertTimeoutCount = 1
    MaxOutages = 0
    Messages = {m1}
    Participants = {"a"}
    MaxUpdates = 3
    MaxSyncs = 2
    Logins = {"l1", "l2"}
    Flows = {"google", "gateway", "qr"}
    Phones = {"p1"}
    ServerInits <- MCServerInits
    QRAttempts = 2
CONSTRAINT ShortHistory
SYMMETRY ConnectionSymmetry
INVARIANTS
    TokenNamesOneOwner
    ReplacementNeverOverlaps
    WorkersOwnSession
    WaiterOwnsChannel
    ReportedOnce
    SavedLoginIsPaired
PROPERTIES
    LeaseSpec
    QuarantineSticks
CHECK_DEADLOCK FALSE
