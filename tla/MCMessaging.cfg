SPECIFICATION MessagingSpec
CONSTANTS
    Components = {"ingress", "backfill", "lane", "submission", "media", "image", "book"}
    o1 = o1
    o2 = o2
    Owners = {o1, o2}
    NoOwner = none
    MaxToken = 2
    r1 = r1
    r2 = r2
    r3 = r3
    m1 = m1
    m2 = m2
    a1 = a1
    a2 = a2
    Responses = {r1, r2, r3}
    Messages = {m1, m2}
    Outbound = {m2}
    None = none
    Envelopes <- MCEnvelopes
    QueueLimit = 1
    BatchLimit = 1
    MaxPoisoned = 1
    MaxRejected = 1
    MaxDeliveries = 3
    Conversations = {c1}
    Cursors = {k1, k2}
    NoCursor = none
    Listing = listing
    MaxAdvances = 2
    HistoryLimit = 2
    MaxPages = 3
    LaneMessages = {x1, x2, x3}
    Recipients = {n1, n2}
    Threads = {"c1"}
    Resolve <- MCResolve
    NoKey = none
    Callers = {o1, o2}
    IdemKeys = {"k1", "k2"}
    SendInputs <- MCInputs
    Offsets = {"o1"}
    MessageIds = {1, 2}
    MessagesPerPage = 1
    MaxRetries = 2
    Unset = none
    Fetched = {f1}
    Uploaded = {u1}
    FetchWorkers = {o1, o2}
    NoFetcher = none
    Bodies = {b1, b2}
    MaxFetchAttempts = 2
    MaxMediaFaults = 2
    ImageFiles <- MCFiles
    MaxPixels = 6
    ApiCalls = {o1, o2, r3}
    PhoneNumbers = {"p1", "p2"}
    ContactIdentities = {"s1", "s2"}
    Slugs = {"g1"}
    Aliases = {"a"}
    Listings <- MCListings
    ContactIds = {1, 2, 3}
    PageLimit = 1
    Nothing = none
SYMMETRY OwnerSymmetry
INVARIANTS
    DurableBeforeACK
    AnnouncedOnce
    ConversationSerial
    SubmittedOnce
    AnnouncedMediaIsIntact
    InspectionIsExact
    AnswersHold
PROPERTIES
    ListingMovesAfterChildren
CHECK_DEADLOCK FALSE
