SPECIFICATION PlatformSpec
CONSTANTS
    Components = {"status", "tenant", "webhook", "registry", "kafka", "pairing", "supervisor", "migrations"}
    g1 = g1
    g2 = g2
    MaxHistory = 5
    TenantConnections = {g1, g2}
    Quotas = {1, 2}
    MaxFences = 2
    Endpoints = {e1, e2}
    Events = {v1}
    Workers = {g1, g2}
    NoWorker = none
    MaxEndpoints = 2
    ClaimLimit = 1
    MaxAttempts = 2
    MaxLosses = 1
    RegistryCalls = {g1, g2}
    EndpointIds = {1, 2}
    MaxSecrets = 3
    EndpointQuota = 1
    EndpointsPerPage = 1
    MaxLostAnswers = 1
    KafkaEvents = {}
    Processes = {g1, g2}
    NoProcess = none
    Partitions = {"p1", "p2"}
    Log <- MCLog
    NoBody = none
    MaxFailures = 2
    Attempts = {t1, t2}
    Gateways = {g1, g2}
    NoAttempt = none
    MaxFaults = 2
    ConnectionCount = 2
    ConnectionLimit = 1
    FatalErrorThreshold = 1
    MaxErrors = 1
    Binaries = {"r1", "r2", "r3"}
    Catalog <- MCCatalog
    Leaves <- MCLeaves
    Probes <- MCProbes
    Text <- MCText
    Shipped = {"d2"}
    Legacy <- MCLegacy
    MaxMigrationFaults = 2
SYMMETRY PlatformSymmetry
INVARIANTS
    DerivesReference
    SuspensionKeepsState
    NoEventLost
    SignedWithKeptSecret
    CommittedIsSettled
    
    NoSilentLoopDeath
    LedgerTellsSchema
CHECK_DEADLOCK FALSE
