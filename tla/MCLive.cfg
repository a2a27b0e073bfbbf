SPECIFICATION LiveSpec
CONSTANTS
    Components = {"ingress", "webhook", "kafka", "pairing"}
    Owners = {o1}
    NoOwner = none
    MaxToken = 2
    r1 = r1
    r2 = r2
    m1 = m1
    a1 = a1
    a2 = a2
    Responses = {r1, r2}
    Messages = {m1}
    Outbound = {}
    None = none
    Envelopes <- MCEnvelopes
    QueueLimit = 1
    BatchLimit = 1
    MaxPoisoned = 1
    MaxRejected = 1
    MaxDeliveries = 3
    Endpoints = {e1}
    Events = {v1}
    Workers = {w1, w2}
    NoWorker = none
    MaxEndpoints = 2
    ClaimLimit = 1
    MaxAttempts = 2
    MaxLosses = 1
    KafkaEvents = {v1}
    Processes = {g1}
    NoProcess = none
    Partitions = {"p1", "p2"}
    Log <- MCLog
    NoBody = none
    MaxFailures = 1
    Attempts = {t1, t2}
    Gateways = {g1, g2}
    NoAttempt = none
    MaxFaults = 1
PROPERTIES
    PendingACKDrains
    DeliverySettles
    CommandsSettle
    AttemptEnds
CHECK_DEADLOCK FALSE
