SPECIFICATION ServicesFairSpec
CONSTANTS
    MaxServers = 4
    InitialServers = 2
    FastCooldown = 2
    SlowCooldown = 1
    TempDimmerTimeout = 2
    PersistenceCount = 2
    QueueSize = 1
    MaxRetries = 1
    MaxActions = 8
    MaxRequests = 1
    Setups <- MCSetups
    NLARequests = {q1, q2}
    NoRequest = NoRequest
    NLASetups <- MCNLASetups
    MaxStarts = 2
    RateLimit = 1
    LLMRetries = 2
    HistoryLength = 2
    Decisions <- MCDecisions
    Measured <- MCMeasured
    MaxReasonings = 3
    MaxReloads = 1
    Subjects = {s1, s2}
    Publishers = {p1, p2}
    Starter = Starter
    Nobody = Nobody
    MaxAttempts = 2
    MaxOutages = 2
INVARIANTS
    ActionInv
    ServicesInv
    OperatorsHold
PROPERTIES
    StepsKeepPromises
    EverythingAnswered
CHECK_DEADLOCK FALSE
