SPECIFICATION FairSpec
CONSTANTS
    Channels <- MCChannels
    QueueSize = 2
    BatchSize = 2
    Setups <- MCSetups
    ReloadsAtOnce = 2
    MaxRetries = 2
    FailureThreshold = 2
    RecoveryTicks = 4
    MaxToolCalls = 2
    CooldownTicks = 2
    MaxCallsPerReply = 2
INVARIANTS
    ReasonerInv
    ExchangesInv
PROPERTIES
    QueueEmpties
    FailingTwinIsSpared
    ReachedAgain
    ReasoningEnds
CHECK_DEADLOCK FALSE
