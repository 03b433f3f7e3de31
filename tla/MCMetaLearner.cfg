SPECIFICATION TunedFairSpec
CONSTANTS
    MetricNames = {"servers", "response_time", "mode"}
    DirectEntries <- MCDirectEntries
    DirectIds = {"d1", "d2", "d3", "d4", "d5"}
    BufferSize = 2
    Derived = {"response_time"}
    CallerIds = {"d1"}
    Textual = {"mode"}
    QueueSize = 2
    BatchSize = 2
    Setups <- MCSetups
    MaxCycles = 5
    FixedConstraints = {"max_servers"}
    AllowedParts = {"observed_learnings", "constraints"}
    Replies <- MCReplies
    InitialThresholds <- MCThresholds
    MaxChangePercent = 10
    MaxLearningCycles = 2
INVARIANTS
    TunedInv
PROPERTIES
    WindowsInOrder
    EventsArrive
    UpdatesAreSmall
CHECK_DEADLOCK FALSE
