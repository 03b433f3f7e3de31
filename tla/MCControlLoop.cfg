SPECIFICATION LoopFairSpec
CONSTANTS
    Modules = {m1, m2}
    NoModule = NoModule
    MaxServers = 2
    InitialServers = 1
    Factors = {50}
    InitialFactor = 50
    Asserts = TRUE
    BootTakesTime = TRUE
    SilentFlush = FALSE
    MaxInProgress = 1
    Period = 7
    MaxPeriods = 3
    Latencies = {0, 1, 8}
    Timeout = 1
    MaxRetries = 1
    DrainTime = 1
    Prompt = {"add_server", "remove_server", "set_dimmer"}
INVARIANTS
    LoopInv
PROPERTIES
    KeepsDiscipline
    SentOnFreshState
    SensesInItsPeriod
    LoopEnds
CHECK_DEADLOCK FALSE
