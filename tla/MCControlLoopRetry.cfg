SPECIFICATION LoopSpec
CONSTANTS
    Modules = {m1, m2, m3, m4}
    NoModule = NoModule
    MaxServers = 3
    InitialServers = 2
    Factors = {50}
    InitialFactor = 50
    Asserts = TRUE
    BootTakesTime = TRUE
    SilentFlush = FALSE
    MaxInProgress = 1
    Period = 4
    MaxPeriods = 2
    Latencies = {0}
    Timeout = 1
    MaxRetries = 1
    DrainTime = 1
    Prompt = {}
SYMMETRY ModuleSymmetry
INVARIANTS
    ExecutedAtMostOnce
CHECK_DEADLOCK FALSE
