SPECIFICATION LoopSpec
CONSTANTS
    Modules = {m1, m2, m3, m4}
    NoModule = NoModule
    MaxServers = 3
    InitialServers = 2
    Factors = {50}
    InitialFactor = 50
    Asserts = TRUE
    BootTakesTime = TRUE
    SilentFlush = FALSE
    MaxInProgress = 1
    Period = 4
    MaxPeriods = 4
    Latencies = {0, 3}
    Timeout = 1
    MaxRetries = 1
    DrainTime = 2
    Prompt = {"scalars", "utilizations", "add_server", "remove_server", "set_dimmer"}
SYMMETRY ModuleSymmetry
PROPERTIES
    LegalIsAccepted
CHECK_DEADLOCK FALSE
