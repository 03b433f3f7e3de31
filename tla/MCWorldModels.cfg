SPECIFICATION ProcessSpec
CONSTANTS
    Signals = 3
    NaN <- MCNaN
    Enough = 2
    Window = 2
    Pattern = 3
    TurnWindow = 3
    Turns = 0
    FallWindow = 3
    Falls = 1
    CycleWindow = 3
    Periods <- MCPeriods
    DayPeriods <- MCPeriods
    SeasonWindow = 2
    ClusterGap = 30
    Stabilization = 4
    SwitchSteps = 3
    Metrics <- MCMetrics
    Kept = 3
    AnomaliesKept = 1
    Three = 2
    MaxCalibrations = 1
    Tracked <- MCTracked
    r1 = r1
    r2 = r2
    r3 = r3
    Requests <- MCRequests
    Mixes <- MCMixes
    Permits = 2
    Attempts = 2
    Remembered = 2
    InContext = 1
    MaxNotes = 1
    MaxReloads = 1
    Configurations <- MCConfigurations
INVARIANTS
    WorldModelInv
    AdviceInv
PROPERTIES
    StopsWhenAsked
    WorldModelsServe
CHECK_DEADLOCK FALSE
