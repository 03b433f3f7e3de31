SPECIFICATION FairSpec
CONSTANTS
    Levels = 2
    MaxServers = 3
    RequireSpare = TRUE
    InitialServers = 2
    DimmerRepresentatives <- MCDimmerRepresentatives
    Setups <- MCSetups
    Window = 2
    ActionWindow = 1
    MaxPeriods = 4
    PeriodTicks = 2
    CallTicks = 1
INVARIANTS
    DecisionInv
    PromptsHold
PROPERTIES
    DecisionEnds
