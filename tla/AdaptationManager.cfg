SPECIFICATION FairSpec
CONSTANTS
    Levels = 5
    MaxServers = 6
    InitialServers = 3
    InitialDimmer = 900000
    RequireSpare = TRUE
    Delays = {TRUE, FALSE}
INVARIANTS
    PeriodInv
PROPERTIES
    DecidesOnThisPeriod
    DecisionCarriedOut
    EscalatesFully
