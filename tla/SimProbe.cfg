SPECIFICATION ProbeSpec
CONSTANTS
    NumJobs = 5
    Threads = {1, 2}
    Timeouts = {0, 2}
    ServiceTimes = {1, 2, 4}
    MaxGap = 2
    Traces = {TRUE, FALSE}
    Ties = TRUE
    Window = 3
INVARIANTS
    ProbeInv
PROPERTIES
    StartsInOrder
    UntimedRemovalCompletes
    ImplementsServerLoad
CHECK_DEADLOCK FALSE
