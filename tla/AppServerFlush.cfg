SPECIFICATION FairSpec
CONSTANTS
    NumJobs = 4
    Threads = {1}
    Timeouts = {2}
    ServiceTimes = {2, 4}
    MaxGap = 2
    Traces = {FALSE}
    Ties = FALSE
PROPERTIES
    RemovalCompletes
CHECK_DEADLOCK FALSE
