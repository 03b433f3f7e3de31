SPECIFICATION ManagedFairSpec
CONSTANTS
    Modules = {m1, m2, m3}
    NoModule = NoModule
    MaxServers = 3
    InitialServers = 2
    Factors = {0, 50, 100}
    InitialFactor = 50
    Asserts = TRUE
    BootTakesTime = TRUE
    SilentFlush = TRUE
    MaxInProgress = 1
INVARIANTS
    PoolInv
PROPERTIES
    NoJobLost
    ImplementsElasticPool
    ElasticLiveness
