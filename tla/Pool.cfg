SPECIFICATION FairSpec
CONSTANTS
    Attempts = {a1, a2, a3}
    Nested = {a1}
    PoolSize = 2
    MaxFailures = 2
INVARIANTS
    OnePool
PROPERTIES
    EveryAttemptEnds
