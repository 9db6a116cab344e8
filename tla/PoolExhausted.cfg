SPECIFICATION Spec
CONSTANTS
    Attempts = {a1, a2, a3}
    Nested = {a1, a2, a3}
    PoolSize = 2
    MaxFailures = 0
INVARIANT LogIsSafe
