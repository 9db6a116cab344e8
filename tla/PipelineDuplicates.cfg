SPECIFICATION Spec
CONSTANTS
    NumChunks = 1
    References <- OneCitation
    Quoted <- AllFound
    Slots = {s1, s2}
    Faults = {"late"}
    MaxFaults = 1
INVARIANT NoDuplicates
CHECK_DEADLOCK FALSE
