SPECIFICATION Spec
CONSTANTS
    NumChunks = 1
    References <- OneCitation
    Quoted <- AllFound
    Slots = {s1, s2}
    Faults = {}
    MaxFaults = 0
INVARIANT UnreadableNotProcessed
CHECK_DEADLOCK FALSE
