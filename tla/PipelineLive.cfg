SPECIFICATION FairSpec
CONSTANTS
    NumChunks = 1
    References <- OneCitation
    Quoted <- AllFound
    Slots = {s1, s2}
    Faults = {"crash", "late", "db", "temporal"}
    MaxFaults = 1
PROPERTIES
    EventuallyEnds
    EventuallyQuiet
CHECK_DEADLOCK FALSE
