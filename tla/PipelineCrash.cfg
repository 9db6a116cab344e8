SPECIFICATION FairSpec
CONSTANTS
    NumChunks = 2
    References <- Citations
    Quoted <- SecondMissing
    Slots = {s1, s2}
    Faults = {"crash", "temporal"}
    MaxFaults = 2
INVARIANTS
    CrashMakesNoDuplicates
    CrashLosesNoChunk
    CrashResolvesQuotations
    StatusAgrees
PROPERTIES
    EventsStable
    PollingSettles
\* The system stops once the execution has ended and the document is deleted.
CHECK_DEADLOCK FALSE
