SPECIFICATION Spec
CONSTANTS
    Lists = {"documents", "logs", "calls", "events"}
    PerPage = 2
    SortKeys = {1, 2}
    MaxFilters = 2
    MaxRows = 4
    NumChunks = 2
    MaxCuts = 2
    MaxEvents = 1
    Runs = {r1, r2}
    Batches = {b1, b2}
    Names = {"n1", "n2"}
    Anchors = {1, 2}
    NameLimits = {1, 2}
    MapLimit = 1
    MaxLocations = 3
SYMMETRY Symmetry
INVARIANTS
    MissedExplained
    RepeatedExplained
    ErrorsExplained
    DetailExplained
    CountsExplained
    UnlocatedExplained
    CoordinatesExplained
    MapAgrees
\* A request that is answered, and runs that are over, leave nothing to do.
CHECK_DEADLOCK FALSE
