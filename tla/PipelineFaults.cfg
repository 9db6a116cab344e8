SPECIFICATION Spec
CONSTANTS
    NumChunks = 2
    References <- OneCitation
    Quoted <- AllFound
    Slots = {s1, s2}
    Faults = {"crash", "late", "db", "temporal"}
    MaxFaults = 2
SYMMETRY SlotSymmetry
\* The system stops once the execution has ended and the document is deleted.
CHECK_DEADLOCK FALSE
INVARIANTS
    NoOrphans
    NoLostEvents
    OnlyAnswered
    ErrorColumn
PROPERTIES
    PublishesInOrder
