SPECIFICATION FairSpec
CONSTANTS
    Documents = {d1, d2}
    MaxRetries = 3
INVARIANTS
    AcceptedIsReadable
    OrphansExplained
    RejectedExplained
    PendingExplained
PROPERTIES
    KeepsThePromise
    RequestsEnd
\* Requests that are over leave the system at rest.
CHECK_DEADLOCK FALSE
