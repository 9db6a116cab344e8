SPECIFICATION Spec
CONSTANTS
    Clients = {c1, c2}
    Names = {"default", "other", "third"}
    PaletteSize = 2
    MaxAdds = 4
    MaxRestarts = 2
SYMMETRY ClientSymmetry
INVARIANTS
    UniqueNames
    ColorsAreLive
PROPERTIES
    SharesOnlyByRace
\* Requests and restarts are bounded.
CHECK_DEADLOCK FALSE
