SPECIFICATION FairSpec
CONSTANTS
    Target = 3
    ShortText = 2
    MaxPages = 3
    MaxPageLength = 2
INVARIANTS
    OffsetsFindPages
    ChunksPartition
    ExcessBounded
PROPERTIES
    ChunkingEnds
\* A file that is chunked or refused is left alone.
CHECK_DEADLOCK FALSE
