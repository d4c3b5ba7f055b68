CONSTANTS
    MaxItems = 5
    Window = 2
    Rejected = {4}
    SeenMax = 2
    DedupMax = 3
    Upstream <- AllButNewestSince
    MaxMishaps = 2
SPECIFICATION PollerFairSpec
INVARIANTS
    OneDuplicatePerFault
    SeenWasPublished
PROPERTIES
    Ingested
