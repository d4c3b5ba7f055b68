CONSTANTS
    c1 = c1
    c2 = c2
    Consumer = {c1, c2}
    Client = {c1}
    Topic = {"t"}
    Broadcast = Broadcast
    MaxEvents = 2
    MaxRows = 1
    AgeLimit = TRUE
    PageLimit = 1
    MaxLost = 1
SPECIFICATION FairSpec
INVARIANTS
    CheckpointSafe
    PagingComplete
PROPERTIES
    CheckpointMonotone
    KeepsPromise
    EventuallySettled
