CONSTANTS
    c1 = c1
    a1 = a1
    a2 = a2
    p1 = p1
    p2 = p2
    s1 = s1
    Consumer = {c1}
    Topic = {"t"}
    Broadcast = Broadcast
    MaxEvents = 4
    MaxRows = 0
    AgeLimit = FALSE
    Task = {p1, p2}
    Alert = {a1, a2}
    Owner <- Owners
    Condition <- Conditions
    OneShot = {a1}
    Watchers = {a2}
    Subscriber = {s1}
    QueueSize = 1
    Capacity = 2
    FeedEvents <- Feed
    MaxFeed = 2
    MaxEnabled = 2
    MaxFaults = 1
    None = None
SPECIFICATION Spec
SYMMETRY Symmetry
CHECK_DEADLOCK FALSE
INVARIANTS
    OwedAreWoken
    OneTriggerPerEnabling
    CausesComeFirst
    HoldersNeverWait
PROPERTIES
    StreamsKeepPromise
