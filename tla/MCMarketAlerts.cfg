CONSTANTS
    ltp = ltp
    t1 = t1
    t2 = t2
    Task = {t1, t2}
    Field = {ltp}
    Value = {0, 2}
    MaxRules = 3
    FieldOf <- SameField
    Operator <- Operators
    Threshold <- Thresholds
    ExchangeTs = {1, 2}
    FeedPatches <- Patches
    MaxPatches = 3
    MaxTools = 2
    MaxFaults = 1
    None = None
    Absent = Absent
SPECIFICATION Spec
CHECK_DEADLOCK FALSE
SYMMETRY Symmetry
INVARIANTS
    TriggeredIsKnown
    NoMissedLevel
PROPERTY ExchangeTimeMonotone
