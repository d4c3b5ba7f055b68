CONSTANTS
    f1 = f1
    f2 = f2
    i1 = i1
    i2 = i2
    cross = cross
    level = level
    metric = metric
    Feed = {f1, f2}
    Instrument = {i1, i2}
    Leaf = {cross, level, metric}
    Crossing = {cross}
    Analytics = {metric}
    Nested = {metric}
    InstrumentOf <- MCInstrumentOf
    Logic = "any"
    NestedLogic = "all"
    Grouped = TRUE
    MaxTriggers = 2
    MaxFaults = 1
SPECIFICATION Spec
SYMMETRY Symmetry
CONSTRAINT Undisturbed
INVARIANTS
    MemoryMatchesStore
    LeavesRememberObservations
PROPERTIES
    TriggersAreTransitions
