CONSTANTS
    v1 = v1
    n1 = n1
    n2 = n2
    i1 = i1
    r1 = r1
    r2 = r2
    h1 = h1
    h2 = h2
    s1 = s1
    s2 = s2
    fo = fo
    cm = cm
    FirstVersions = {0, 1, 2, 3, 13}
    Value = {v1}
    Plain = Plain
    Environment = Environment
    Nothing = Nothing
    Handler = {h1, h2}
    Name = {n1, n2}
    Instrument = {i1}
    Token <- MCToken
    Request = {r1, r2}
    FirstLists <- MCFirstLists
    FirstItems <- MCFirstItems
    Segment = {fo, cm}
    Whole = Whole
    Sync = {s1, s2}
    MaxCalls = 3
    MigratedCalls = 2
    MaxFaults = 1
SPECIFICATION FairSpec
CHECK_DEADLOCK FALSE
INVARIANTS
    SchemaComplete
    SavedWins
    SingleExchange
    StableReferenceKeeps
    CatalogIsWhole
PROPERTIES
    BootCompletes
    RotationOrphansNothing
