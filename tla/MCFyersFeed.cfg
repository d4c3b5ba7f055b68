CONSTANTS
    k1 = k1
    k2 = k2
    c1 = c1
    l1 = l1
    Key = {k1, k2}
    Configured = {k1}
    Index = {k2}
    Leaver = {l1}
    Caller = {c1}
    Nobody = Nobody
    Nothing = Nothing
    Refused <- RefusedTick
    MaxStarts = 2
    MaxCalls = 2
    MaxTicks = 1
    MaxFaults = 1
SPECIFICATION FyersFairSpec
CHECK_DEADLOCK FALSE
INVARIANTS
    QuotesAreTheirOwn
    CaughtUp
PROPERTIES
    SessionsSubscribe
