CONSTANTS
    k1 = k1
    k2 = k2
    c1 = c1
    c2 = c2
    Key = {k1, k2}
    Configured = {k1}
    Caller = {c1, c2}
    Run = Run
    l1 = l1
    Leaver = {l1}
    MaxSockets = 2
    MaxCalls = 2
    MaxFrames = 1
    MaxFaults = 3
SPECIFICATION FairSpec
CHECK_DEADLOCK FALSE
INVARIANTS
    BrokerFollowsDesired
    NoSocketLeaks
PROPERTIES
    StopEndsRun
