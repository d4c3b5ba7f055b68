CONSTANTS
    a1 = a1
    a2 = a2
    k1 = k1
    k2 = k2
    q1 = q1
    c1 = c1
    c2 = c2
    Alert = {a1, a2}
    Key = {k1, k2, q1}
    Chain = {k1, k2}
    DependsOn <- MCDependsOn
    Listed = {k1, k2}
    Answer = {"nothing", "error"}
    Caller = {c1, c2}
    MaxBreakages = 1
SPECIFICATION ServiceFairSpec
INVARIANTS
    EnabledAreServed
PROPERTIES
    NoChainStarves
