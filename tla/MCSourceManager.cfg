CONSTANTS
    h1 = h1
    h2 = h2
    Call = {h1, h2}
    MaxEvents = 4
SPECIFICATION FairSpec
INVARIANTS
    NoOrphan
    AnswersAfterCleanup
PROPERTIES
    CallsReturn
    ShutdownEndsTasks
