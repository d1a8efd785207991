SPECIFICATION FairSpec
CONSTANTS
    Producer = {w1}
    Fault = {"ok", "early", "late"}
    MaxBlocks = 4
    SharedPrefix = 1
    DefaultMaxSize = 8
    NumBobservers = 2
    StartVoting = 9
    IrreversiblePercent = 75
    MaxUndoHistory = 8
    OutOfOrder = FALSE
    MaxCrashes = 1
INVARIANTS
    UndoFollowsChain
    StateIsReplay
PROPERTIES
    PushUnwinds
    CallsReturn
    HeadStaysInForkDb
