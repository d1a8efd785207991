SPECIFICATION Spec
CONSTANTS
    Producer = {w1}
    Fault = {"ok"}
    MaxBlocks = 6
    SharedPrefix = 1
    DefaultMaxSize = 8
    NumBobservers = 1
    StartVoting = 9
    IrreversiblePercent = 75
    MaxUndoHistory = 8
    OutOfOrder = FALSE
    MaxCrashes = 0
PROPERTIES
    PushUnwinds
