SPECIFICATION Spec
SYMMETRY Symmetry
CONSTANTS
    Producer = {w1, w2}
    Fault = {"ok"}
    MaxBlocks = 6
    SharedPrefix = 1
    DefaultMaxSize = 8
    NumBobservers = 2
    StartVoting = 1
    IrreversiblePercent = 75
    MaxUndoHistory = 8
    OutOfOrder = FALSE
    MaxCrashes = 0
INVARIANTS
    IrreversibleFound
