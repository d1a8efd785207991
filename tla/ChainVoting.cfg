SPECIFICATION Spec
SYMMETRY Symmetry
CONSTANTS
    Producer = {w1, w2, w3}
    Fault = {"ok"}
    MaxBlocks = 5
    SharedPrefix = 1
    DefaultMaxSize = 8
    NumBobservers = 3
    StartVoting = 2
    IrreversiblePercent = 66
    MaxUndoHistory = 8
    OutOfOrder = TRUE
    MaxCrashes = 1
INVARIANTS
    LibHasQuorum
    IrreversibleIsDurable
    RestartConsistent
PROPERTIES
    CommittedStay
