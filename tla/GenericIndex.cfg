CONSTANTS
    Key = {k1, k2}
    Data = {d1, d2}
    NoVal = NoVal
    MaxId = 1
    MaxStack = 3
    MaxRevision = 3
SPECIFICATION FairSpec
INVARIANTS
    SquashCasesCausal
    SnapshotsRestorable
    UndoIsDefined
PROPERTIES
    HistorySpec
    UndoAllEnds
