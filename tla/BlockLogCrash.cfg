SPECIFICATION Spec
\* A node that cannot open its log stays down.
CHECK_DEADLOCK FALSE
CONSTANTS
    StartBlocks = 2
    MaxBlocks = 5
    MaxCrashes = 2
    TornTails = TRUE
INVARIANTS
    IndexMirrorsLog
PROPERTIES
    ReadsFind
    LogSpec
