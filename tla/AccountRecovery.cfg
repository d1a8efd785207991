SPECIFICATION Spec
\* The bounds on time and operations end every behaviour.
CHECK_DEADLOCK FALSE
CONSTANTS
    a1 = a1
    a2 = a2
    k1 = k1
    k2 = k2
    open = open
    None = None
    Account = {a1, a2}
    Genesis = {a1}
    Authority = {k1, k2, open}
    GenesisOwner = k1
    Open = {open}
    Impossible = {}
    AccountAuths <- MCAccountAuths
    Rank <- MCRank
    UpdateLimit = 1
    RequestPeriod = 3
    RecoveryPeriod = 4
    StartTime = 2
    MaxGap = 2
    MaxTime = 7
    MaxOps = 5
INVARIANTS
    RecentOwnersKnown
PROPERTIES
    RecoveryWasAsked
    OwnersOutlastChange
