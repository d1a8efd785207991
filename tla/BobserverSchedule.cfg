SPECIFICATION Spec
CONSTANTS
    Bobserver = {m1, m2, m3}
    InitMiners = {m1, m2}
    FirstMiner = m1
    NumBobservers = 2
    MaxVoted = 2
    Required = 2
    Interval = 2
    GenesisTime = 1
    Window = 3
    NumHardforks = 2
    FirstHardforkTime = 2
    Vote <- HeaderVotes
    MaxBlocks = 6
    MaxGap = 3
    MaxOps = 2
\* The bounds end a run, and so does a hardfork the node does not know.
CHECK_DEADLOCK FALSE
INVARIANTS
    ProducersCounted
PROPERTIES
    HardforkHasMajority
    ScheduleComplete
    SlotsFollowTime
    RoundRobin
