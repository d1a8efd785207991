SPECIFICATION Spec
SYMMETRY Symmetry
\* The bounds on operations and time end a behaviour.
CHECK_DEADLOCK FALSE
CONSTANTS
    Account = {alice, bob}
    Bproducer = {alice, bob}
    DappName = {d1, d2}
    Permlink = {1, 2}
    VoteType = {"like"}
    FeeVote = {2}
    Required = 2
    MinFeeds = 2
    FeedAge = 2
    AggregationInterval = 1
    PostInterval = 1
    MaxDepth = 2
    InitFee = 1
    InitCoins = 4
    StartTime = 2
    MaxTime = 4
    MaxOps = 4
    Fund = {"f"}
    Amount = {2}
    RequestId = {1}
    Month = {1, 2}
    Rate = {50}
    Cycle = 1
    InitSupply = 4
    TokenMax = 6
INVARIANTS
    TokensAccounted
    CommentsConsistent
PROPERTIES
    DueOnlyWaits
