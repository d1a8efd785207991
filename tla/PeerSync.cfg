SPECIFICATION SyncSpec
CONSTANTS
    p1 = p1
    p2 = p2
    Nobody = Nobody
    Peer = {p1, p2}
    Faulty = {p2}
    Path <- MCPath
    StartTip <- MCStartTip
    StartHead = 1
    Invalid = {5}
    Limit = 2
    MinPrefetch = 2
    MaxPerPeer = 1
    MaxHandled = 1
    MaxPrefetched = 1
    RecentSize = 2
    MaxConnects = 2
    MaxOffers = 1
INVARIANTS BlocksLink OneRequestEach QuietMeansSynced
CHECK_DEADLOCK FALSE
