SPECIFICATION PoolSpec
CONSTANTS
    ta = ta
    tb = tb
    tc = tc
    td = td
    Tx = {ta, tb, tc, td}
    Expiration <- MCExpiration
    Size <- MCSize
    Needs <- MCNeeds
    Spends <- MCSpends
    MaxTimeUntilExpiration = 4
    MaxBlockSize = 5
    HeaderEstimate = 1
    HeaderSize = 3
    SizeMargin = 1
    LastTime = 7
    MaxChain = 4
    MaxPop = 2
    MaxForeign = 1
INVARIANTS
    SlotIsFilled
    SessionIsPending
    AppliedOnce
PROPERTIES
    NothingDropped
