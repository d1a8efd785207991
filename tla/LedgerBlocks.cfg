SPECIFICATION Spec
\* A block that cannot pay what is due is rejected, and so is any later one.
CHECK_DEADLOCK FALSE
CONSTANTS
    alice = alice
    bob = bob
    null = null
    Account = {alice, bob, null}
    Null = null
    Rank <- MCRank
    Payee = {bob, null}
    RequestId = {1}
    Amount = {3}
    SplitOrder = {1, 2}
    SplitMonth = {0, 1, 2}
    StakeMonth = {1}
    Percent = {50}
    Cycle = 1
    Fee = 3
    InitSupply = 6
    MaxSupply = 6
    MaxDebt = 2
    MaxRequests = 2
    MaxTime = 2
INVARIANTS
    SavingsCovered
    InstalmentsAddUp
    SupplyAccounted
    BlockEndCompletes
