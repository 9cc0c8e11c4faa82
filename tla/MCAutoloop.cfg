SPECIFICATION Spec
CONSTANTS
    Channels = {"c1", "c2", "custom"}
    Assets = {"usd"}
    AssetOf <- MCAssetOf
    Rule <- MCRule
    EasyAutoloopExcludedPeers = {"c2"}
    Fees = {2}
    MaxPrepay = 3
    AutoFeeBudget = 3
    MaxAutoInFlight = 2
    RetryCount = 2
    MaxSwaps = 3
    Requests <- MCRequests
    MaxLoops = 2
    MaxEvents = 1
INVARIANTS
    StickyLoopsCounted
    
    
CHECK_DEADLOCK FALSE
