SPECIFICATION FairSpec
CONSTANTS
    CltvExpiry = 3
    MinLoopInPublishDelta = 2
    MaxHeight = 4
    MaxFaults = 2
INVARIANTS
    SingleHtlc
    OutcomeMatchesChain
    RefundFeeCountedOnce
PROPERTIES
    StoredStateMovesForward
    ImplementsAtomicSwap
    
