SPECIFICATION FairSpec
CONSTANTS
    CltvExpiry = 3
    MinLoopOutPreimageRevealDelta = 1
    MaxHeight = 3
    MaxFaults = 2
INVARIANTS
    RevealedOnlyForHtlc
    PushedOnlyStored
    PaymentCountedOnce
PROPERTIES
    StoredRevealIsKept
    SwapResolves
