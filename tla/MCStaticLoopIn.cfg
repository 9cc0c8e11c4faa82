CONSTANTS
    NumDeposits = 2
    HtlcCltvExpiry = 1
    MaxHeight = 2
    Prompt = FALSE
    MaxFaults = 1

SPECIFICATION FairSpec

INVARIANTS
    ReleasedOnlyUnpayable
    OutcomeMatches

PROPERTIES
    StoredRejectionKept
    ImplementsAtomicSwap
    LoopInEnds
