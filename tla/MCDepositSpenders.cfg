CONSTANTS
    NumDeposits = 2
    Shared = {2}
    MaxTx = 2
    MaxFaults = 1
SPECIFICATION FairSpec
CHECK_DEADLOCK FALSE
INVARIANTS
    WithdrawnIsConfirmed
    WithdrawingIsRecoverable
    SameInputs
PROPERTIES
    WithdrawalCompletes
    OpeningEnds
