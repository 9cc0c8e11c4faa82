SPECIFICATION PaymentsSpec
CONSTANTS
    Payers = {"p1", "p2", "p3"}
    Nobody = "nobody"
    UsesPlugin = {"p1", "p2"}
    Nodes = {"n1", "n2", "n3"}
    Fee <- MCFee
    Known = {"n1"}
    PaymentTimeout <- MCPaymentTimeout
    TotalPaymentTimeout = 9
    MaxPaymentRetries = 3
    MaxInterruptions = 2
INVARIANTS
    MissionControlRestored
    
CHECK_DEADLOCK FALSE
