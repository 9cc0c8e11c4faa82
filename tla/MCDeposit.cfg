SPECIFICATION Spec
CONSTANTS
    s1 = s1
    s2 = s2
    c1 = c1
    NoProc = NoProc
    Senders = {s1, s2}
    Callers = {c1}
    MaxFsms = 2
    MaxFaults = 1
SYMMETRY SenderSymmetry
INVARIANTS
    ExpiredIsSwept
    ActiveAgrees
PROPERTIES
    FinalIsKept
CHECK_DEADLOCK FALSE
