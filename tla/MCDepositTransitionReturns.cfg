SPECIFICATION FairSpec
CONSTANTS
    s1 = s1
    c1 = c1
    NoProc = NoProc
    Senders = {s1}
    Callers = {c1}
    MaxFsms = 1
    MaxFaults = 0
PROPERTIES
    TransitionReturns
CHECK_DEADLOCK FALSE
