SPECIFICATION FairSpec
CONSTANTS
    s1 = s1
    s2 = s2
    NoProc = NoProc
    Senders = {s1, s2}
    Callers = {}
    MaxFsms = 3
    MaxFaults = 2
PROPERTIES
    ExpiredIsFinal
CHECK_DEADLOCK FALSE
