SPECIFICATION FairSpec
CONSTANTS
    Notifications = {"s1", "s2"}
    IsLoopIn = {}
    ReqChanCap = 1
    MaxFaults = 1
PROPERTIES
    UnfinishedIsHandled
CHECK_DEADLOCK FALSE
