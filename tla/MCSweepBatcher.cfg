SPECIFICATION FairSpec
CONSTANTS
    s1 = s1
    s2 = s2
    s3 = s3
    Sweeps = {s1, s2}
    External = {}
    Timeout <- MCTimeout
    MaxTimeoutDistance = 5
    MaxSweepsPerBatch = 2
    MaxBatches = 3
    MaxFaults = 1
INVARIANTS MemoryMatchesStore CompletedIsConfirmed FeeHasPayers UnspentIsHeld
 
CHECK_DEADLOCK FALSE
