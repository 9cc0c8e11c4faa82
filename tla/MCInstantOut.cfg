CONSTANTS
    Reservations = {r1}
    Known = {}
    Swaps = {s1, s2}
    Requests = {{r1}}
    MaxActive = 1
    MaxFaults = 2
    MaxVersions = 2
SPECIFICATION FairSpec
INVARIANTS
    FinishedHasCoins
    RevealedIsStored
    LockedHasOwner
PROPERTIES
    RevealedGetsCoins
    ReservationEnds
CHECK_DEADLOCK FALSE
