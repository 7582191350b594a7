SPECIFICATION FairSpec
CONSTANTS
    NumEntities = 2
    Devices = {d1}
    Sweepers = {s1}
    PageSize = 1
    HasActive = TRUE
    MaxWrites = 1
    MaxPurges = 1
    MaxFaults = 1
INVARIANTS
    LogOrdered
    NothingMissed
PROPERTIES
    Converges
    Bootstraps
CHECK_DEADLOCK FALSE
