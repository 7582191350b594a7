SPECIFICATION WalkFairSpec
CONSTANTS
    MinLimit = 1
    DefaultLimit = 2
    MaxLimit = 3
    ClampMax = TRUE
    Raw = {0, 1, 4}
    Absent = absent
    TicksPerMs = 2
    MaxTime = 3
    MaxRows = 4
    MaxDeploys = 1
CHECK_DEADLOCK FALSE
INVARIANTS
    WalkOrdered
PROPERTIES
    WalkEnds
