SPECIFICATION CRQueueFairSpec
CONSTANTS
    Items = {i1}
    Workers = {w1, w2}
    None = None
    BatchSize = 1
    MaxRetry = 2
    StuckAge = 1
    MaxBackoff = 1
    MaxFaults = 2
    MaxRequeues = 1
    MaxIncidents = 3
    Resolvers = {r1, r2}
    NoItem = NoItem
INVARIANTS
    OneWayIn
PROPERTIES
    OverrideOnlyParked
    Drains
CHECK_DEADLOCK FALSE
