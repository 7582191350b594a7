SPECIFICATION CRSpec
CONSTANTS
    Items = {i1}
    Workers = {w1}
    None = None
    BatchSize = 1
    MaxRetry = 2
    StuckAge = 1
    MaxBackoff = 1
    MaxFaults = 0
    MaxRequeues = 0
    MaxIncidents = 0
    Resolvers = {r1}
    NoItem = NoItem
INVARIANTS
    ReappliedOnce
CHECK_DEADLOCK FALSE
