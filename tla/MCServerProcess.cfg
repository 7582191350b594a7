SPECIFICATION FairSpec
CONSTANTS
    Requests = {r1, r2}
    Jobs = {j1}
    Pools = {p1, p2, p3}
    Nil = nil
    MaxQueries = 2
    MaxFaults = 2
INVARIANTS
    OnePool
    NobodyCutOff
PROPERTIES
    Reconnects
CHECK_DEADLOCK FALSE
