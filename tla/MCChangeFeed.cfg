SPECIFICATION FairSpec
CONSTANTS
    Writers = {w1, w2, w3}
    Entities = {e1, e2}
    Devices = {d1}
    NoEntity = none
    PageSize = 2
    Blocking = TRUE
    MaxKeys = 5
    MaxFaults = 1
INVARIANTS
    NothingSkipped
PROPERTIES
    ImplementsFeed
    Delivered
