SPECIFICATION Spec
CONSTANTS
    Items = {i1, i2}
    Workers = {w1, w2}
    None = None
    BatchSize = 2
    MaxRetry = 2
    StuckAge = 1
    MaxBackoff = 1
    MaxFaults = 1
    MaxRequeues = 1
    MaxIncidents = 1
SYMMETRY Symmetry
INVARIANTS
    TypeOK
    BudgetRespected
    ExclusiveClaim
    AppliedAtMostOnce
    NoPhantomSync
    ConflictOnRecord
PROPERTIES
    SettledStays
    ImplementsInbox
CHECK_DEADLOCK FALSE
