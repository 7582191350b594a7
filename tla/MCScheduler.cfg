SPECIFICATION CronFairSpec
CONSTANTS
    Instances = {i1, i2}
    Businesses = {b1, b2}
    NoBusiness = none
    Steps = 3
    WholeChain = {b1}
    BatchSize = 2
    MaxPass = 2
    MaxRetry = 2
    MaxErrors = 1
INVARIANTS
    NoFalseConflict
PROPERTIES
    TickServesAll
    EveryBusinessDrains
