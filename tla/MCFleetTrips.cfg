SPECIFICATION Spec
CONSTANTS
    Requests = {r1, r2, r3, r4, r5}
    Overriding = {r1}
    Kinds = {"start", "end", "put", "fuel"}
    MaxReading = 1
    NoReading = none
    r1 = r1
    r2 = r2
    r3 = r3
    r4 = r4
    r5 = r5
SYMMETRY Alike
CHECK_DEADLOCK FALSE
INVARIANTS
    OneOpenTrip
    BusyWhileOpen
    TripsInSequence
    RefuelsAddUp
PROPERTIES
    OdometerMonotone
