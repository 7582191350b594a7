SPECIFICATION Spec
CONSTANTS
    Requests = {r1, r2, r3, r4, r5}
    MaxAmount = 1
    r1 = r1
    r2 = r2
    r3 = r3
    r4 = r4
    r5 = r5
SYMMETRY Alike
CHECK_DEADLOCK FALSE
INVARIANTS
    TwoSignatures
    WorkIsApproved
PROPERTIES
    DecisionsStand
