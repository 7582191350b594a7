SPECIFICATION Spec
CONSTANTS
    Requests = {r1, r2, r3, r4, r5}
    Overriding = {r1}
    Lines = {l1, l2}
    MaxQty = 1
SYMMETRY Symmetry
INVARIANTS
    ChainUnbroken
    StatusTellsStage
    StockMatchesLines
CHECK_DEADLOCK FALSE
