SPECIFICATION Spec
CONSTANTS
    Creators = {g1, g2}
    Signers = {s1, s2}
    Movers = {m1}
    Lines = {l1, l2}
    MaxQty = 1
    LineKinds <- SomeLines
    GivenTotals <- InvoiceMayCome
    None = none
    g1 = g1
    g2 = g2
    s1 = s1
    s2 = s2
    m1 = m1
    l1 = l1
    l2 = l2
SYMMETRY Alike
CHECK_DEADLOCK FALSE
INVARIANTS
    NumbersSequential
    
PROPERTIES
    SignOffStands
