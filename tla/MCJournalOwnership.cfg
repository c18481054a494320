SPECIFICATION Spec
CONSTANTS
    p1 = p1
    p2 = p2
    p3 = p3
    Proc = {p1, p2, p3}
    MaxEdits = 3
SYMMETRY Alike
CHECK_DEADLOCK FALSE
INVARIANTS
    KeptApart
    WorkIsKept
    
