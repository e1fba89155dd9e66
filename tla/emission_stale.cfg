SPECIFICATION Spec
CONSTANTS
    b1 = b1
    b2 = b2
    N = 3
    Iter = {b1, b2}
    Void = FALSE
INVARIANTS
    OwnResult
