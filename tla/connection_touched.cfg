SPECIFICATION Spec
CONSTANTS
    s1 = s1
    s2 = s2
    s3 = s3
    c1 = c1
    x1 = x1
    x2 = x2
    Slot = {s1, s2}
    Conn = {c1}
    Scoped = {x1, x2}
    MaxStack = 3
    TouchAssigned = TRUE
SYMMETRY Interchangeable
PROPERTIES
    Replaced
