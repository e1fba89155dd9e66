SPECIFICATION Spec
CONSTANTS
    s1 = s1
    s2 = s2
    s3 = s3
    o1 = o1
    c1 = c1
    Slot = {s1, s2}
    Object = {o1}
    Conn = {c1}
    MaxReps = 4
    MaxNesting = 2
    EmptyConn = FALSE
    InnerSource = TRUE
INVARIANTS
    ConnectionStays
