SPECIFICATION Spec
CONSTANTS
    s1 = s1
    s2 = s2
    o = o
    e = e
    Slot = {s1, s2, e}
    Owner = {}
    EmptySlot = {e}
    MaxStack = 2
    MaxHandles = 1
    CallerKeepsHandle = TRUE
SYMMETRY Interchangeable
PROPERTIES
    ImplementsContract
