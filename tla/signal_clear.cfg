SPECIFICATION Spec
CONSTANTS
    s1 = s1
    s2 = s2
    o = o
    e = e
    Slot = {o}
    Owner = {o}
    EmptySlot = {}
    MaxStack = 1
    MaxHandles = 1
    CallerKeepsHandle = FALSE
INVARIANTS
    ImplOutlivesItsFrames
