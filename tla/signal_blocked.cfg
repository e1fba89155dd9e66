SPECIFICATION Spec
CONSTANTS
    s1 = s1
    s2 = s2
    o = o
    e = e
    Slot = {s1, s2}
    Owner = {}
    EmptySlot = {}
    MaxStack = 1
    MaxHandles = 1
    CallerKeepsHandle = TRUE
INVARIANTS
    BlockedAsDocumented
