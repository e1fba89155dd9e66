SPECIFICATION FairSpec
CONSTANTS
    s1 = s1
    s2 = s2
    o = o
    e = e
    Slot = {s1, o}
    Owner = {o}
    EmptySlot = {}
    MaxStack = 2
    MaxHandles = 1
    CallerKeepsHandle = TRUE
PROPERTIES
    DisconnectedEventuallyFreed
