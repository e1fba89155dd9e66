SPECIFICATION Spec
CONSTANTS
    h1 = h1
    h2 = h2
    h3 = h3
    i1 = i1
    i2 = i2
    i3 = i3
    s1 = s1
    s2 = s2
    Handle = {h1, h2, h3}
    Trackable = {h1, h2}
    Impl = {i1, i2, i3}
    Slot = {s1, s2}
    MaxStack = 3
    AssignUnused = TRUE
PROPERTIES
    CopiesShare
