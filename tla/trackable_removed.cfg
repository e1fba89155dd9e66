SPECIFICATION Spec
CONSTANTS
    a = a
    b = b
    r1 = r1
    r2 = r2
    u = u
    w = w
    Times <- Refers
    Object = {a, b}
    Rep = {r1, r2}
    Data = {u}
    Weak = {w}
    MaxStack = 4
    MaxRegistrations = 2
    AddWhileNotified = FALSE
    Reenter = FALSE
INVARIANTS
    NeverCalledUnasked
