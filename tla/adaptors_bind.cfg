SPECIFICATION Spec
CONSTANTS
    o1 = o1
    o2 = o2
    plain = plain
    Object = {o1, o2, plain}
    Trackable = {o1, o2}
    MaxWraps = 1
    MaxArity = 3
    ManyAtLocation = TRUE
INVARIANT
    WatchesItsObjects
CHECK_DEADLOCK FALSE
