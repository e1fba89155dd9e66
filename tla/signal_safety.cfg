SPECIFICATION Spec
CONSTANTS
    s1 = s1
    s2 = s2
    o = o
    e = e
    Slot = {s1, s2, o}
    Owner = {o}
    EmptySlot = {}
    MaxStack = 3
    MaxHandles = 1
    CallerKeepsHandle = TRUE
SYMMETRY Interchangeable
CONSTRAINT Unblocked
INVARIANTS
    TypeOK
    IteratorsValid
    ExecCountsHolders
    RunningSlotSurvives
    SweptWhenIdle
    NotificationsValid
    NoOrphanedNotification
    DestructorNeverSweeps
    ImplOutlivesItsFrames
    NothingLeftBehind
PROPERTIES
    EmissionsAdvance
