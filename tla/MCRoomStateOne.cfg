SPECIFICATION FairSpec
CONSTANTS
    p1 = p1
    u1 = u1
    u2 = u2
    NoPod = NoPod
    Pods = {p1}
    Updates = {u1, u2}
    MaxLog = 1
    MaxCrashes = 1
    Faults = TRUE
INVARIANTS
    NotForgotten
PROPERTIES
    SnapshotGrows
    EventuallyDurable
CHECK_DEADLOCK FALSE
