SPECIFICATION Spec
CONSTANTS
    p1 = p1
    p2 = p2
    u1 = u1
    NoPod = NoPod
    Pods = {p1, p2}
    Updates = {u1}
    MaxLog = 2
    MaxCrashes = 0
    Faults = TRUE
SYMMETRY PodSymmetry
INVARIANTS
    QuietBootComplete
    FlushExclusive
CHECK_DEADLOCK FALSE
