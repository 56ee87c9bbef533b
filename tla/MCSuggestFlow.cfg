SPECIFICATION Spec
CONSTANTS
    b1 = b1
    l1 = l1
    p1 = p1
    t1 = t1
    t2 = t2
    NoThread = NoThread
    Base = {b1}
    Local = {l1}
    Peer = {p1}
    Threads = {t1, t2}
SYMMETRY ThreadSymmetry
INVARIANTS
    
    GateOwned
    ScreenIsShared
PROPERTIES
    ReopenedInStep
CHECK_DEADLOCK FALSE
