CONSTANTS
    Mine = {m1}
    Theirs = {p1}
    Diagram = d1
    Saved = d2
    MaxBlocks = 2

SPECIFICATION Spec

INVARIANTS
    NoEcho
    SurfacesAgree
    TypingKept
CHECK_DEADLOCK FALSE
