CONSTANTS
    Clients = {"c1", "c2"}
    UserOf <- SmallUserOf
    Threshold = 2
    MaxItems = 3
    MaxEdits = 3

SPECIFICATION ObserversSpec

INVARIANTS
    BlameExact
    
CHECK_DEADLOCK FALSE
