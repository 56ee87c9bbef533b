SPECIFICATION Spec
CONSTANTS
    None = None
    Peers = {p1}
    MaxChanges = 3
    Configs <- SmallConfigs
INVARIANTS
    Settled
    OneDocument

    
CHECK_DEADLOCK FALSE
