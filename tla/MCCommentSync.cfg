CONSTANTS
    Threads = {t1}
    Replies = {r1, x1}
    Outside = {x1}
    Kinds = {"pending"}
    Verdicts = {"accepted"}
    Marks = {"reaction"}
    MaxDrains = 2
    MaxPersistRetries = 2
    MaxChanges = 2
    None = None
SPECIFICATION Spec
INVARIANTS
    PendingOrRecorded
    RecordedIsHeld
    
PROPERTIES
    DecisionKept
    RetriesEnd
CHECK_DEADLOCK FALSE
