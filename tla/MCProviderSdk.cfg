SPECIFICATION Spec
CONSTANTS
    None = None
    Docs = {d1, d2}
    CacheSize = 1
    MaxUpdates = 2
    Texts <- SmallTexts
    LineLength <- SmallLengths
    MaxVersions = 3
INVARIANTS
    
    VersionBlameCorrect
CHECK_DEADLOCK FALSE
