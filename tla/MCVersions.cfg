CONSTANTS
    Texts <- SmallTexts
    Histories <- SmallHistories
    MaxVersions = 2
    MaxRequests = 3
    Null = Null

SPECIFICATION VersionsSpec

INVARIANTS
    
    DiffCorrect
CHECK_DEADLOCK FALSE
