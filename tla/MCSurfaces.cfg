SPECIFICATION SurfSpec
CONSTANTS
    None = None
    Codes = {"", "graph", "oops"}
    Valid = {"graph"}
    MaxEdits = 3
    MaxThemes = 1
    ann = ann
    bob = bob
    eve = eve
    Absent = Absent
    Clients = {ann, bob, eve}
    Me = bob
    UserOf <- SmallUsers
    Letters = {"a", "*", "\\", "\n"}
    Sources <- SmallSources
    MaxTyping = 2
INVARIANTS
    PreviewFresh
    DiagramFresh
    HighlightsRight
    
PROPERTIES
    DiagramsSettle
CHECK_DEADLOCK FALSE
