SPECIFICATION FairSpec
CONSTANTS
    Requests = {r1, r2, r3}
    MaxEdits = 2
    MaxPolls = 2
    None = None
INVARIANTS
    TypeOK
    EditorHasNotebook
PROPERTIES
    EditorShowsDraft
    DraftNeverGoesBack
    RequestsEnd
