SPECIFICATION FairSpec
CONSTANTS
    Students = {s1}
    Requests = {r1, r2, r3}
    Scores = {0, 1}
    MaxLimit = 2
    Overlap = TRUE
    LowerLimit = FALSE
    None = None
PROPERTIES
    RequestsEnd
