SPECIFICATION Spec
CONSTANTS
    Students = {s1}
    Requests = {r1, r2, r3, r4}
    Scores = {0, 1}
    MaxLimit = 2
    Overlap = TRUE
    LowerLimit = FALSE
    None = None
SYMMETRY Symmetry
INVARIANTS
    TypeOK
    Integrity
    ScoreHasItsAttempt
    WithinLimit
PROPERTIES
    HistoryIsAppendOnly
