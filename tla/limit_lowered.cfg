SPECIFICATION Spec
CONSTANTS
    Students = {s1}
    Requests = {r1, r2, r3, r4}
    Scores = {0, 1}
    MaxLimit = 2
    Overlap = FALSE
    LowerLimit = TRUE
    None = None
SYMMETRY Symmetry
PROPERTIES
    AdmittedBelowLimit
