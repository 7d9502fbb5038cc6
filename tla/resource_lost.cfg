SPECIFICATION Spec
CONSTANTS
    Requests = {r1, r2, r3, r4}
    Names = {n1}
    MaxFiles = 1
    None = None
SYMMETRY Symmetry
INVARIANTS
    ResourcesKept
