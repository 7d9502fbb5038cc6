SPECIFICATION Spec
CONSTANTS
    Requests = {r1, r2, r3, r4}
    Names = {n1}
    MaxFiles = 2
    None = None
SYMMETRY Symmetry
INVARIANTS
    TypeOK
    RowsBacked
    NotebooksMatch
    DeletionIsFinal
    SequentialUpdatesAgree
