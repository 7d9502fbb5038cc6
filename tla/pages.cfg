SPECIFICATION Spec
CONSTANTS
    MaxRows = 5
    Limit = 2
INVARIANTS
    EveryRowShown
