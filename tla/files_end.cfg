SPECIFICATION FairSpec
CONSTANTS
    Requests = {r1, r2, r3}
    Names = {n1}
    MaxFiles = 1
    None = None
PROPERTIES
    RequestsEnd
