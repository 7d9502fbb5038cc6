SPECIFICATION Spec
CONSTANTS
    Browsers = {b1, b2}
    Requests = {r1, r2, r3, r4}
    AccessLife = 1
    RefreshLife = 2
    MaxTime = 3
    None = None
SYMMETRY Symmetry
INVARIANTS
    TypeOK
    OneTokenRow
    SessionIsBounded
    LogoutEndsSessions
PROPERTIES
    AnswersAgree
CONSTRAINT UnderWay
