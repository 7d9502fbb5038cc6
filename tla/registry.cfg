SPECIFICATION Spec
CONSTANTS
    r1 = r1
    r2 = r2
    r3 = r3
    Requests = {r1, r2, r3}
    student = student
    tutor = tutor
    Emails = {student, tutor}
    TestStudent = student
    TestTutor = tutor
    n1 = n1
    Numbers = {n1}
    t1 = t1
    t2 = t2
    Teachers = {t1, t2}
    name1 = name1
    Names = {name1}
    MaxDate = 2
    None = None
SYMMETRY Interchangeable
INVARIANTS
    TypeOK
    DisciplinesTaught
    DatesOrdered
PROPERTIES
    NewGroupHasMember
CHECK_DEADLOCK FALSE
