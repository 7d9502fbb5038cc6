---- MODULE Registry_proofs ----
(***************************************************************************)
(* Theorems about Registry.  The inductive invariants say of every request *)
(* which locals it has at each of its steps (Locals), and of all requests  *)
(* together what their uncommitted rows and stale reads allow: TypeInv for *)
(* the types and the unique e-mails, ProfileInv for the users whose        *)
(* profiles are being changed, TaughtInv for disciplines, DatesInv for     *)
(* dates.                                                                  *)
(***************************************************************************)
EXTENDS Registry, TLAPS

Deleting == {"check", "unlink", "links", "keep", "drop"}

Editing == {"find", "discipline", "update"}

\* What the record x of request r has at each step.
PersonLocals(x) ==
    /\ x.pc \in {"lookup", "findGroup", "addGroup", "addUser", "addGoogleUser",
                 "updateUser"} => x.email # None
    /\ x.pc = "lookup" => x.kind \in {"register", "google"}
    /\ x.pc = "updateUser" => x.kind = "profile"
    /\ x.pc \in {"findGroup", "addGroup"} => x.kind \in {"register", "profile"}
    /\ x.pc = "addGroup" => x.group # None
    /\ x.newGroup => x.group # None /\ x.pc \in {"addUser", "updateUser"}
    /\ x.pc \in {"findTest", "addTest"} => x.kind = "test"
    /\ x.tests # {} => x.pc \in {"findTest", "addTest"}
    /\ x.pc = "addTest" => x.left # <<>>

CourseLocals(r, x) ==
    /\ x.pc \in Deleting \cup Editing \cup {"insert", "rename", "name"} => x.teacher # None
    /\ x.pc \in Deleting => x.kind = "delete" /\ x.discipline # None
    /\ x.pc \in {"rename", "name"} => x.discipline # None /\ x.name # None
    /\ x.pc \in {"find", "update"} => x.kind = "edit"
    /\ x.pc = "discipline" =>
          \/ x.kind = "add" /\ (x.name = None => x.discipline # None)
          \/ x.kind = "edit" /\ x.name # None
    /\ x.pc = "insert" => x.kind = "add" /\ x.discipline # None
    /\ x.pc \in Steps /\ x.kind = "delete" => x.pc \in Deleting
    /\ x.pc \in Steps /\ x.kind = "edit" => x.pc \in Editing
    /\ x.pc \in {"discipline", "insert"} /\ x.kind = "add" =>
          x.start # None /\ x.due # None /\ x.start <= x.due
    /\ x.newDiscipline =>
          x.pc \in {"insert", "update"} /\ x.discipline = r /\ x.name # None

Locals(r, x) == PersonLocals(x) /\ CourseLocals(r, x)

\* What r inserted and has not committed is nobody's e-mail yet.
TestsApart ==
    \A r \in Requests : \A e \in req[r].tests :
        /\ \A u \in users : u.email # e
        /\ \A q \in Requests \ {r} : e \notin req[q].tests

TypeInv ==
    /\ TypeOK
    /\ \A r \in Requests : Locals(r, req[r])
    /\ TestsApart

----
(***************************************************************************)
(* How a request changes.                                                  *)
(***************************************************************************)

\* A step of r gives it the record y: it ends, or keeps what it was asked for.
Moves(r, y) ==
    /\ req[r].pc \in Steps
    /\ req' = [req EXCEPT ![r] = y]
    /\ y \in Request
    /\ Locals(r, y)
    /\ \/ y.pc = "closed"
       \/ /\ y.pc \in Steps
          /\ y.kind = req[r].kind /\ y.email = req[r].email
          /\ y.teacher = req[r].teacher /\ y.target = req[r].target
          /\ y.start = req[r].start /\ y.due = req[r].due

LEMMA IdleType == Idle \in Request
<1>1. <<>> \in Seq(Emails)
  OBVIOUS
<1> QED
  BY <1>1 DEF Idle, Request

LEMMA ClosedType ==
    LET y == [Idle EXCEPT !.pc = "closed"]
    IN  /\ y \in Request /\ y.pc = "closed" /\ y.tests = {} /\ ~y.newGroup
        /\ ~y.newDiscipline /\ y.kind = None
BY IdleType DEF Idle, Request

LEMMA ClosedLocals == \A r \in Requests : Locals(r, [Idle EXCEPT !.pc = "closed"])
BY ClosedType DEF Locals, PersonLocals, CourseLocals, Deleting, Editing, Steps

LEMMA CloseMoves ==
    ASSUME NEW r \in Requests, req[r].pc \in Steps, Close(r)
    PROVE  Moves(r, [Idle EXCEPT !.pc = "closed"])
BY ClosedType, ClosedLocals DEF Close, Moves

\* The record of a request after a Goto
LEMMA GotoRecord ==
    ASSUME NEW x \in Request, NEW pc \in Steps
    PROVE  LET y == [x EXCEPT !.pc = pc]
           IN  /\ y \in Request /\ y.pc = pc
               /\ y.kind = x.kind /\ y.email = x.email /\ y.role = x.role
               /\ y.group = x.group /\ y.newGroup = x.newGroup
               /\ y.tests = x.tests /\ y.left = x.left
               /\ y.teacher = x.teacher /\ y.name = x.name
               /\ y.discipline = x.discipline /\ y.newDiscipline = x.newDiscipline
               /\ y.target = x.target /\ y.start = x.start /\ y.due = x.due
BY DEF Request

\* ... and after the steps that change more than the program counter
LEMMA GroupRecord ==
    ASSUME NEW x \in Request, NEW pc \in Steps
    PROVE  LET y == [x EXCEPT !.pc = pc, !.newGroup = TRUE]
           IN  /\ y \in Request /\ y.pc = pc /\ y.newGroup = TRUE
               /\ y.kind = x.kind /\ y.email = x.email /\ y.group = x.group
               /\ y.tests = x.tests /\ y.teacher = x.teacher
               /\ y.newDiscipline = x.newDiscipline /\ y.target = x.target
               /\ y.start = x.start /\ y.due = x.due
<1> DEFINE y == [x EXCEPT !.pc = pc, !.newGroup = TRUE]
<1>1. y \in Request
  BY DEF Request
<1>2. /\ y.pc = pc /\ y.newGroup = TRUE
      /\ y.kind = x.kind /\ y.email = x.email /\ y.group = x.group
      /\ y.tests = x.tests
  BY DEF Request
<1>3. /\ y.teacher = x.teacher /\ y.newDiscipline = x.newDiscipline
      /\ y.target = x.target /\ y.start = x.start /\ y.due = x.due
  BY DEF Request
<1> QED
  BY <1>1, <1>2, <1>3

LEMMA GotoMoves ==
    ASSUME TypeInv, NEW r \in Requests, req[r].pc \in Steps, NEW pc \in Steps, Goto(r, pc),
           Locals(r, [req[r] EXCEPT !.pc = pc])
    PROVE  Moves(r, [req[r] EXCEPT !.pc = pc])
BY GotoRecord DEF Goto, Moves, TypeInv, TypeOK

\* Every step of a request moves it.
LEMMA StepMoves ==
    ASSUME TypeInv, NEW r \in Requests, Step(r)
    PROVE  \E y : Moves(r, y)
<1> DEFINE x == req[r]
<1>0. x \in Request /\ Locals(r, x)
  BY DEF TypeInv, TypeOK
<1>c. ASSUME Close(r), x.pc \in Steps PROVE \E y : Moves(r, y)
  BY <1>c, CloseMoves
<1>g. ASSUME NEW pc \in Steps, Goto(r, pc), x.pc \in Steps,
             Locals(r, [x EXCEPT !.pc = pc])
      PROVE  \E y : Moves(r, y)
  BY <1>g, GotoMoves
<1> DEFINE y(pc) == [x EXCEPT !.pc = pc]
<1>y. \A pc \in Steps :
        /\ y(pc) \in Request /\ y(pc).pc = pc
        /\ y(pc).kind = x.kind /\ y(pc).email = x.email /\ y(pc).role = x.role
        /\ y(pc).group = x.group /\ y(pc).newGroup = x.newGroup
        /\ y(pc).tests = x.tests /\ y(pc).left = x.left
        /\ y(pc).teacher = x.teacher /\ y(pc).name = x.name
        /\ y(pc).discipline = x.discipline /\ y(pc).newDiscipline = x.newDiscipline
        /\ y(pc).target = x.target /\ y(pc).start = x.start /\ y(pc).due = x.due
  BY <1>0, GotoRecord
<1> HIDE DEF y
<1>1. CASE LookUpUser(r)
  <2>0. x.pc = "lookup" /\ x.pc \in Steps
    BY <1>1 DEF LookUpUser, Steps
  <2>1. CASE Close(r)
    BY <1>c, <2>0, <2>1
  <2>2. ASSUME NEW pc \in {"addGoogleUser", "findGroup", "addUser"}, Goto(r, pc),
               pc = "findGroup" => x.kind = "register"
        PROVE  \E z : Moves(r, z)
    <3>1. pc \in Steps
      BY DEF Steps
    <3>2. Locals(r, y(pc))
      BY <1>0, <1>y, <2>0, <2>2, <3>1 DEF Locals, PersonLocals, CourseLocals, Deleting, Editing
    <3> QED
      BY <1>g, <2>0, <2>2, <3>1, <3>2 DEF y
  <2> QED
    <3> DEFINE pc == CASE x.kind = "google" -> "addGoogleUser"
                       [] x.kind = "register" /\ x.role = "STUDENT" -> "findGroup"
                       [] OTHER -> "addUser"
    <3>1. Close(r) \/ Goto(r, pc)
      BY <1>1 DEF LookUpUser
    <3>2. pc \in {"addGoogleUser", "findGroup", "addUser"}
          /\ (pc = "findGroup" => x.kind = "register")
      OBVIOUS
    <3> HIDE DEF pc
    <3> QED
      BY <2>1, <2>2, <3>1, <3>2
<1>2. CASE FindGroup(r)
  <2>0. x.pc = "findGroup" /\ x.pc \in Steps
    BY <1>2 DEF FindGroup, Steps
  <2>1. CASE Close(r)
    BY <1>c, <2>0, <2>1
  <2>2. ASSUME NEW pc \in {"addUser", "updateUser", "addGroup"}, Goto(r, pc),
               x.group # None, pc = "updateUser" => x.kind # "register"
        PROVE  \E z : Moves(r, z)
    <3>1. pc \in Steps
      BY DEF Steps
    <3>2. Locals(r, y(pc))
      BY <1>0, <1>y, <2>0, <2>2, <3>1 DEF Locals, PersonLocals, CourseLocals, Deleting, Editing
    <3> QED
      BY <1>g, <2>0, <2>2, <3>1, <3>2 DEF y
  <2> QED
    <3>1. AfterGroup(r) \in {"addUser", "updateUser"}
          /\ (AfterGroup(r) = "updateUser" => x.kind # "register")
      BY DEF AfterGroup
    <3>2. \/ Close(r)
          \/ x.group # None /\ (Goto(r, AfterGroup(r)) \/ Goto(r, "addGroup"))
      <4>0. None \notin groups
        BY RegistryAssumption DEF TypeInv, TypeOK, GroupName
      <4>1. CASE x.group = None
        BY <1>2, <4>0, <4>1 DEF FindGroup
      <4>2. CASE x.group # None /\ x.group \in groups
        BY <1>2, <4>2 DEF FindGroup
      <4>3. CASE x.group # None /\ x.group \notin groups
        BY <1>2, <4>3 DEF FindGroup
      <4> QED
        BY <4>1, <4>2, <4>3
    <3> QED
      BY <2>1, <2>2, <3>1, <3>2
<1>3. CASE AddGroup(r)
  <2>0. x.pc = "addGroup" /\ x.pc \in Steps
    BY <1>3 DEF AddGroup, Steps
  <2>1. CASE Close(r)
    BY <1>c, <2>0, <2>1
  <2>2. CASE req' = [req EXCEPT ![r].pc = AfterGroup(r), ![r].newGroup = TRUE]
    <3> DEFINE z == [x EXCEPT !.pc = AfterGroup(r), !.newGroup = TRUE]
    <3>1. AfterGroup(r) \in {"addUser", "updateUser"} /\ AfterGroup(r) \in Steps
          /\ (AfterGroup(r) = "updateUser" => x.kind # "register")
      BY DEF AfterGroup, Steps
    <3>2. /\ z \in Request /\ z.pc = AfterGroup(r) /\ z.newGroup = TRUE
          /\ z.kind = x.kind /\ z.email = x.email /\ z.group = x.group
          /\ z.tests = x.tests /\ z.teacher = x.teacher
          /\ z.newDiscipline = x.newDiscipline /\ z.target = x.target
          /\ z.start = x.start /\ z.due = x.due
      BY <1>0, <3>1, GroupRecord
    <3> HIDE DEF z
    <3>3. Locals(r, z)
      BY <1>0, <2>0, <3>1, <3>2 DEF Locals, PersonLocals, CourseLocals, Deleting, Editing
    <3>4. req' = [req EXCEPT ![r] = z]
      BY <2>2 DEF z
    <3> QED
      BY <2>0, <3>1, <3>2, <3>3, <3>4 DEF Moves
  <2> QED
    BY <1>3, <2>1, <2>2 DEF AddGroup
<1>4. CASE AddUser(r) \/ AddGoogleUser(r) \/ UpdateUser(r) \/ InsertAssignment(r)
           \/ UpdateAssignment(r) \/ Rename(r) \/ KeepDiscipline(r) \/ DropDiscipline(r)
           \/ Abort(r)
  BY <1>c, <1>4 DEF AddUser, AddGoogleUser, UpdateUser, InsertAssignment, UpdateAssignment,
       Rename, KeepDiscipline, DropDiscipline, Abort, Fails, Running, Steps
<1>t. ASSUME NEW tests \in SUBSET Emails, x.pc \in {"findTest", "addTest"}, x.left # <<>>,
             NextTest(r, [x EXCEPT !.tests = tests])
      PROVE  \E z : Moves(r, z)
  <2> DEFINE z == [x EXCEPT !.tests = tests, !.left = Tail(x.left), !.pc = "findTest"]
  <2>1. req' = [req EXCEPT ![r] = z]
    <3>1. [[x EXCEPT !.tests = tests] EXCEPT !.left = Tail(@), !.pc = "findTest"] = z
      BY <1>0 DEF Request
    <3> QED
      BY <1>t, <3>1 DEF NextTest
  <2>2. Tail(x.left) \in Seq(Emails)
    <3>1. x.left \in Seq(Emails)
      BY <1>0 DEF Request
    <3> QED
      BY <1>t, <3>1
  <2>5. "findTest" \in Steps
    BY DEF Steps
  <2>6. tests \in SUBSET Emails /\ x \in Request
    BY <1>0, <1>t
  <2>7. z \in Request
    BY <2>2, <2>5, <2>6 DEF Request
  <2>8. /\ z.pc = "findTest" /\ z.newGroup = x.newGroup
        /\ z.kind = x.kind /\ z.email = x.email /\ z.teacher = x.teacher
    BY <2>6 DEF Request
  <2>9. /\ z.newDiscipline = x.newDiscipline /\ z.target = x.target
        /\ z.start = x.start /\ z.due = x.due
    BY <2>6 DEF Request
  <2> HIDE DEF z
  <2>4. Locals(r, z)
    BY <1>0, <1>t, <2>7, <2>8, <2>9 DEF Locals, PersonLocals, CourseLocals, Deleting, Editing
  <2> QED
    <3>1. x.pc \in Steps /\ z.pc \in Steps
      BY <1>t, <2>7, <2>8, <2>9 DEF Steps
    <3> QED
      BY <2>1, <2>7, <2>8, <2>9, <2>4, <3>1 DEF Moves
<1>5. CASE FindTestUser(r)
  <2>0. x.pc = "findTest" /\ x.pc \in Steps
    BY <1>5 DEF FindTestUser, Steps
  <2>1. CASE Close(r)
    BY <1>c, <2>0, <2>1
  <2>2. CASE NextTest(r, x) /\ x.left # <<>>
    <3>1. x = [x EXCEPT !.tests = x.tests] /\ x.tests \in SUBSET Emails
      BY <1>0 DEF Request
    <3> QED
      BY <1>t, <2>0, <2>2, <3>1
  <2>3. CASE Goto(r, "addTest") /\ x.left # <<>>
    <3>1. Locals(r, y("addTest"))
      BY <1>0, <1>y, <2>0, <2>3 DEF Steps, Locals, PersonLocals, CourseLocals, Deleting, Editing
    <3> QED
      BY <1>g, <2>0, <2>3, <3>1 DEF y, Steps
  <2> QED
    BY <1>5, <2>1, <2>2, <2>3 DEF FindTestUser
<1>6. CASE AddTestUser(r)
  <2>0. x.pc = "addTest" /\ x.pc \in Steps /\ x.left # <<>>
    BY <1>0, <1>6 DEF AddTestUser, Steps, Locals, PersonLocals
  <2>1. CASE Close(r)
    BY <1>c, <2>0, <2>1
  <2>2. CASE NextTest(r, [req[r] EXCEPT !.tests = @ \cup {Head(req[r].left)}])
    <3>1. Head(x.left) \in Emails
      <4>1. x.left \in Seq(Emails)
        BY <1>0 DEF Request
      <4> QED
        BY <2>0, <4>1
    <3>2. x.tests \cup {Head(x.left)} \in SUBSET Emails
      BY <1>0, <3>1 DEF Request
    <3> QED
      BY <1>t, <2>0, <2>2, <3>2
  <2> QED
    BY <1>6, <2>1, <2>2 DEF AddTestUser
<1>7. CASE FindAssignment(r)
  <2>0. x.pc = "find" /\ x.pc \in Steps
    BY <1>7 DEF FindAssignment, Steps
  <2>1. CASE Close(r)
    BY <1>c, <2>0, <2>1
  <2>2. CASE Goto(r, AfterFind(r))
    <3>1. AfterFind(r) \in {"update", "discipline"} /\ AfterFind(r) \in Steps
          /\ (AfterFind(r) = "discipline" => x.name # None)
      BY DEF AfterFind, Steps
    <3>2. Locals(r, y(AfterFind(r)))
      BY <1>0, <1>y, <2>0, <3>1 DEF Locals, PersonLocals, CourseLocals, Deleting, Editing
    <3> QED
      BY <1>g, <2>0, <2>2, <3>1, <3>2 DEF y
  <2> QED
    BY <1>7, <2>1, <2>2 DEF FindAssignment
<1>8. CASE FindDiscipline(r)
  <2>0. x.pc = "discipline" /\ x.pc \in Steps
    BY <1>8 DEF FindDiscipline, Steps
  <2>1. CASE Close(r)
    BY <1>c, <2>0, <2>1
  <2>2. CASE Goto(r, "insert") /\ x.name = None
    <3>1. Locals(r, y("insert"))
      BY <1>0, <1>y, <2>0, <2>2 DEF Steps, Locals, PersonLocals, CourseLocals, Deleting, Editing
    <3> QED
      BY <1>g, <2>0, <2>2, <3>1 DEF y, Steps
  <2>3. ASSUME NEW d \in Requests, NEW new \in BOOLEAN, x.name # None, new => d = r,
               req' = [req EXCEPT ![r].pc = Write(r), ![r].discipline = d,
                                  ![r].newDiscipline = new]
        PROVE  \E z : Moves(r, z)
    <3> DEFINE z == [x EXCEPT !.pc = Write(r), !.discipline = d, !.newDiscipline = new]
    <3>1. /\ Write(r) \in {"insert", "update"} /\ Write(r) \in Steps
          /\ (Write(r) = "insert" <=> x.kind = "add")
      BY DEF Write, Steps
    <3>6. z \in Request
      BY <1>0, <2>3, <3>1 DEF Request
    <3>7. /\ z.pc = Write(r) /\ z.newGroup = x.newGroup
          /\ z.kind = x.kind /\ z.email = x.email /\ z.tests = x.tests
          /\ z.teacher = x.teacher /\ z.name = x.name
      BY <1>0 DEF Request
    <3>8. /\ z.target = x.target /\ z.discipline = d /\ z.newDiscipline = new
          /\ z.start = x.start /\ z.due = x.due
      BY <1>0 DEF Request
    <3>3. req' = [req EXCEPT ![r] = z]
      BY <2>3 DEF z
    <3> HIDE DEF z
    <3>4. d # None
      BY RegistryAssumption
    <3>5. Locals(r, z)
      BY <1>0, <2>0, <2>3, <3>1, <3>6, <3>7, <3>8, <3>4
         DEF Locals, PersonLocals, CourseLocals, Deleting, Editing
    <3> QED
      BY <2>0, <3>1, <3>6, <3>7, <3>8, <3>3, <3>5 DEF Moves
  <2>4. CASE \E d \in Called(r) :
               req' = [req EXCEPT ![r].pc = Write(r), ![r].discipline = d.id]
    <3>1. PICK d \in Called(r) :
            req' = [req EXCEPT ![r].pc = Write(r), ![r].discipline = d.id]
      BY <2>4
    <3>2. d.id \in Requests /\ x.name # None
      BY <1>0, RegistryAssumption DEF Called, TypeInv, TypeOK, Discipline
    <3>3. x.newDiscipline = FALSE
      BY <1>0, <2>0 DEF Locals, CourseLocals, Request
    <3>4. req' = [req EXCEPT ![r].pc = Write(r), ![r].discipline = d.id,
                             ![r].newDiscipline = FALSE]
      BY <1>0, <3>1, <3>3 DEF Request
    <3> QED
      BY <2>3, <3>2, <3>4
  <2> QED
    <3>1. CASE x.name = None
      <4>1. Close(r) \/ Goto(r, "insert")
        BY <1>8, <3>1 DEF FindDiscipline
      <4> QED
        BY <2>1, <2>2, <3>1, <4>1
    <3>2. CASE x.name # None /\ Called(r) = {}
      <4>1. req' = [req EXCEPT ![r].pc = Write(r), ![r].discipline = r,
                               ![r].newDiscipline = TRUE]
        BY <1>8, <3>2 DEF FindDiscipline
      <4> QED
        BY <2>3, <3>2, <4>1
    <3>3. CASE x.name # None /\ Called(r) # {}
      BY <1>8, <2>1, <2>4, <3>3 DEF FindDiscipline
    <3> QED
      BY <3>1, <3>2, <3>3
<1>9. ASSUME NEW pc \in {"unlink", "links", "keep", "drop"}, Goto(r, pc),
             x.pc \in Deleting
      PROVE  \E z : Moves(r, z)
  <2>1. pc \in Steps /\ x.pc \in Steps
    BY <1>9 DEF Deleting, Steps
  <2>2. Locals(r, y(pc))
    BY <1>0, <1>y, <1>9, <2>1 DEF Locals, PersonLocals, CourseLocals, Deleting, Editing
  <2> QED
    BY <1>g, <1>9, <2>1, <2>2 DEF y
<1>10. CASE CheckDeletion(r) \/ Unlink(r) \/ SelectLinks(r)
  BY <1>c, <1>9, <1>10 DEF CheckDeletion, Unlink, SelectLinks, Deleting, Steps
<1>11. CASE CheckOwner(r)
  <2>1. Close(r) \/ Goto(r, "name")
    BY <1>11 DEF CheckOwner
  <2>2. x.pc = "rename" /\ x.pc \in Steps /\ "name" \in Steps
    BY <1>11 DEF CheckOwner, Steps
  <2>3. Locals(r, y("name"))
    BY <1>0, <1>y, <2>2 DEF Locals, PersonLocals, CourseLocals, Deleting, Editing
  <2> QED
    BY <1>c, <1>g, <2>1, <2>2, <2>3 DEF Steps, y
<1> QED
  BY <1>1, <1>2, <1>3, <1>4, <1>5, <1>6, <1>7, <1>8, <1>10, <1>11 DEF Step

\* A request begins as x.
Begins(r, x) ==
    /\ Begin(r, x)
    /\ x \in Request /\ x.pc \in Steps /\ x.kind \in Kinds
    /\ Locals(r, x)
    /\ x.tests = {}
    /\ x.kind = "profile" => \E u \in users : u.email = x.email
    /\ x.kind = "edit" => x.pc = "find" /\ \E a \in assignments : a.id = x.target
    /\ x.pc \in Deleting => x.pc = "check"

LEMMA RegisterBegins ==
    ASSUME TypeInv, RegisterNext
    PROVE  \E r \in Requests, x \in Request : Begins(r, x)
<1> USE DEF Begins, Locals, PersonLocals, CourseLocals, Deleting, Editing
<1>0. <<>> \in Seq(Emails) /\ <<TestStudent, TestTutor>> \in Seq(Emails)
  BY RegistryAssumption
<1>1. ASSUME NEW r \in Requests, NEW e \in Emails, NEW role \in Roles,
             NEW g \in GroupName \cup {None}, Register(r, e, role, g)
      PROVE  \E x \in Request : Begins(r, x)
  <2> DEFINE h == IF role = "STUDENT" /\ g # None THEN Normalized(g) ELSE None
             x == [Idle EXCEPT !.pc = "lookup", !.kind = "register", !.email = e,
                               !.role = role, !.group = h]
  <2>1. h \in GroupName \cup {None}
    BY DEF Normalized, GroupName
  <2>2. Begin(r, x)
    BY <1>1 DEF Register
  <2> HIDE DEF h
  <2>3. x \in Request
    BY <1>0, <1>1, <2>1 DEF Idle, Request, Steps, Kinds, Roles, AnyRole
  <2>4. /\ x.pc = "lookup" /\ x.kind = "register" /\ x.email = e
        /\ x.newGroup = FALSE /\ x.newDiscipline = FALSE /\ x.tests = {}
    BY DEF Idle
  <2>5. e # None
    BY <1>1, RegistryAssumption
  <2> HIDE DEF x
  <2> QED
    BY <2>2, <2>3, <2>4, <2>5 DEF Steps, Kinds
<1>2. ASSUME NEW r \in Requests, NEW e \in Emails, GoogleCallback(r, e)
      PROVE  \E x \in Request : Begins(r, x)
  <2> DEFINE x == [Idle EXCEPT !.pc = "lookup", !.kind = "google", !.email = e]
  <2>1. Begin(r, x)
    BY <1>2 DEF GoogleCallback
  <2>2. x \in Request
    BY <1>0, <1>2 DEF Idle, Request, Steps, Kinds
  <2>3. /\ x.pc = "lookup" /\ x.kind = "google" /\ x.email = e
        /\ x.newGroup = FALSE /\ x.newDiscipline = FALSE /\ x.tests = {}
    BY DEF Idle
  <2>4. e # None
    BY <1>2, RegistryAssumption
  <2> HIDE DEF x
  <2> QED
    BY <2>1, <2>2, <2>3, <2>4 DEF Steps, Kinds
<1>3. ASSUME NEW r \in Requests, CreateTestUsers(r)
      PROVE  \E x \in Request : Begins(r, x)
  <2> DEFINE x == [Idle EXCEPT !.pc = "findTest", !.kind = "test",
                               !.left = <<TestStudent, TestTutor>>]
  <2>1. Begin(r, x)
    BY <1>3 DEF CreateTestUsers
  <2>2. x \in Request
    BY <1>0 DEF Idle, Request, Steps, Kinds
  <2>3. /\ x.pc = "findTest" /\ x.kind = "test"
        /\ x.newGroup = FALSE /\ x.newDiscipline = FALSE /\ x.tests = {}
    BY DEF Idle
  <2> HIDE DEF x
  <2> QED
    BY <2>1, <2>2, <2>3 DEF Steps, Kinds
<1>4. ASSUME NEW r \in Requests, NEW u \in users, NEW g \in GroupName,
             UpdateMe(r, u, g)
      PROVE  \E x \in Request : Begins(r, x)
  <2> DEFINE x == [Idle EXCEPT !.pc = "findGroup", !.kind = "profile",
                               !.email = u.email, !.group = g]
  <2>0. u.email \in Emails /\ u.email # None
    BY RegistryAssumption DEF TypeInv, TypeOK, User
  <2>1. Begin(r, x)
    BY <1>4 DEF UpdateMe
  <2>2. x \in Request
    BY <1>0, <1>4, <2>0 DEF Idle, Request, Steps, Kinds
  <2>3. /\ x.pc = "findGroup" /\ x.kind = "profile" /\ x.email = u.email
        /\ x.newGroup = FALSE /\ x.newDiscipline = FALSE /\ x.tests = {}
    BY DEF Idle
  <2> HIDE DEF x
  <2> QED
    BY <2>0, <2>1, <2>2, <2>3 DEF Steps, Kinds
<1>5. ASSUME NEW r \in Requests, NEW u \in users, NEW role \in AnyRole,
             NEW g \in GroupName \cup {None}, CompleteProfile(r, u, role, g)
      PROVE  \E x \in Request : Begins(r, x)
  <2> DEFINE pc == IF role = "STUDENT" /\ g # None THEN "findGroup" ELSE "updateUser"
             h == IF role = "STUDENT" THEN g ELSE None
             x == [Idle EXCEPT !.kind = "profile", !.email = u.email, !.role = role,
                               !.pc = pc, !.group = h]
  <2>0. /\ u.email \in Emails /\ u.email # None
        /\ h \in GroupName \cup {None} /\ pc \in {"findGroup", "updateUser"}
    BY RegistryAssumption DEF TypeInv, TypeOK, User
  <2>1. Begin(r, x)
    BY <1>5 DEF CompleteProfile
  <2> HIDE DEF pc, h
  <2>2. x \in Request
    BY <1>0, <1>5, <2>0 DEF Idle, Request, Steps, Kinds
  <2>3. /\ x.pc = pc /\ x.kind = "profile" /\ x.email = u.email
        /\ x.newGroup = FALSE /\ x.newDiscipline = FALSE /\ x.tests = {}
    BY DEF Idle
  <2> HIDE DEF x
  <2> QED
    BY <2>0, <2>1, <2>2, <2>3 DEF Steps, Kinds
<1> QED
  BY <1>1, <1>2, <1>3, <1>4, <1>5 DEF RegisterNext

LEMMA TeachBegins ==
    ASSUME TypeInv, TeachNext
    PROVE  \/ \E r \in Requests, x \in Request : Begins(r, x)
           \/ \E r \in Requests, t \in Teachers, name \in Names : CreateDiscipline(r, t, name)
<1> USE DEF Begins, Locals, PersonLocals, CourseLocals, Deleting, Editing
<1>0. /\ <<>> \in Seq(Emails)
      /\ \A t \in Teachers : t # None
      /\ \A r \in Requests : r # None
      /\ \A name \in Names : name # None
      /\ \A d \in Dates : d # None /\ d \in Int
      /\ \A d \in disciplines : d.id \in Requests
      /\ \A a \in assignments : a.id \in Requests
  BY RegistryAssumption DEF Dates, TypeInv, TypeOK, Discipline, Assignment
<1>1. ASSUME NEW r \in Requests, NEW t \in Teachers, NEW name \in Names \cup {None},
             NEW start \in Dates, NEW due \in Dates, NEW d \in Requests \cup {None},
             AddAssignment(r, t, d, name, start, due)
      PROVE  \E x \in Request : Begins(r, x)
  <2> DEFINE x == [Idle EXCEPT !.pc = "discipline", !.kind = "add", !.teacher = t,
                     !.discipline = d, !.name = name, !.start = start, !.due = due]
  <2>1. Begin(r, x) /\ (d = None) # (name = None) /\ start <= due
    BY <1>1 DEF AddAssignment
  <2>2. x \in Request
    BY <1>0, <1>1 DEF Idle, Request, Steps, Kinds
  <2>3. /\ x.pc = "discipline" /\ x.kind = "add" /\ x.teacher = t
        /\ x.discipline = d /\ x.name = name
        /\ x.newGroup = FALSE /\ x.newDiscipline = FALSE /\ x.tests = {}
    BY DEF Idle
  <2>4. x.start = start /\ x.due = due
    BY DEF Idle
  <2>5. name = None => d # None
    BY <2>1
  <2> HIDE DEF x
  <2>6. Locals(r, x)
    <3>1. x.teacher # None /\ x.start # None /\ x.due # None /\ x.start <= x.due
          /\ (x.name = None => x.discipline # None)
      BY <1>0, <1>1, <2>1, <2>3, <2>4, <2>5
    <3>2. PersonLocals(x)
      BY <2>3
    <3>3. CourseLocals(r, x)
      BY <2>3, <3>1
    <3> QED
      BY <3>2, <3>3
  <2> QED
    BY <2>1, <2>2, <2>3, <2>6 DEF Steps, Kinds
<1>2. ASSUME NEW r \in Requests, NEW t \in Teachers, NEW a \in assignments,
             NEW name \in Names \cup {None}, NEW start \in Dates \cup {None},
             NEW due \in Dates \cup {None}, NEW d \in Requests \cup {None},
             EditAssignment(r, t, a.id, d, name, start, due)
      PROVE  \E x \in Request : Begins(r, x)
  <2> DEFINE x == [Idle EXCEPT !.pc = "find", !.kind = "edit", !.teacher = t,
                     !.target = a.id, !.discipline = d, !.name = name,
                     !.start = start, !.due = due]
  <2>1. Begin(r, x)
    BY <1>2 DEF EditAssignment
  <2>2. x \in Request
    BY <1>0, <1>2 DEF Idle, Request, Steps, Kinds
  <2>3. /\ x.pc = "find" /\ x.kind = "edit" /\ x.teacher = t
        /\ x.target = a.id
        /\ x.newGroup = FALSE /\ x.newDiscipline = FALSE /\ x.tests = {}
    BY DEF Idle
  <2> HIDE DEF x
  <2> QED
    BY <1>0, <1>2, <2>1, <2>2, <2>3 DEF Steps, Kinds
<1>3. ASSUME NEW r \in Requests, NEW t \in Teachers, NEW d \in disciplines,
             NEW name \in Names, RenameDiscipline(r, t, d.id, name)
      PROVE  \E x \in Request : Begins(r, x)
  <2> DEFINE x == [Idle EXCEPT !.pc = "rename", !.kind = "rename", !.teacher = t,
                     !.discipline = d.id, !.name = name]
  <2>1. Begin(r, x)
    BY <1>3 DEF RenameDiscipline
  <2>2. x \in Request
    BY <1>0, <1>3 DEF Idle, Request, Steps, Kinds
  <2>3. /\ x.pc = "rename" /\ x.kind = "rename" /\ x.teacher = t
        /\ x.discipline = d.id /\ x.name = name
        /\ x.newGroup = FALSE /\ x.newDiscipline = FALSE /\ x.tests = {}
    BY DEF Idle
  <2> HIDE DEF x
  <2> QED
    BY <1>0, <1>3, <2>1, <2>2, <2>3 DEF Steps, Kinds
<1>4. ASSUME NEW r \in Requests, NEW t \in Teachers, NEW d \in disciplines,
             DeleteDiscipline(r, t, d.id)
      PROVE  \E x \in Request : Begins(r, x)
  <2> DEFINE x == [Idle EXCEPT !.pc = "check", !.kind = "delete", !.teacher = t,
                     !.discipline = d.id]
  <2>1. Begin(r, x)
    BY <1>4 DEF DeleteDiscipline
  <2>2. x \in Request
    BY <1>0, <1>4 DEF Idle, Request, Steps, Kinds
  <2>3. /\ x.pc = "check" /\ x.kind = "delete" /\ x.teacher = t
        /\ x.discipline = d.id
        /\ x.newGroup = FALSE /\ x.newDiscipline = FALSE /\ x.tests = {}
    BY DEF Idle
  <2> HIDE DEF x
  <2> QED
    BY <1>0, <1>4, <2>1, <2>2, <2>3 DEF Steps, Kinds
<1> QED
  <2>1. PICK r \in Requests, t \in Teachers :
          \/ \E name \in Names : CreateDiscipline(r, t, name)
          \/ \E name \in Names \cup {None}, start, due \in Dates,
                d \in {x.id : x \in disciplines} \cup {None} :
                 AddAssignment(r, t, d, name, start, due)
          \/ \E a \in assignments, name \in Names \cup {None},
                start, due \in Dates \cup {None}, d \in Requests \cup {None} :
                 EditAssignment(r, t, a.id, d, name, start, due)
          \/ \E d \in disciplines : \/ \E name \in Names : RenameDiscipline(r, t, d.id, name)
                                    \/ DeleteDiscipline(r, t, d.id)
    BY DEF TeachNext
  <2>2. {x.id : x \in disciplines} \subseteq Requests
    BY <1>0
  <2>3. CASE \E name \in Names \cup {None}, start, due \in Dates,
               d \in {x.id : x \in disciplines} \cup {None} :
                AddAssignment(r, t, d, name, start, due)
    BY <1>1, <2>2, <2>3
  <2>4. CASE \E a \in assignments, name \in Names \cup {None},
               start, due \in Dates \cup {None}, d \in Requests \cup {None} :
                EditAssignment(r, t, a.id, d, name, start, due)
    BY <1>2, <2>4
  <2> QED
    BY <1>3, <1>4, <2>1, <2>3, <2>4

----
(***************************************************************************)
(* Types.                                                                  *)
(***************************************************************************)

\* The step of a request, what it is called, and what it leaves of the rows.
LEMMA NextCases ==
    ASSUME TypeInv, Next
    PROVE  \/ \E r \in Requests, x \in Request : Begins(r, x)
           \/ \E r \in Requests, t \in Teachers, name \in Names : CreateDiscipline(r, t, name)
           \/ AdminNext
           \/ \E r \in Requests : Step(r)
BY RegisterBegins, TeachBegins DEF Next

LEMMA InitTypeInv == Init => TypeInv
BY IdleType, RegistryAssumption
   DEF Init, TypeInv, TypeOK, TestsApart, Locals, PersonLocals, CourseLocals, Idle,
       Deleting, Editing, Steps

LEMMA BeginsTypeInv ==
    ASSUME TypeInv, NEW r \in Requests, NEW x \in Request, Begins(r, x)
    PROVE  TypeInv'
<1>1. /\ req[r].pc = "idle" /\ req' = [req EXCEPT ![r] = x]
      /\ UNCHANGED <<groups, users, disciplines, links, assignments>>
      /\ overlap' \subseteq Kinds
  BY DEF Begins, Begin, people, courses, TypeInv, TypeOK
<1>2. req' \in [Requests -> Request] /\ req'[r] = x
      /\ \A q \in Requests \ {r} : req'[q] = req[q]
  BY <1>1 DEF TypeInv, TypeOK
<1>3. TypeOK'
  BY <1>1, <1>2 DEF TypeInv, TypeOK
<1>4. \A q \in Requests : Locals(q, req'[q])
  BY <1>2 DEF TypeInv, Begins
<1>5. TestsApart'
  <2>1. \A q \in Requests : req'[q].tests = {} \/ req'[q].tests = req[q].tests
    BY <1>2 DEF Begins
  <2>2. \A q \in Requests : req'[q].tests \subseteq req[q].tests
    BY <2>1
  <2> QED
    BY <1>1, <2>2 DEF TypeInv, TestsApart
<1> QED
  BY <1>3, <1>4, <1>5 DEF TypeInv

\* A step of a request, given what it does to the rows.
LEMMA MovesTypeInv ==
    ASSUME TypeInv, NEW r \in Requests, NEW y, Moves(r, y), UNCHANGED overlap,
           groups' \subseteq GroupName, users' \subseteq User,
           \A u, v \in users' : u.email = v.email => u = v,
           disciplines' \subseteq Discipline, links' \subseteq Link,
           assignments' \subseteq Assignment,
           \A e \in y.tests : /\ \A u \in users' : u.email # e
                              /\ \A q \in Requests \ {r} : e \notin req[q].tests,
           \A q \in Requests \ {r} : \A e \in req[q].tests : \A u \in users' : u.email # e
    PROVE  TypeInv'
<1>1. req' \in [Requests -> Request] /\ req'[r] = y
      /\ \A q \in Requests \ {r} : req'[q] = req[q]
  BY DEF TypeInv, TypeOK, Moves
<1>2. TypeOK'
  BY <1>1 DEF TypeInv, TypeOK
<1>3. \A q \in Requests : Locals(q, req'[q])
  BY <1>1 DEF TypeInv, Moves
<1>4. TestsApart'
  BY <1>1 DEF TypeInv, TestsApart
<1> QED
  BY <1>2, <1>3, <1>4 DEF TypeInv

LEMMA StepTypeInv ==
    ASSUME TypeInv, NEW r \in Requests, Step(r)
    PROVE  TypeInv'
<1>0. PICK y : Moves(r, y)
  BY StepMoves
<1> DEFINE x == req[r]
<1>x. /\ x \in Request /\ Locals(r, x) /\ x.pc \in Steps
      /\ req \in [Requests -> Request] /\ req'[r] = y
      /\ groups \subseteq GroupName /\ users \subseteq User
      /\ \A u, v \in users : u.email = v.email => u = v
      /\ disciplines \subseteq Discipline /\ links \subseteq Link
      /\ assignments \subseteq Assignment
  BY <1>0 DEF TypeInv, TypeOK, Moves
<1>e. /\ \A e \in x.tests : /\ \A u \in users : u.email # e
                            /\ \A q \in Requests \ {r} : e \notin req[q].tests
      /\ \A q \in Requests \ {r} : \A e \in req[q].tests : \A u \in users : u.email # e
  BY DEF TypeInv, TestsApart
\* Ends or goes on without writing rows or adding a test user.
<1>n. ASSUME UNCHANGED <<people, courses, overlap>>, y.tests \subseteq x.tests
      PROVE  TypeInv'
  BY <1>0, <1>x, <1>e, <1>n, MovesTypeInv DEF people, courses
<1>c. ASSUME Close(r) PROVE y.tests = {}
  BY <1>c, <1>x, ClosedType DEF Close, TypeInv, TypeOK
<1>g. ASSUME NEW pc \in Steps, Goto(r, pc) PROVE y.tests = x.tests
  BY <1>x, <1>g, GotoRecord DEF Goto
<1>1. CASE LookUpUser(r)
  <2>1. Close(r) \/ \E pc \in Steps : Goto(r, pc)
    BY <1>1 DEF LookUpUser, Steps
  <2> QED
    BY <1>1, <1>c, <1>g, <1>n, <2>1 DEF LookUpUser
<1>2. CASE FindGroup(r)
  <2>1. Close(r) \/ \E pc \in Steps : Goto(r, pc)
    BY <1>2 DEF FindGroup, AfterGroup, Steps
  <2> QED
    BY <1>2, <1>c, <1>g, <1>n, <2>1 DEF FindGroup
<1>3. CASE AddGroup(r)
  <2>1. CASE Close(r)
    BY <1>3, <1>c, <1>n, <2>1 DEF AddGroup
  <2>2. CASE req' = [req EXCEPT ![r].pc = AfterGroup(r), ![r].newGroup = TRUE]
    <3>1. AfterGroup(r) \in Steps
      BY DEF AfterGroup, Steps
    <3>2. y = [x EXCEPT !.pc = AfterGroup(r), !.newGroup = TRUE]
      BY <1>x, <2>2
    <3>3. y.tests = x.tests
      BY <1>x, <3>2 DEF Request
    <3> QED
      BY <1>3, <1>n, <3>3 DEF AddGroup
  <2> QED
    BY <1>3, <2>1, <2>2 DEF AddGroup
\* A new user whose e-mail nobody has and no request is about to insert.
<1>u. ASSUME NEW u \in User, users' = users \cup {u}, \A v \in users : v.email # u.email,
             ~Pending(u.email, r), y.tests = {}, x.tests = {},
             groups' \subseteq GroupName, UNCHANGED <<courses, overlap>>
      PROVE  TypeInv'
  <2>1. /\ users' \subseteq User
        /\ \A v, w \in users' : v.email = w.email => v = w
    BY <1>x, <1>u
  <2>2. \A q \in Requests \ {r} : \A e \in req[q].tests : \A v \in users' : v.email # e
    BY <1>e, <1>u DEF Pending
  <2> QED
    BY <1>0, <1>x, <1>u, <2>1, <2>2, MovesTypeInv DEF courses
<1>4. CASE AddUser(r)
  <2>1. x.pc = "addUser" /\ x.tests = {} /\ y.tests = {} /\ x.email \in Emails
    BY <1>4, <1>c, <1>x DEF AddUser, Locals, PersonLocals, Request
  <2>2. CASE UNCHANGED people
    BY <1>4, <1>n, <2>1, <2>2 DEF AddUser
  <2>3. CASE ~UNCHANGED people
    <3> DEFINE u == [email |-> x.email, role |-> x.role, group |-> x.group]
    <3>1. /\ users' = users \cup {u} /\ groups' = GroupsWith(r)
          /\ ~Pending(x.email, r) /\ \A v \in users : v.email # x.email
          /\ UNCHANGED <<courses, overlap>>
      BY <1>4, <2>3 DEF AddUser
    <3>2. u \in User /\ u.email = x.email
      BY <1>x, <2>1 DEF User, Request
    <3>3. groups' \subseteq GroupName
      BY <1>x, <3>1 DEF GroupsWith, Locals, PersonLocals, Request
    <3> HIDE DEF u
    <3> QED
      BY <1>u, <2>1, <3>1, <3>2, <3>3
  <2> QED
    BY <2>2, <2>3
<1>5. CASE AddGoogleUser(r)
  <2>1. x.pc = "addGoogleUser" /\ x.tests = {} /\ y.tests = {} /\ x.email \in Emails
    BY <1>5, <1>c, <1>x DEF AddGoogleUser, Locals, PersonLocals, Request
  <2>2. CASE UNCHANGED users
    BY <1>5, <1>n, <2>1, <2>2 DEF AddGoogleUser, people
  <2>3. CASE ~UNCHANGED users
    <3> DEFINE u == [email |-> x.email, role |-> None, group |-> None]
    <3>1. /\ users' = users \cup {u} /\ UNCHANGED groups
          /\ ~Pending(x.email, r) /\ \A v \in users : v.email # x.email
          /\ UNCHANGED <<courses, overlap>>
      BY <1>5, <2>3 DEF AddGoogleUser
    <3>2. u \in User /\ u.email = x.email
      BY <2>1 DEF User
    <3> HIDE DEF u
    <3> QED
      BY <1>x, <1>u, <2>1, <3>1, <3>2
  <2> QED
    BY <2>2, <2>3
<1>6. CASE FindTestUser(r)
  <2>1. CASE x.left = <<>>
    <3>1. /\ users' = users \cup {TestUser(e) : e \in x.tests}
          /\ y.tests = {} /\ UNCHANGED <<groups, courses, overlap>>
      BY <1>6, <1>c, <2>1 DEF FindTestUser
    <3>2. x.tests \subseteq Emails
      BY <1>x DEF Request
    <3>3. \A e \in x.tests : TestUser(e) \in User /\ TestUser(e).email = e
      BY <3>2 DEF TestUser, User, AnyRole, Roles
    <3>4. users' \subseteq User /\ \A u, v \in users' : u.email = v.email => u = v
      BY <1>x, <1>e, <3>1, <3>3
    <3>5. \A q \in Requests \ {r} : \A e \in req[q].tests : \A u \in users' : u.email # e
      BY <1>e, <3>1, <3>3
    <3> QED
      BY <1>0, <1>x, <3>1, <3>4, <3>5, MovesTypeInv DEF courses
  <2>2. CASE x.left # <<>> /\ NextTest(r, x)
    <3>1. y = [x EXCEPT !.left = Tail(@), !.pc = "findTest"]
      BY <1>x, <2>2 DEF NextTest
    <3>2. y.tests = x.tests
      BY <1>x, <3>1 DEF Request
    <3>3. UNCHANGED <<people, courses, overlap>>
      BY <1>6, <2>2 DEF FindTestUser, people
    <3> QED
      BY <1>n, <3>2, <3>3
  <2>3. CASE x.left # <<>> /\ Goto(r, "addTest")
    BY <1>6, <1>g, <1>n, <2>3 DEF FindTestUser, Steps, people
  <2> QED
    BY <1>6, <2>1, <2>2, <2>3 DEF FindTestUser
<1>7. CASE AddTestUser(r)
  <2>1. CASE Close(r)
    BY <1>7, <1>c, <1>n, <2>1 DEF AddTestUser
  <2>2. CASE ~Close(r)
    <3> DEFINE e == Head(x.left)
    <3>1. /\ y = [[x EXCEPT !.tests = @ \cup {e}] EXCEPT !.left = Tail(@), !.pc = "findTest"]
          /\ UNCHANGED <<people, courses, overlap>>
          /\ ~Pending(e, r) /\ \A u \in users : u.email # e
      BY <1>7, <1>x, <2>2 DEF AddTestUser, NextTest
    <3> HIDE DEF e
    <3>2. y.tests = x.tests \cup {e}
      BY <1>x, <3>1 DEF Request
    <3>3. \A f \in y.tests : /\ \A u \in users : u.email # f
                             /\ \A q \in Requests \ {r} : f \notin req[q].tests
      BY <1>e, <3>1, <3>2 DEF Pending
    <3> QED
      BY <1>0, <1>x, <1>e, <3>1, <3>3, MovesTypeInv DEF people, courses
  <2> QED
    BY <2>1, <2>2
<1>8. CASE UpdateUser(r)
  <2>1. /\ users' = {IF u.email = x.email THEN Updated(u, r) ELSE u : u \in users}
        /\ groups' = GroupsWith(r) /\ y.tests = {} /\ UNCHANGED <<courses, overlap>>
    BY <1>8, <1>c DEF UpdateUser
  <2>2. \A u \in users : Updated(u, r) \in User /\ Updated(u, r).email = u.email
    <3> TAKE u \in users
    <3> DEFINE role == IF x.role = None THEN u.role ELSE x.role
               group == IF x.group = None THEN u.group ELSE x.group
    <3>1. u \in User /\ role \in AnyRole \cup {None} /\ group \in GroupName \cup {None}
      BY <1>x DEF User, Request
    <3>2. Updated(u, r) = [u EXCEPT !.role = role, !.group = group]
      BY <3>1 DEF Updated, User
    <3> HIDE DEF role, group
    <3> QED
      BY <3>1, <3>2 DEF User
  <2>3. /\ users' \subseteq User
        /\ \A u \in users' : \E v \in users : u.email = v.email /\
              u = IF v.email = x.email THEN Updated(v, r) ELSE v
    BY <1>x, <2>1, <2>2
  <2>4. \A u, v \in users' : u.email = v.email => u = v
    BY <1>x, <2>3
  <2>5. groups' \subseteq GroupName
    BY <1>x, <2>1 DEF GroupsWith, Locals, PersonLocals, Request
  <2>6. \A q \in Requests \ {r} : \A e \in req[q].tests : \A u \in users' : u.email # e
    BY <1>e, <2>3
  <2> QED
    BY <1>0, <1>x, <2>1, <2>3, <2>4, <2>5, <2>6, MovesTypeInv DEF courses
\* A step that changes disciplines, links and assignments only
<1>d. ASSUME disciplines' \subseteq Discipline, links' \subseteq Link,
             assignments' \subseteq Assignment, UNCHANGED <<people, overlap>>,
             y.tests = {}
      PROVE  TypeInv'
  BY <1>0, <1>x, <1>e, <1>d, MovesTypeInv DEF people
<1>9. CASE FindAssignment(r)
  <2>1. Close(r) \/ \E pc \in Steps : Goto(r, pc)
    BY <1>9 DEF FindAssignment, AfterFind, Steps
  <2> QED
    BY <1>9, <1>c, <1>g, <1>n, <2>1 DEF FindAssignment
<1>10. CASE FindDiscipline(r)
  <2>1. x.pc = "discipline" /\ x.tests = {} /\ UNCHANGED <<people, courses, overlap>>
    BY <1>10, <1>x DEF FindDiscipline, Locals, PersonLocals
  <2>2. y.tests = {}
    <3>1. x.kind # "test"
      BY <1>x, <2>1 DEF Locals, CourseLocals
    <3> QED
      BY <1>0, <3>1 DEF Moves, Locals, PersonLocals
  <2> QED
    BY <1>n, <2>1, <2>2
<1>h. /\ x.newDiscipline => x.discipline = r /\ x.name \in Names /\ x.teacher \in Teachers
      /\ DisciplinesWith(r) \subseteq Discipline /\ LinksWith(r) \subseteq Link
  <2>1. x.newDiscipline => x.discipline = r /\ x.name \in Names /\ x.teacher \in Teachers
    BY <1>x DEF Locals, CourseLocals, Request, Editing
  <2> QED
    BY <1>x, <2>1 DEF DisciplinesWith, LinksWith, OwnLink, Discipline, Link
<1>11. CASE InsertAssignment(r)
  <2>1. CASE DisciplineExists(r, x.discipline)
    <3> DEFINE a == [id |-> r, discipline |-> x.discipline, start |-> x.start, due |-> x.due]
    <3>1. /\ assignments' = assignments \cup {a}
          /\ disciplines' = DisciplinesWith(r) /\ links' = LinksWith(r)
          /\ y.tests = {} /\ UNCHANGED <<people, overlap>> /\ x.pc = "insert"
      BY <1>11, <1>c, <2>1 DEF InsertAssignment
    <3>2. x.discipline \in Requests /\ x.start \in Dates /\ x.due \in Dates
      BY <1>x, <3>1 DEF Locals, CourseLocals, Request
    <3>3. a \in Assignment
      BY <3>2 DEF Assignment
    <3> HIDE DEF a
    <3> QED
      BY <1>d, <1>h, <1>x, <3>1, <3>3
  <2>2. CASE ~DisciplineExists(r, x.discipline)
    BY <1>11, <1>c, <1>n, <2>2 DEF InsertAssignment
  <2> QED
    BY <2>1, <2>2
<1>12. CASE UpdateAssignment(r)
  <2>0. x.pc = "update" /\ y.tests = {} /\ UNCHANGED <<people, overlap>>
    BY <1>12, <1>c DEF UpdateAssignment
  <2>1. CASE UNCHANGED courses
    BY <1>n, <2>0, <2>1
  <2>2. CASE ~UNCHANGED courses
    <3> DEFINE hit == {a \in assignments : a.id = x.target}
    <3>1. /\ assignments' = (assignments \ hit) \cup {Edited(a, r) : a \in hit}
          /\ disciplines' = DisciplinesWith(r) /\ links' = LinksWith(r)
      BY <1>12, <2>2 DEF UpdateAssignment
    <3>2. \A a \in assignments : Edited(a, r) \in Assignment
      <4> TAKE a \in assignments
      <4> DEFINE discipline == Given(x.discipline, a.discipline)
                 start == Given(x.start, a.start)
                 due == Given(x.due, a.due)
      <4>1. /\ a \in Assignment /\ discipline \in Requests
            /\ start \in Dates /\ due \in Dates
        BY <1>x DEF Given, Assignment, Request
      <4>2. Edited(a, r) = [a EXCEPT !.discipline = discipline, !.start = start, !.due = due]
        BY <4>1 DEF Edited, Assignment
      <4> HIDE DEF discipline, start, due
      <4> QED
        BY <4>1, <4>2 DEF Assignment
    <3> QED
      BY <1>d, <1>h, <1>x, <2>0, <3>1, <3>2
  <2> QED
    BY <2>1, <2>2
<1>13. CASE Rename(r)
  <2>1. y.tests = {} /\ UNCHANGED <<people, links, assignments, overlap>>
    BY <1>13, <1>c DEF Rename
  <2>2. disciplines' \subseteq Discipline
    <3>1. x.name \in Names
      BY <1>13, <1>x DEF Rename, Locals, CourseLocals, Request
    <3>2. \A d \in disciplines : [d EXCEPT !.name = x.name] \in Discipline
      BY <1>x, <3>1 DEF Discipline
    <3> QED
      BY <1>13, <1>x, <3>2 DEF Rename
  <2> QED
    BY <1>d, <1>x, <2>1, <2>2
<1>14. CASE CheckOwner(r) \/ CheckDeletion(r) \/ Unlink(r) \/ SelectLinks(r)
  <2>1. Close(r) \/ \E pc \in Steps : Goto(r, pc)
    BY <1>14 DEF CheckOwner, CheckDeletion, Unlink, SelectLinks, Steps
  <2> QED
    BY <1>14, <1>c, <1>g, <1>n, <2>1 DEF CheckOwner, CheckDeletion, Unlink, SelectLinks
<1>15. CASE KeepDiscipline(r) \/ DropDiscipline(r)
  <2>1. /\ y.tests = {} /\ UNCHANGED <<people, assignments, overlap>>
        /\ links' \subseteq links /\ disciplines' \subseteq disciplines
    BY <1>15, <1>c DEF KeepDiscipline, DropDiscipline
  <2> QED
    BY <1>d, <1>x, <2>1
<1>16. CASE Abort(r)
  BY <1>16, <1>c, <1>n DEF Abort, Fails
<1> QED
  BY <1>1, <1>2, <1>3, <1>4, <1>5, <1>6, <1>7, <1>8, <1>9, <1>10, <1>11, <1>12, <1>13,
     <1>14, <1>15, <1>16 DEF Step

LEMMA NextTypeInv == TypeInv /\ [Next]_vars => TypeInv'
<1> SUFFICES ASSUME TypeInv, [Next]_vars PROVE TypeInv'
  OBVIOUS
<1>1. CASE Next
  <2>1. ASSUME NEW r \in Requests, NEW t \in Teachers, NEW name \in Names,
               CreateDiscipline(r, t, name)
        PROVE  TypeInv'
    <3> DEFINE y == [Idle EXCEPT !.pc = "closed"]
    <3>1. /\ req' = [req EXCEPT ![r] = y] /\ y \in Request /\ y.tests = {}
          /\ UNCHANGED <<groups, users, assignments, overlap>> /\ Locals(r, y)
      BY <2>1, ClosedType, ClosedLocals DEF CreateDiscipline, Close, people
    <3> HIDE DEF y
    <3>2. /\ req' \in [Requests -> Request] /\ req'[r] = y
          /\ \A q \in Requests \ {r} : req'[q] = req[q]
      BY <3>1 DEF TypeInv, TypeOK
    <3>3. disciplines' \subseteq Discipline /\ links' \subseteq Link
      BY <2>1 DEF CreateDiscipline, TypeInv, TypeOK, Discipline, Link
    <3>4. TypeOK'
      BY <3>1, <3>2, <3>3 DEF TypeInv, TypeOK
    <3>5. (\A q \in Requests : Locals(q, req'[q])) /\ TestsApart'
      BY <3>1, <3>2 DEF TypeInv, TestsApart
    <3> QED
      BY <3>4, <3>5 DEF TypeInv
  <2>2. CASE AdminNext
    <3>1. /\ UNCHANGED <<groups, users, disciplines, req, overlap>>
          /\ links' \subseteq Link /\ assignments' \subseteq assignments
      BY <2>2 DEF AdminNext, ShareDiscipline, EraseAssignment, people, TypeInv, TypeOK,
                  Link, Discipline
    <3> QED
      BY <3>1 DEF TypeInv, TypeOK, TestsApart
  <2> QED
    BY <1>1, <2>1, <2>2, NextCases, BeginsTypeInv, StepTypeInv
<1>2. CASE UNCHANGED vars
  BY <1>2 DEF vars, people, courses, TypeInv, TypeOK, TestsApart
<1> QED
  BY <1>1, <1>2

LEMMA TypeInvariant == Spec => []TypeInv
BY InitTypeInv, NextTypeInv, PTL DEF Spec

\* Rows and requests keep their types, and no two accounts have one e-mail: an
\* insertion waits for those of the same e-mail and fails when they commit
\* (Registry.TypeOK).
THEOREM RegistryTypeCorrect == Spec => []TypeOK
<1>1. TypeInv => TypeOK
  BY DEF TypeInv
<1> QED
  BY <1>1, TypeInvariant, PTL

----
(***************************************************************************)
(* Groups.                                                                 *)
(***************************************************************************)

\* The user whose profile is being changed is still there.
ProfileInv ==
    \A r \in Requests : req[r].pc \in Steps /\ req[r].kind = "profile" =>
        \E u \in users : u.email = req[r].email

LEMMA UsersStay ==
    ASSUME TypeInv, [Next]_vars
    PROVE  \A u \in users : \E v \in users' : v.email = u.email
<1>1. ASSUME NEW r \in Requests, UpdateUser(r)
      PROVE  \A u \in users : \E v \in users' : v.email = u.email
  <2>1. users' = {IF u.email = req[r].email THEN Updated(u, r) ELSE u : u \in users}
    BY <1>1 DEF UpdateUser
  <2>2. \A u \in users : Updated(u, r).email = u.email
    BY DEF TypeInv, TypeOK, User, Updated
  <2> QED
    BY <2>1, <2>2
<1>2. UNCHANGED users \/ (\E S : users' = users \cup S) \/ \E r \in Requests : UpdateUser(r)
  <2>1. ASSUME NEW r \in Requests, Step(r), ~UpdateUser(r)
        PROVE  UNCHANGED users \/ \E S : users' = users \cup S
    BY <2>1 DEF Step, LookUpUser, FindGroup, AddGroup, AddUser, AddGoogleUser, FindTestUser,
         AddTestUser, FindAssignment, FindDiscipline, InsertAssignment, UpdateAssignment,
         Rename, CheckOwner, CheckDeletion, Unlink, SelectLinks, KeepDiscipline,
         DropDiscipline, Abort,
         Fails, people
  <2>2. ASSUME ~\E r \in Requests : Step(r) PROVE UNCHANGED users
    <3>1. CASE UNCHANGED vars
      BY <3>1 DEF vars, people
    <3>2. CASE Next
      BY <3>2, <2>2, NextCases DEF Begins, Begin, CreateDiscipline, AdminNext, ShareDiscipline,
           EraseAssignment, people
    <3> QED
      BY <3>1, <3>2
  <2> QED
    BY <2>1, <2>2
<1> QED
  BY <1>1, <1>2

LEMMA NextProfileInv == TypeInv /\ ProfileInv /\ [Next]_vars => ProfileInv'
<1> SUFFICES ASSUME TypeInv, ProfileInv, [Next]_vars PROVE ProfileInv'
  OBVIOUS
<1>1. ASSUME NEW r \in Requests, req'[r].pc \in Steps, req'[r].kind = "profile"
      PROVE  \E u \in users : u.email = req'[r].email
  <2>0. req \in [Requests -> Request]
    BY DEF TypeInv, TypeOK
  <2>1. CASE req'[r] = req[r]
    BY <1>1, <2>1 DEF ProfileInv
  <2>2. ASSUME NEW q \in Requests, NEW x \in Request, Begins(q, x), req'[r] # req[r]
        PROVE  \E u \in users : u.email = req'[r].email
    <3>1. r = q /\ req'[r] = x
      BY <2>0, <2>2 DEF Begins, Begin
    <3> QED
      BY <1>1, <2>2, <3>1 DEF Begins
  <2>3. ASSUME NEW q \in Requests, NEW y, Moves(q, y), req'[r] # req[r]
        PROVE  \E u \in users : u.email = req'[r].email
    <3>1. r = q /\ req'[r] = y
      BY <2>0, <2>3 DEF Moves
    <3> QED
      BY <1>1, <2>3, <3>1 DEF Moves, ProfileInv, Steps
  <2>4. ASSUME NEW q \in Requests, Close(q), req'[r] # req[r]
        PROVE  FALSE
    BY <1>1, <2>0, <2>4, ClosedType DEF Close, Steps
  <2>5. CASE Next
    BY <2>1, <2>2, <2>3, <2>4, <2>5, NextCases, StepMoves
       DEF CreateDiscipline, AdminNext, ShareDiscipline, EraseAssignment
  <2> QED
    BY <2>1, <2>5 DEF vars
<1> QED
  BY <1>1, UsersStay DEF ProfileInv

\* A group and the first user in it are committed together, by a registration or
\* by a change of profile of a user who is still there (Registry.NewGroupHasMember).
THEOREM NewGroupsHaveMembers == Spec => NewGroupHasMember
<1>1. Init => ProfileInv
  BY DEF Init, ProfileInv, Idle, Steps
<1>2. ASSUME TypeInv, ProfileInv, [Next]_vars
      PROVE  [\A g \in groups' \ groups : \E u \in users' : u.group = g]_vars
  <2>1. SUFFICES ASSUME NEW g \in groups', g \notin groups
                 PROVE  \E u \in users' : u.group = g
    OBVIOUS
  <2>2. PICK r \in Requests : AddUser(r) \/ UpdateUser(r)
    <3>1. CASE \E r \in Requests : Step(r)
      BY <2>1, <3>1 DEF Step, LookUpUser, FindGroup, AddGroup, AddGoogleUser, FindTestUser,
           AddTestUser, FindAssignment, FindDiscipline, InsertAssignment, UpdateAssignment,
           Rename, CheckOwner, CheckDeletion, Unlink, SelectLinks, KeepDiscipline,
           DropDiscipline, Abort,
           Fails, people
    <3>2. CASE UNCHANGED vars
      BY <2>1, <3>2 DEF vars, people
    <3>3. CASE Next /\ ~\E r \in Requests : Step(r)
      BY <1>2, <2>1, <3>3, NextCases DEF Begins, Begin, CreateDiscipline, AdminNext,
           ShareDiscipline, EraseAssignment, people
    <3> QED
      BY <1>2, <3>1, <3>2, <3>3
  <2>3. CASE AddUser(r)
    <3>1. /\ users' = users \cup {[email |-> req[r].email, role |-> req[r].role,
                                    group |-> req[r].group]}
          /\ g = req[r].group
      BY <2>1, <2>3 DEF AddUser, people, GroupsWith
    <3> DEFINE w == [email |-> req[r].email, role |-> req[r].role, group |-> req[r].group]
    <3>2. w \in users' /\ w.group = g
      BY <3>1
    <3> QED
      BY <3>2
  <2>4. CASE UpdateUser(r)
    <3>1. /\ g = req[r].group /\ req[r].newGroup /\ req[r].pc = "updateUser"
          /\ users' = {IF u.email = req[r].email THEN Updated(u, r) ELSE u : u \in users}
      BY <2>1, <2>4 DEF UpdateUser, GroupsWith
    <3>2. req[r].kind = "profile" /\ req[r].group # None
      BY <1>2, <3>1 DEF TypeInv, Locals, PersonLocals
    <3>3. PICK u \in users : u.email = req[r].email
      BY <1>2, <3>1, <3>2 DEF ProfileInv, Steps
    <3>4. Updated(u, r) \in users'
      BY <3>1, <3>3
    <3>5. Updated(u, r).group = g
      BY <1>2, <3>1, <3>2 DEF Updated, TypeInv, TypeOK, User
    <3> QED
      BY <3>4, <3>5
  <2> QED
    BY <2>2, <2>3, <2>4
<1> QED
  BY <1>1, <1>2, NextProfileInv, InitTypeInv, NextTypeInv, PTL DEF Spec, NewGroupHasMember

----
(***************************************************************************)
(* Disciplines.                                                            *)
(***************************************************************************)

IsDeletion(r) == req[r].pc \in Steps /\ req[r].kind = "delete"

\* Without overlapping deletions the links of others that a deletion has seen stay.
TaughtInv ==
    /\ \A l \in links : \E d \in disciplines : d.id = l.discipline
    /\ \A a \in assignments : \E d \in disciplines : d.id = a.discipline
    /\ "delete" \notin overlap =>
          /\ \A d \in disciplines : \E l \in links : l.discipline = d.id
          /\ \A q, r \in Requests : IsDeletion(q) /\ IsDeletion(r) => q = r
          /\ \A r \in Requests : req[r].pc = "keep" => OtherLinks(r) # {}

LEMMA OverlapGrows ==
    ASSUME TypeInv, [Next]_vars
    PROVE  overlap \subseteq overlap'
<1>1. ASSUME NEW r \in Requests, Step(r) PROVE overlap' = overlap
  BY <1>1 DEF Step, LookUpUser, FindGroup, AddGroup, AddUser, AddGoogleUser, FindTestUser,
       AddTestUser, UpdateUser, FindAssignment, FindDiscipline, InsertAssignment,
       UpdateAssignment, Rename, CheckOwner, CheckDeletion, Unlink, SelectLinks,
       KeepDiscipline,
       DropDiscipline, Abort, Fails
<1> QED
  BY <1>1, NextCases DEF vars, Begins, Begin, CreateDiscipline, AdminNext, ShareDiscipline,
       EraseAssignment

\* A request that now deletes did so before, or begins while no other one does.
LEMMA AloneStays ==
    ASSUME TypeInv, [Next]_vars, NEW kind \in {"delete", "edit"}, kind \notin overlap',
           \A q, r \in Requests :
               req[q].pc \in Steps /\ req[q].kind = kind
               /\ req[r].pc \in Steps /\ req[r].kind = kind => q = r
    PROVE  /\ kind \notin overlap
           /\ \A q, r \in Requests :
               req'[q].pc \in Steps /\ req'[q].kind = kind
               /\ req'[r].pc \in Steps /\ req'[r].kind = kind => q = r
<1>0. req \in [Requests -> Request]
  BY DEF TypeInv, TypeOK
<1>1. ASSUME NEW r \in Requests, NEW x \in Request, Begins(r, x)
      PROVE  /\ kind \notin overlap
             /\ \A q \in Requests \ {r} : req'[q] = req[q]
             /\ req'[r].kind = kind =>
                   \A q \in Requests : ~(req[q].pc \in Steps /\ req[q].kind = kind)
  BY <1>0, <1>1 DEF Begins, Begin, Running
<1>2. ASSUME NEW r \in Requests, NEW y, Moves(r, y), Step(r)
      PROVE  /\ overlap' = overlap
             /\ \A q \in Requests \ {r} : req'[q] = req[q]
             /\ req'[r].pc \in Steps => req[r].pc \in Steps /\ req'[r].kind = req[r].kind
  <2>1. overlap' = overlap
    BY <1>2 DEF Step, LookUpUser, FindGroup, AddGroup, AddUser, AddGoogleUser, FindTestUser,
         AddTestUser, UpdateUser, FindAssignment, FindDiscipline, InsertAssignment,
         UpdateAssignment, Rename, CheckOwner, CheckDeletion, Unlink, SelectLinks,
         KeepDiscipline,
         DropDiscipline, Abort, Fails
  <2> QED
    BY <1>0, <1>2, <2>1 DEF Moves, Steps
<1>3. ASSUME NEW r \in Requests, Close(r)
      PROVE  /\ \A q \in Requests \ {r} : req'[q] = req[q]
             /\ req'[r].pc \notin Steps
  BY <1>0, <1>3, ClosedType DEF Close, Steps
<1>4. CASE \E r \in Requests, x \in Request : Begins(r, x)
  BY <1>1, <1>4
<1>5. CASE \E r \in Requests : Step(r)
  BY <1>2, <1>5, StepMoves
<1>6. CASE \E r \in Requests, t \in Teachers, name \in Names : CreateDiscipline(r, t, name)
  <2>1. PICK r \in Requests : Close(r) /\ overlap' = overlap
    BY <1>6 DEF CreateDiscipline
  <2> QED
    BY <1>3, <2>1
<1>7. CASE AdminNext
  BY <1>7 DEF AdminNext, ShareDiscipline, EraseAssignment
<1>8. CASE UNCHANGED vars
  BY <1>8 DEF vars
<1> QED
  BY <1>4, <1>5, <1>6, <1>7, <1>8, NextCases

\* Only SelectLinks leads to "keep".
LEMMA KeepSelected ==
    ASSUME TypeInv, NEW r \in Requests, Step(r), req'[r].pc = "keep"
    PROVE  SelectLinks(r) /\ OtherLinks(r) # {}
<1>0. req \in [Requests -> Request] /\ Locals(r, req[r])
  BY DEF TypeInv, TypeOK
<1>1. PICK y : Moves(r, y)
  BY StepMoves
<1>2. req[r].pc \in Deleting
  <2>1. y.kind = "delete" /\ y.kind = req[r].kind
    BY <1>0, <1>1 DEF Moves, Locals, CourseLocals, Deleting
  <2> QED
    BY <1>0, <1>1, <2>1 DEF Moves, Locals, CourseLocals
<1>3. ~Close(r)
  BY <1>0, ClosedType DEF Close
<1>4. \A pc \in Steps : Goto(r, pc) => pc = "keep"
  BY <1>0, GotoRecord DEF Goto
<1>5. ~Goto(r, "name") /\ ~Goto(r, "unlink") /\ ~Goto(r, "links")
  BY <1>4 DEF Steps
<1>6. SelectLinks(r)
  BY <1>2, <1>3, <1>5 DEF Deleting, Step, LookUpUser, FindGroup, AddGroup, AddUser,
       AddGoogleUser, FindTestUser, AddTestUser, UpdateUser, FindAssignment, FindDiscipline,
       InsertAssignment, UpdateAssignment, Rename, CheckOwner, CheckDeletion, Unlink,
       KeepDiscipline,
       DropDiscipline, Abort, Fails
<1>7. CASE OtherLinks(r) = {}
  <2>1. Goto(r, "drop")
    BY <1>6, <1>7 DEF SelectLinks
  <2> QED
    BY <1>4, <2>1 DEF Steps
<1> QED
  BY <1>6, <1>7

\* The new discipline of r comes with its link.
LEMMA WithNewDiscipline ==
    ASSUME TypeInv, NEW r \in Requests
    PROVE  /\ \A l \in LinksWith(r) \ links :
                 \E d \in DisciplinesWith(r) : d.id = l.discipline
           /\ \A d \in DisciplinesWith(r) \ disciplines :
                 \E l \in LinksWith(r) : l.discipline = d.id
           /\ links \subseteq LinksWith(r) /\ disciplines \subseteq DisciplinesWith(r)
<1>1. req[r].newDiscipline => req[r].discipline = r
  BY DEF TypeInv, Locals, CourseLocals
<1>2. OwnLink(r).discipline = req[r].discipline
  BY DEF OwnLink
<1>3. CASE req[r].newDiscipline
  <2> DEFINE d == [id |-> r, name |-> req[r].name]
  <2>1. d.id = r /\ d \in DisciplinesWith(r) /\ OwnLink(r) \in LinksWith(r)
    BY <1>3 DEF DisciplinesWith, LinksWith
  <2>2. DisciplinesWith(r) = disciplines \cup {d} /\ LinksWith(r) = links \cup {OwnLink(r)}
    BY <1>3 DEF DisciplinesWith, LinksWith
  <2> HIDE DEF d
  <2> QED
    BY <1>1, <1>2, <1>3, <2>1, <2>2
<1>4. CASE ~req[r].newDiscipline
  BY <1>4 DEF LinksWith, DisciplinesWith
<1> QED
  BY <1>3, <1>4

\* What the steps do to disciplines, links and assignments, deletions apart.
LEMMA CoursesGrow ==
    ASSUME TypeInv, [Next]_vars,
           \A r \in Requests : ~KeepDiscipline(r) /\ ~DropDiscipline(r)
    PROVE  /\ links \subseteq links'
           /\ \A d \in disciplines : \E e \in disciplines' : e.id = d.id
           /\ \A l \in links' \ links : \E d \in disciplines' : d.id = l.discipline
           /\ \A d \in disciplines' : \/ \E l \in links' : l.discipline = d.id
                                      \/ \E e \in disciplines : e.id = d.id
           /\ \A a \in assignments' : \/ \E d \in disciplines' : d.id = a.discipline
                                      \/ \E b \in assignments : b.discipline = a.discipline
<1> DEFINE Goal ==
           /\ links \subseteq links'
           /\ \A d \in disciplines : \E e \in disciplines' : e.id = d.id
           /\ \A l \in links' \ links : \E d \in disciplines' : d.id = l.discipline
           /\ \A d \in disciplines' : \/ \E l \in links' : l.discipline = d.id
                                      \/ \E e \in disciplines : e.id = d.id
           /\ \A a \in assignments' : \/ \E d \in disciplines' : d.id = a.discipline
                                      \/ \E b \in assignments : b.discipline = a.discipline
<1>1. CASE UNCHANGED courses
  BY <1>1 DEF courses
<1>2. ASSUME NEW r \in Requests, NEW t \in Teachers, NEW name \in Names,
             CreateDiscipline(r, t, name)
      PROVE  Goal
  <2>1. /\ disciplines' = disciplines \cup {[id |-> r, name |-> name]}
        /\ links' = links \cup {[discipline |-> r, teacher |-> t]}
        /\ assignments' = assignments
    BY <1>2 DEF CreateDiscipline
  <2> DEFINE d == [id |-> r, name |-> name]
             l == [discipline |-> r, teacher |-> t]
  <2>2. d.id = r /\ l.discipline = r
    OBVIOUS
  <2> HIDE DEF d, l
  <2>3. disciplines' = disciplines \cup {d} /\ links' = links \cup {l}
    BY <2>1 DEF d, l
  <2> QED
    BY <2>1, <2>2, <2>3
<1>3. CASE AdminNext
  BY <1>3 DEF AdminNext, ShareDiscipline, EraseAssignment
<1>4. ASSUME NEW r \in Requests, InsertAssignment(r), ~UNCHANGED courses
      PROVE  Goal
  <2> DEFINE a == [id |-> r, discipline |-> req[r].discipline,
                   start |-> req[r].start, due |-> req[r].due]
  <2>1. /\ DisciplineExists(r, req[r].discipline)
        /\ assignments' = assignments \cup {a} /\ a.discipline = req[r].discipline
        /\ disciplines' = DisciplinesWith(r) /\ links' = LinksWith(r)
    BY <1>4 DEF InsertAssignment
  <2> HIDE DEF a
  <2> QED
    BY <2>1, WithNewDiscipline DEF DisciplineExists
<1>5. ASSUME NEW r \in Requests, UpdateAssignment(r), ~UNCHANGED courses
      PROVE  Goal
  <2> DEFINE hit == {a \in assignments : a.id = req[r].target}
  <2>1. /\ hit = {} \/ req[r].discipline = None \/ DisciplineExists(r, req[r].discipline)
        /\ assignments' = (assignments \ hit) \cup {Edited(a, r) : a \in hit}
        /\ disciplines' = DisciplinesWith(r) /\ links' = LinksWith(r)
    BY <1>5 DEF UpdateAssignment
  <2>2. \A a \in assignments : Edited(a, r).discipline = Given(req[r].discipline, a.discipline)
    <3> TAKE a \in assignments
    <3> DEFINE discipline == Given(req[r].discipline, a.discipline)
               start == Given(req[r].start, a.start)
               due == Given(req[r].due, a.due)
    <3>1. a \in Assignment
      BY DEF TypeInv, TypeOK
    <3>2. Edited(a, r) = [a EXCEPT !.discipline = discipline, !.start = start, !.due = due]
      BY <3>1 DEF Edited, Assignment
    <3> HIDE DEF discipline, start, due
    <3>3. Edited(a, r).discipline = discipline
      BY <3>1, <3>2 DEF Assignment
    <3> QED
      BY <3>3 DEF discipline
  <2>3. \A a \in assignments' : \/ \E d \in disciplines' : d.id = a.discipline
                                \/ \E b \in assignments : b.discipline = a.discipline
    BY <2>1, <2>2 DEF Given, DisciplineExists
  <2> QED
    BY <2>1, <2>3, WithNewDiscipline
<1>6. ASSUME NEW r \in Requests, Rename(r), ~UNCHANGED courses
      PROVE  Goal
  <2>1. /\ disciplines' = {IF d.id = req[r].discipline THEN [d EXCEPT !.name = req[r].name]
                           ELSE d : d \in disciplines}
        /\ links' = links /\ assignments' = assignments
    BY <1>6 DEF Rename, courses
  <2>2. \A d \in disciplines : [d EXCEPT !.name = req[r].name].id = d.id
    BY DEF TypeInv, TypeOK, Discipline
  <2> QED
    BY <2>1, <2>2
<1>7. ASSUME NEW r \in Requests, Step(r), ~UNCHANGED courses
      PROVE  InsertAssignment(r) \/ UpdateAssignment(r) \/ Rename(r)
  BY <1>7 DEF Step, LookUpUser, FindGroup, AddGroup, AddUser, AddGoogleUser, FindTestUser,
       AddTestUser, UpdateUser, FindAssignment, FindDiscipline, CheckOwner, CheckDeletion,
       Unlink,
       SelectLinks, Abort, Fails
<1>8. CASE \E r \in Requests, x \in Request : Begins(r, x)
  BY <1>1, <1>8 DEF Begins, Begin
<1> QED
  BY <1>1, <1>2, <1>3, <1>4, <1>5, <1>6, <1>7, <1>8, NextCases DEF vars

\* ... and the steps that end a deletion
LEMMA DeletionEnds ==
    ASSUME TypeInv, NEW r \in Requests, KeepDiscipline(r) \/ DropDiscipline(r)
    PROVE  /\ IsDeletion(r) /\ req'[r].pc = "closed"
           /\ \A q \in Requests \ {r} : req'[q] = req[q]
           /\ assignments' = assignments /\ overlap' = overlap
           /\ \/ UNCHANGED courses
              \/ /\ disciplines' = disciplines /\ links' = links \ {OwnLink(r)}
                 /\ req[r].pc = "keep"
              \/ /\ links' = links \ {OwnLink(r)} /\ OtherLinks(r) = {}
                 /\ \A a \in assignments : a.discipline # req[r].discipline
                 /\ disciplines' = {d \in disciplines : d.id # req[r].discipline}
<1>1. req \in [Requests -> Request] /\ Locals(r, req[r])
  BY DEF TypeInv, TypeOK
<1>2. /\ req'[r].pc = "closed" /\ \A q \in Requests \ {r} : req'[q] = req[q]
  BY <1>1, ClosedType DEF KeepDiscipline, DropDiscipline, Close
<1>3. IsDeletion(r)
  BY <1>1 DEF KeepDiscipline, DropDiscipline, IsDeletion, Steps, Locals, CourseLocals, Deleting
<1> QED
  BY <1>2, <1>3 DEF KeepDiscipline, DropDiscipline, courses

LEMMA NextTaughtInv == TypeInv /\ TaughtInv /\ [Next]_vars => TaughtInv'
<1> SUFFICES ASSUME TypeInv, TaughtInv, [Next]_vars PROVE TaughtInv'
  OBVIOUS
<1>0. req \in [Requests -> Request]
  BY DEF TypeInv, TypeOK
<1>1. CASE \A r \in Requests : ~KeepDiscipline(r) /\ ~DropDiscipline(r)
  <2>1. /\ \A l \in links' : \E d \in disciplines' : d.id = l.discipline
        /\ \A a \in assignments' : \E d \in disciplines' : d.id = a.discipline
    BY <1>1, CoursesGrow DEF TaughtInv
  <2>2. ASSUME "delete" \notin overlap'
        PROVE  /\ \A d \in disciplines' : \E l \in links' : l.discipline = d.id
               /\ \A q, r \in Requests : IsDeletion(q)' /\ IsDeletion(r)' => q = r
               /\ \A r \in Requests : req'[r].pc = "keep" => OtherLinks(r)' # {}
    <3>1. /\ "delete" \notin overlap
          /\ \A q, r \in Requests : IsDeletion(q)' /\ IsDeletion(r)' => q = r
      <4>1. "delete" \notin overlap
        BY <2>2, OverlapGrows
      <4> QED
        BY <2>2, <4>1, AloneStays DEF TaughtInv, IsDeletion
    <3>2. \A d \in disciplines' : \E l \in links' : l.discipline = d.id
      BY <1>1, <3>1, CoursesGrow DEF TaughtInv
    <3>3. ASSUME NEW r \in Requests, req'[r].pc = "keep"
          PROVE  OtherLinks(r)' # {}
      <4>1. links \subseteq links'
        BY <1>1, CoursesGrow
      <4>2. CASE req'[r] = req[r]
        BY <3>1, <3>3, <4>1, <4>2 DEF TaughtInv, OtherLinks, OwnLink
      <4>3. CASE Step(r)
        <5>1. SelectLinks(r) /\ OtherLinks(r) # {}
          BY <3>3, <4>3, KeepSelected
        <5>2. req'[r].discipline = req[r].discipline /\ req'[r].teacher = req[r].teacher
          BY <1>0, <5>1, GotoRecord DEF SelectLinks, Goto, Steps
        <5> QED
          BY <4>1, <5>1, <5>2 DEF OtherLinks, OwnLink
      <4>4. ASSUME NEW q \in Requests, Step(q), q # r PROVE req'[r] = req[r]
        BY <1>0, <4>4, StepMoves DEF Moves
      <4>5. ASSUME NEW q \in Requests, NEW x \in Request, Begins(q, x)
            PROVE  req'[r] = req[r]
        BY <1>0, <3>3, <4>5 DEF Begins, Begin, Deleting
      <4>6. ASSUME NEW q \in Requests, Close(q) PROVE req'[r] = req[r]
        BY <1>0, <3>3, <4>6, ClosedType DEF Close
      <4>7. CASE UNCHANGED vars \/ AdminNext
        BY <4>2, <4>7 DEF vars, AdminNext, ShareDiscipline, EraseAssignment
      <4> QED
        BY <4>2, <4>3, <4>4, <4>5, <4>6, <4>7, NextCases DEF CreateDiscipline
    <3> QED
      BY <3>1, <3>2, <3>3
  <2> QED
    BY <2>1, <2>2 DEF TaughtInv
<1>2. ASSUME NEW r \in Requests, KeepDiscipline(r) \/ DropDiscipline(r)
      PROVE  TaughtInv'
  <2>1. /\ IsDeletion(r) /\ req'[r].pc = "closed"
        /\ \A q \in Requests \ {r} : req'[q] = req[q]
        /\ assignments' = assignments /\ overlap' = overlap
    BY <1>2, DeletionEnds
  <2>2. CASE UNCHANGED courses
    <3>1. \A q \in Requests : req'[q].pc = "keep" => OtherLinks(q)' = OtherLinks(q)
      BY <2>1, <2>2 DEF OtherLinks, OwnLink, courses
    <3>2. \A q \in Requests : req'[q].pc = "keep" => req[q].pc = "keep"
      BY <2>1
    <3>3. \A q \in Requests : IsDeletion(q)' => IsDeletion(q)
      BY <2>1 DEF IsDeletion, Steps
    <3> QED
      BY <2>1, <2>2, <3>1, <3>2, <3>3 DEF TaughtInv, courses
  <2>3. "delete" \notin overlap' =>
          /\ \A p, q \in Requests : IsDeletion(p)' /\ IsDeletion(q)' => p = q
          /\ \A q \in Requests : req'[q].pc # "keep"
    <3> SUFFICES ASSUME "delete" \notin overlap'
                 PROVE  /\ \A p, q \in Requests : IsDeletion(p)' /\ IsDeletion(q)' => p = q
                        /\ \A q \in Requests : req'[q].pc # "keep"
      OBVIOUS
    <3>1. \A q \in Requests \ {r} : ~IsDeletion(q)
      BY <2>1 DEF TaughtInv
    <3>2. \A q \in Requests : req[q].pc = "keep" => IsDeletion(q)
      BY DEF TypeInv, Locals, CourseLocals, Deleting, IsDeletion, Steps
    <3> QED
      BY <2>1, <3>1, <3>2 DEF IsDeletion, Steps
  <2>4. CASE /\ disciplines' = disciplines /\ links' = links \ {OwnLink(r)}
             /\ req[r].pc = "keep"
    <3>1. "delete" \notin overlap =>
             \A d \in disciplines : \E l \in links' : l.discipline = d.id
      <4> SUFFICES ASSUME "delete" \notin overlap, NEW d \in disciplines
                   PROVE  \E l \in links' : l.discipline = d.id
        OBVIOUS
      <4>1. CASE d.id = req[r].discipline
        BY <2>4, <4>1 DEF TaughtInv, OtherLinks
      <4>2. CASE d.id # req[r].discipline
        BY <2>4, <4>2 DEF TaughtInv, OwnLink
      <4> QED
        BY <4>1, <4>2
    <3> QED
      BY <2>1, <2>3, <2>4, <3>1 DEF TaughtInv
  <2>5. CASE /\ links' = links \ {OwnLink(r)} /\ OtherLinks(r) = {}
             /\ \A a \in assignments : a.discipline # req[r].discipline
             /\ disciplines' = {d \in disciplines : d.id # req[r].discipline}
    <3>1. \A l \in links' : l.discipline # req[r].discipline
      BY <2>5 DEF OtherLinks
    <3>2. /\ \A l \in links' : \E d \in disciplines' : d.id = l.discipline
          /\ \A a \in assignments' : \E d \in disciplines' : d.id = a.discipline
      BY <2>1, <2>5, <3>1 DEF TaughtInv
    <3>3. "delete" \notin overlap =>
             \A d \in disciplines' : \E l \in links' : l.discipline = d.id
      BY <2>5 DEF TaughtInv, OwnLink
    <3> QED
      BY <2>1, <2>3, <3>2, <3>3 DEF TaughtInv
  <2> QED
    BY <1>2, <2>2, <2>4, <2>5, DeletionEnds
<1> QED
  BY <1>1, <1>2

\* As long as deletions do not overlap every discipline keeps a teacher; links and
\* assignments always have their discipline, since a deletion fails on a row that was
\* added after its checks (Registry.DisciplinesTaught).
THEOREM DisciplinesStayTaught == Spec => []DisciplinesTaught
<1>1. Init => TaughtInv
  BY DEF Init, TaughtInv, IsDeletion, Idle, Steps
<1>2. TaughtInv => DisciplinesTaught
  BY DEF TaughtInv, DisciplinesTaught
<1> QED
  BY <1>1, <1>2, NextTaughtInv, InitTypeInv, NextTypeInv, PTL DEF Spec

----
(***************************************************************************)
(* Dates.                                                                  *)
(***************************************************************************)

IsEdit(r) == req[r].pc \in Steps /\ req[r].kind = "edit"

\* The dates of a after the edit x
Ordered(x, a) == Given(x.start, a.start) <= Given(x.due, a.due)

\* Without overlapping edits what an edit was checked against is what it changes.
DatesInv ==
    /\ \A a, b \in assignments : a.id = b.id => a = b
    /\ \A a \in assignments : req[a.id].pc = "closed"
    /\ \A r \in Requests : IsEdit(r) =>
          req[r].target \in Requests /\ req[req[r].target].pc = "closed"
    /\ "edit" \notin overlap =>
          /\ \A a \in assignments : a.start <= a.due
          /\ \A q, r \in Requests : IsEdit(q) /\ IsEdit(r) => q = r
          /\ \A r \in Requests : IsEdit(r) /\ req[r].pc # "find" =>
                \A a \in assignments : a.id = req[r].target => Ordered(req[r], a)

\* Who changes the assignments, and what else a step may do
LEMMA AssignmentSteps ==
    ASSUME TypeInv, [Next]_vars
    PROVE  \/ assignments' \subseteq assignments
           \/ \E r \in Requests : InsertAssignment(r) \/ UpdateAssignment(r)
<1>1. ASSUME NEW r \in Requests, Step(r), ~InsertAssignment(r), ~UpdateAssignment(r)
      PROVE  assignments' = assignments
  BY <1>1 DEF Step, LookUpUser, FindGroup, AddGroup, AddUser, AddGoogleUser, FindTestUser,
       AddTestUser, UpdateUser, FindAssignment, FindDiscipline, Rename, CheckOwner,
       CheckDeletion, Unlink,
       SelectLinks, KeepDiscipline, DropDiscipline, Abort, Fails, courses
<1> QED
  BY <1>1, NextCases DEF vars, courses, Begins, Begin, CreateDiscipline, AdminNext,
       ShareDiscipline, EraseAssignment

\* A step of a request or of nobody: who is closed stays closed, and an edit was one
\* before or begins with the identifier of a row.
LEMMA RequestSteps ==
    ASSUME TypeInv, [Next]_vars
    PROVE  /\ \A r \in Requests : req[r].pc = "closed" => req'[r].pc = "closed"
           /\ \A r \in Requests : IsEdit(r)' =>
                 \/ IsEdit(r) /\ req'[r].target = req[r].target
                 \/ /\ req'[r].pc = "find"
                    /\ \E a \in assignments : a.id = req'[r].target
<1>0. req \in [Requests -> Request]
  BY DEF TypeInv, TypeOK
<1> DEFINE Goal(r) ==
             /\ req[r].pc = "closed" => req'[r].pc = "closed"
             /\ IsEdit(r)' =>
                 \/ IsEdit(r) /\ req'[r].target = req[r].target
                 \/ /\ req'[r].pc = "find"
                    /\ \E a \in assignments : a.id = req'[r].target
<1> SUFFICES ASSUME NEW r \in Requests PROVE Goal(r)
  OBVIOUS
<1>1. CASE req'[r] = req[r]
  BY <1>1 DEF IsEdit
<1>2. ASSUME NEW q \in Requests, NEW x \in Request, Begins(q, x) PROVE Goal(r)
  <2>1. CASE q = r
    BY <1>0, <1>2, <2>1 DEF Begins, Begin, IsEdit
  <2>2. CASE q # r
    BY <1>0, <1>1, <1>2, <2>2 DEF Begins, Begin
  <2> QED
    BY <2>1, <2>2
<1>3. ASSUME NEW q \in Requests, NEW y, Moves(q, y) PROVE Goal(r)
  <2>1. CASE q = r
    BY <1>0, <1>3, <2>1 DEF Moves, IsEdit, Steps
  <2>2. CASE q # r
    BY <1>0, <1>1, <1>3, <2>2 DEF Moves
  <2> QED
    BY <2>1, <2>2
<1>4. ASSUME NEW q \in Requests, Close(q) PROVE Goal(r)
  <2>1. CASE q = r
    BY <1>0, <1>4, <2>1, ClosedType DEF Close, IsEdit, Steps
  <2>2. CASE q # r
    BY <1>0, <1>1, <1>4, <2>2 DEF Close
  <2> QED
    BY <2>1, <2>2
<1> QED
  BY <1>1, <1>2, <1>3, <1>4, NextCases, StepMoves
     DEF vars, CreateDiscipline, AdminNext, ShareDiscipline, EraseAssignment

\* An edit past "find" was checked there, or was past it already.
LEMMA EditChecked ==
    ASSUME TypeInv, [Next]_vars, NEW r \in Requests, IsEdit(r)', req'[r].pc # "find"
    PROVE  /\ IsEdit(r)
           /\ req'[r].target = req[r].target
           /\ req'[r].start = req[r].start /\ req'[r].due = req[r].due
           /\ req[r].pc = "find" =>
                 FindAssignment(r) /\ \E a \in assignments : a.id = req[r].target
                                          /\ Given(req[r].start, a.start) < Given(req[r].due, a.due)
<1>0. req \in [Requests -> Request] /\ Locals(r, req[r])
  BY DEF TypeInv, TypeOK
<1>1. CASE req'[r] = req[r]
  BY <1>1 DEF IsEdit
<1>2. ASSUME NEW q \in Requests, NEW x \in Request, Begins(q, x) PROVE req'[r] = req[r]
  BY <1>0, <1>2 DEF Begins, Begin, IsEdit
<1>3. ASSUME NEW q \in Requests, Close(q) PROVE req'[r] = req[r]
  BY <1>0, <1>3, ClosedType DEF Close, IsEdit, Steps
<1>4. ASSUME NEW q \in Requests, Step(q), q # r PROVE req'[r] = req[r]
  BY <1>0, <1>4, StepMoves DEF Moves
<1>5. ASSUME Step(r)
      PROVE  /\ IsEdit(r)
             /\ req'[r].target = req[r].target
             /\ req'[r].start = req[r].start /\ req'[r].due = req[r].due
             /\ req[r].pc = "find" =>
                 FindAssignment(r) /\ \E a \in assignments : a.id = req[r].target
                                          /\ Given(req[r].start, a.start) < Given(req[r].due, a.due)
  <2>1. PICK y : Moves(r, y)
    BY <1>5, StepMoves
  <2>2. /\ IsEdit(r) /\ req'[r].target = req[r].target
        /\ req'[r].start = req[r].start /\ req'[r].due = req[r].due
    BY <1>0, <2>1 DEF Moves, IsEdit, Steps
  <2>3. ~Close(r)
    BY <1>0, ClosedType DEF Close, IsEdit, Steps
  <2>4. req[r].pc = "find" => FindAssignment(r)
    BY <1>5, <2>3 DEF Step, LookUpUser, FindGroup, AddGroup, AddUser, AddGoogleUser,
         FindTestUser, AddTestUser, UpdateUser, FindDiscipline, InsertAssignment,
         UpdateAssignment, Rename, CheckOwner, CheckDeletion, Unlink, SelectLinks,
         KeepDiscipline,
         DropDiscipline, Abort, Fails
  <2> QED
    BY <2>2, <2>3, <2>4 DEF FindAssignment
<1> QED
  <2>1. req'[r] = req[r] \/ Step(r)
    BY <1>2, <1>3, <1>4, NextCases
       DEF vars, CreateDiscipline, AdminNext, ShareDiscipline, EraseAssignment
  <2> QED
    BY <1>1, <1>5, <2>1

LEMMA NextDatesInv == TypeInv /\ DatesInv /\ [Next]_vars => DatesInv'
<1> SUFFICES ASSUME TypeInv, DatesInv, [Next]_vars PROVE DatesInv'
  OBVIOUS
<1>0. /\ req \in [Requests -> Request] /\ assignments \subseteq Assignment
      /\ \A r \in Requests : Locals(r, req[r])
  BY DEF TypeInv, TypeOK
<1>1. \A r \in Requests : IsEdit(r)' =>
          req'[r].target \in Requests /\ req'[req'[r].target].pc = "closed"
  <2>1. \A a \in assignments : a.id \in Requests /\ req[a.id].pc = "closed"
    BY <1>0 DEF DatesInv, Assignment
  <2> QED
    BY <2>1, RequestSteps DEF DatesInv
<1>2. ASSUME "edit" \notin overlap'
      PROVE  /\ "edit" \notin overlap
             /\ \A q, r \in Requests : IsEdit(q)' /\ IsEdit(r)' => q = r
  <2>1. "edit" \notin overlap
    BY <1>2, OverlapGrows
  <2> QED
    BY <1>2, <2>1, AloneStays DEF DatesInv, IsEdit
\* What the edits past "find" were checked against, in the rows before the step
<1>3. ASSUME "edit" \notin overlap', NEW r \in Requests, IsEdit(r)', req'[r].pc # "find"
      PROVE  \A a \in assignments : a.id = req'[r].target => Ordered(req'[r], a)
  <2>1. /\ IsEdit(r) /\ req'[r].target = req[r].target
        /\ req'[r].start = req[r].start /\ req'[r].due = req[r].due
    BY <1>3, EditChecked
  <2>2. CASE req[r].pc # "find"
    BY <1>2, <1>3, <2>1, <2>2 DEF DatesInv, Ordered
  <2>3. CASE req[r].pc = "find"
    <3>1. PICK b \in assignments :
             b.id = req[r].target /\ Given(req[r].start, b.start) < Given(req[r].due, b.due)
      BY <1>3, <2>3, EditChecked
    <3>2. \A a \in assignments : a.id = req[r].target => a = b
      BY <3>1 DEF DatesInv
    <3>3. /\ b \in Assignment /\ req[r] \in Request
      BY <1>0
    <3>4. Given(req[r].start, b.start) \in Int /\ Given(req[r].due, b.due) \in Int
      BY <3>3, RegistryAssumption DEF Given, Assignment, Request, Dates
    <3>5. Given(req[r].start, b.start) <= Given(req[r].due, b.due)
      BY <3>1, <3>4
    <3> QED
      BY <2>1, <3>2, <3>5 DEF Ordered
  <2> QED
    BY <2>2, <2>3
<1>4. CASE assignments' \subseteq assignments
  <2>1. \A a \in assignments : a.id \in Requests
    BY <1>0 DEF Assignment
  <2> QED
    BY <1>1, <1>2, <1>3, <1>4, <2>1, RequestSteps DEF DatesInv
<1>5. ASSUME NEW r \in Requests, InsertAssignment(r), ~(assignments' \subseteq assignments)
      PROVE  DatesInv'
  <2> DEFINE a == [id |-> r, discipline |-> req[r].discipline,
                   start |-> req[r].start, due |-> req[r].due]
  <2>1. /\ assignments' = assignments \cup {a} /\ req[r].pc = "insert" /\ Close(r)
        /\ a.id = r /\ a.start = req[r].start /\ a.due = req[r].due
    BY <1>5 DEF InsertAssignment, courses
  <2> HIDE DEF a
  <2>2. a.start <= a.due
    BY <1>0, <2>1 DEF Locals, CourseLocals
  <2>3. req'[r].pc = "closed" /\ req[r].pc # "closed"
    BY <1>0, <2>1, ClosedType DEF Close
  <2>4. \A b \in assignments : b.id # r /\ b.id \in Requests
    BY <1>0, <2>3 DEF DatesInv, Assignment
  <2>5. \A q \in Requests : IsEdit(q)' /\ req'[q].pc # "find" => req'[q].target # r
    <3> SUFFICES ASSUME NEW q \in Requests, IsEdit(q)', req'[q].pc # "find"
                 PROVE  req'[q].target # r
      OBVIOUS
    <3>1. IsEdit(q) /\ req'[q].target = req[q].target
      BY EditChecked
    <3> QED
      BY <2>3, <3>1 DEF DatesInv
  <2> QED
    BY <1>1, <1>2, <1>3, <2>1, <2>2, <2>3, <2>4, <2>5, RequestSteps DEF DatesInv
<1>6. ASSUME NEW r \in Requests, UpdateAssignment(r), ~(assignments' \subseteq assignments)
      PROVE  DatesInv'
  <2> DEFINE hit == {a \in assignments : a.id = req[r].target}
  <2>1. /\ assignments' = (assignments \ hit) \cup {Edited(a, r) : a \in hit}
        /\ req[r].pc = "update" /\ Close(r)
    BY <1>6 DEF UpdateAssignment, courses
  <2>2. \A a \in assignments : /\ Edited(a, r).id = a.id
                               /\ Edited(a, r).start = Given(req[r].start, a.start)
                               /\ Edited(a, r).due = Given(req[r].due, a.due)
    <3> TAKE a \in assignments
    <3> DEFINE discipline == Given(req[r].discipline, a.discipline)
               start == Given(req[r].start, a.start)
               due == Given(req[r].due, a.due)
    <3>1. a \in Assignment
      BY <1>0
    <3>2. Edited(a, r) = [a EXCEPT !.discipline = discipline, !.start = start, !.due = due]
      BY <3>1 DEF Edited, Assignment
    <3> HIDE DEF discipline, start, due
    <3>3. Edited(a, r).id = a.id /\ Edited(a, r).start = start /\ Edited(a, r).due = due
      BY <3>1, <3>2 DEF Assignment
    <3> QED
      BY <3>3 DEF start, due
  <2>3. IsEdit(r) /\ req'[r].pc = "closed"
    BY <1>0, <2>1, ClosedType DEF IsEdit, Steps, Locals, CourseLocals, Close
  <2>4. \A b \in assignments' : \E a \in assignments :
            /\ b.id = a.id
            /\ \/ a.id # req[r].target /\ b = a
               \/ a.id = req[r].target /\ b = Edited(a, r)
    BY <2>1, <2>2
  <2>5. \A a, b \in assignments' : a.id = b.id => a = b
    BY <2>4 DEF DatesInv
  <2>6. \A a \in assignments' : a.id \in Requests /\ req'[a.id].pc = "closed"
    <3>1. \A a \in assignments : a.id \in Requests /\ req[a.id].pc = "closed"
      BY <1>0 DEF DatesInv, Assignment
    <3> QED
      BY <2>4, <3>1, RequestSteps
  <2>7. ASSUME "edit" \notin overlap'
        PROVE  /\ \A a \in assignments' : a.start <= a.due
               /\ \A q \in Requests : ~IsEdit(q)' \/ req'[q].pc = "find"
    <3>1. \A b \in assignments' : b.start <= b.due
      <4>1. \A a \in assignments : a.id = req[r].target => Ordered(req[r], a)
        BY <1>2, <2>1, <2>3, <2>7 DEF DatesInv
      <4>2. \A a \in assignments : a.start <= a.due
        BY <1>2, <2>7 DEF DatesInv
      <4> QED
        BY <2>2, <2>4, <4>1, <4>2 DEF Ordered
    <3>2. ASSUME NEW q \in Requests, IsEdit(q)', req'[q].pc # "find"
          PROVE  FALSE
      <4>1. IsEdit(q)
        BY <3>2, EditChecked
      <4>2. q = r
        BY <1>2, <2>3, <2>7, <4>1 DEF DatesInv
      <4> QED
        BY <2>3, <3>2, <4>2 DEF IsEdit, Steps
    <3> QED
      BY <3>1, <3>2
  <2> QED
    BY <1>1, <1>2, <2>5, <2>6, <2>7 DEF DatesInv
<1> QED
  BY <1>4, <1>5, <1>6, AssignmentSteps

\* As long as edits do not overlap no assignment begins after it ends: an edit gives
\* any of the two dates, is checked against the other one as it was read and is
\* written later (Registry.DatesOrdered).
THEOREM DatesStayOrdered == Spec => []DatesOrdered
<1>1. Init => DatesInv
  BY DEF Init, DatesInv, IsEdit, Idle, Steps
<1>2. DatesInv => DatesOrdered
  BY DEF DatesInv, DatesOrdered
<1> QED
  BY <1>1, <1>2, NextDatesInv, InitTypeInv, NextTypeInv, PTL DEF Spec
====
