---- MODULE Registry ----
(***************************************************************************)
(* The rows that everything else refers to: users and their groups,        *)
(* disciplines and their teachers, and of an assignment its discipline and *)
(* dates.  They are found, then inserted or changed, by requests that run  *)
(* as in Submissions: one transaction for each, suspended at every await.  *)
(*                                                                         *)
(* users, groups, disciplines, links and assignments are the COMMITTED     *)
(* rows; what a request has written and not committed is in its record.    *)
(* An insertion into a unique index waits for the transaction that         *)
(* inserted the same key and fails when that commits.  A write after which *)
(* the handler only returns is one step with the commit.  Disciplines and  *)
(* assignments are named by the request that inserted them, users by their *)
(* e-mail.  A date stands for a date with its time.                        *)
(* Definitions named ...Mutant are plausible bugs, as in Submissions.      *)
(***************************************************************************)
EXTENDS Integers, Sequences

CONSTANTS
    Requests,       \* requests, each made once
    Emails,         \* of people who register
    TestStudent,    \* two of the e-mails of POST /auth/test
    TestTutor,
    Numbers,        \* numbers of groups
    Teachers,       \* accounts of tutors that exist already
    Names,          \* names of disciplines
    MaxDate,        \* bound on the dates
    None            \* no request, no group, no value

ASSUME RegistryAssumption ==
    /\ TestStudent \in Emails /\ TestTutor \in Emails /\ TestStudent # TestTutor
    /\ MaxDate \in Nat \ {0}
    /\ None \notin Requests \cup Emails \cup Names \cup Teachers \cup Nat
    /\ None \notin [number: Numbers, upper: BOOLEAN]

VARIABLES
    groups,       \* rows of group
    users,        \* rows of user, without the tutors in Teachers
    disciplines,  \* rows of discipline
    links,        \* rows of discipline_teacher
    assignments,  \* rows of assignment
    req,          \* the requests: program counter, locals, uncommitted writes
    overlap       \* kinds of requests that have overlapped (history)

people == <<groups, users>>
courses == <<disciplines, links, assignments>>
vars == <<people, courses, req, overlap>>

Dates == 1..MaxDate

Roles == {"STUDENT", "TUTOR", "ADMIN"}

\* CompleteProfileSchema takes any string for a role.
AnyRole == Roles \cup {"OTHER"}

\* A group's number as it is typed; register_user puts it into upper case.
GroupName == [number: Numbers, upper: BOOLEAN]

Normalized(g) == [g EXCEPT !.upper = TRUE]

User == [email: Emails, role: AnyRole \cup {None}, group: GroupName \cup {None}]

Discipline == [id: Requests, name: Names]

Link == [discipline: Requests, teacher: Teachers]

Assignment == [id: Requests, discipline: Requests, start: Dates, due: Dates]

Kinds == {"register", "google", "test", "profile", "add", "edit", "rename", "delete"}

Steps == {"lookup", "findGroup", "addGroup", "addUser", "addGoogleUser", "findTest",
          "addTest", "updateUser", "find", "discipline", "insert", "update",
          "rename", "name", "check", "unlink", "links", "keep", "drop"}

Request == [pc: Steps \cup {"idle", "closed"}, kind: Kinds \cup {None},
            email: Emails \cup {None}, role: AnyRole \cup {None},
            group: GroupName \cup {None}, newGroup: BOOLEAN,
            tests: SUBSET Emails, left: Seq(Emails),
            teacher: Teachers \cup {None}, name: Names \cup {None},
            discipline: Requests \cup {None}, newDiscipline: BOOLEAN,
            target: Requests \cup {None},
            start: Dates \cup {None}, due: Dates \cup {None}]

Idle == [pc |-> "idle", kind |-> None, email |-> None, role |-> None,
         group |-> None, newGroup |-> FALSE, tests |-> {}, left |-> <<>>,
         teacher |-> None, name |-> None, discipline |-> None,
         newDiscipline |-> FALSE, target |-> None, start |-> None, due |-> None]

Running(r) == req[r].pc \in Steps

Goto(r, pc) == req' = [req EXCEPT ![r].pc = pc]

\* The session ends; what is not committed in this step is rolled back.
Close(r) == req' = [req EXCEPT ![r] = [Idle EXCEPT !.pc = "closed"]]

Fails(r) == Close(r) /\ UNCHANGED <<people, courses, overlap>>

\* Request r begins as x; requests of a kind are noted to overlap.
Begin(r, x) ==
    /\ req[r].pc = "idle"
    /\ req' = [req EXCEPT ![r] = x]
    /\ overlap' = overlap \cup {k \in {x.kind} : \E q \in Requests :
                                  Running(q) /\ req[q].kind = k}
    /\ UNCHANGED <<people, courses>>

----
(***************************************************************************)
(* Users and groups.                                                       *)
(***************************************************************************)

\* POST /auth/register; the group of a student may be absent (its validators do
\* not look at the default), that of others is dropped.
Register(r, e, role, g) ==
    Begin(r, [Idle EXCEPT !.pc = "lookup", !.kind = "register", !.email = e, !.role = role,
                          !.group = IF role = "STUDENT" /\ g # None THEN Normalized(g)
                                    ELSE None])

\* GET /auth/google/callback with the account of e
GoogleCallback(r, e) ==
    Begin(r, [Idle EXCEPT !.pc = "lookup", !.kind = "google", !.email = e])

\* POST /auth/test; the third test user is created as the second.
CreateTestUsers(r) ==
    Begin(r, [Idle EXCEPT !.pc = "findTest", !.kind = "test",
                          !.left = <<TestStudent, TestTutor>>])

\* PATCH /auth/me with a group, by a student; it keeps the role.
UpdateMe(r, u, g) ==
    /\ u \in users /\ u.role = "STUDENT"
    /\ Begin(r, [Idle EXCEPT !.pc = "findGroup", !.kind = "profile", !.email = u.email,
                             !.group = g])

\* POST /auth/google/complete with any role, by any user
CompleteProfile(r, u, role, g) ==
    /\ u \in users
    /\ Begin(r, [Idle EXCEPT !.kind = "profile", !.email = u.email, !.role = role,
                   !.pc = IF role = "STUDENT" /\ g # None THEN "findGroup" ELSE "updateUser",
                   !.group = IF role = "STUDENT" THEN g ELSE None])

\* The e-mail is taken: a registration is refused, a Google login goes on.
LookUpUser(r) ==
    /\ req[r].pc = "lookup"
    /\ IF \E u \in users : u.email = req[r].email
         THEN Close(r)
         ELSE Goto(r, CASE req[r].kind = "google" -> "addGoogleUser"
                        [] req[r].kind = "register" /\ req[r].role = "STUDENT" -> "findGroup"
                        [] OTHER -> "addUser")
    /\ UNCHANGED <<people, courses, overlap>>

AfterGroup(r) == IF req[r].kind = "register" THEN "addUser" ELSE "updateUser"

\* A student without a group: there is no row with the name NULL, and inserting
\* one fails.
FindGroup(r) ==
    /\ req[r].pc = "findGroup"
    /\ CASE req[r].group = None -> Close(r)
         [] req[r].group \in groups -> Goto(r, AfterGroup(r))
         [] OTHER -> Goto(r, "addGroup")
    /\ UNCHANGED <<people, courses, overlap>>

CommitGroupMutant(r) ==
    /\ req[r].pc = "addGroup"
    /\ \A q \in Requests \ {r} : ~(req[q].newGroup /\ req[q].group = req[r].group)
    /\ groups' = groups \cup {req[r].group}
    /\ Goto(r, AfterGroup(r))
    /\ UNCHANGED <<users, courses, overlap>>

AddGroup(r) ==
    /\ req[r].pc = "addGroup"
    /\ \A q \in Requests \ {r} : ~(req[q].newGroup /\ req[q].group = req[r].group)
    /\ IF req[r].group \in groups
         THEN Close(r)
         ELSE req' = [req EXCEPT ![r].pc = AfterGroup(r), ![r].newGroup = TRUE]
    /\ UNCHANGED <<people, courses, overlap>>

GroupsWith(r) == groups \cup IF req[r].newGroup THEN {req[r].group} ELSE {}

\* A test user of e is inserted and not committed.
Pending(e, r) == \E q \in Requests \ {r} : e \in req[q].tests

NotUniqueMutant(r) ==
    /\ req[r].pc = "addUser"
    /\ users' = users \cup {[email |-> req[r].email, role |-> req[r].role,
                             group |-> req[r].group]}
    /\ groups' = GroupsWith(r)
    /\ Close(r)
    /\ UNCHANGED <<courses, overlap>>

AddUser(r) ==
    /\ req[r].pc = "addUser" /\ ~Pending(req[r].email, r)
    /\ IF \E u \in users : u.email = req[r].email
         THEN UNCHANGED people
         ELSE /\ users' = users \cup {[email |-> req[r].email, role |-> req[r].role,
                                       group |-> req[r].group]}
              /\ groups' = GroupsWith(r)
    /\ Close(r)
    /\ UNCHANGED <<courses, overlap>>

\* A new user without role and group, who is asked to complete the profile.
AddGoogleUser(r) ==
    /\ req[r].pc = "addGoogleUser" /\ ~Pending(req[r].email, r)
    /\ IF \E u \in users : u.email = req[r].email
         THEN UNCHANGED users
         ELSE users' = users \cup {[email |-> req[r].email, role |-> None,
                                    group |-> None]}
    /\ Close(r)
    /\ UNCHANGED <<groups, courses, overlap>>

NextTest(r, x) ==
    req' = [req EXCEPT ![r] = [x EXCEPT !.left = Tail(@), !.pc = "findTest"]]

TestUser(e) ==
    [email |-> e, role |-> IF e = TestStudent THEN "STUDENT" ELSE "TUTOR", group |-> None]

FindTestUser(r) ==
    /\ req[r].pc = "findTest"
    /\ IF req[r].left = <<>>
         THEN /\ users' = users \cup {TestUser(e) : e \in req[r].tests}
              /\ Close(r)
         ELSE /\ IF \E u \in users : u.email = Head(req[r].left)
                   THEN NextTest(r, req[r])
                   ELSE Goto(r, "addTest")
              /\ UNCHANGED users
    /\ UNCHANGED <<groups, courses, overlap>>

AddTestUser(r) ==
    /\ req[r].pc = "addTest" /\ ~Pending(Head(req[r].left), r)
    /\ IF \E u \in users : u.email = Head(req[r].left)
         THEN Close(r)
         ELSE NextTest(r, [req[r] EXCEPT !.tests = @ \cup {Head(req[r].left)}])
    /\ UNCHANGED <<people, courses, overlap>>

\* UPDATE user: the fields that the request gives.
Updated(u, r) ==
    [u EXCEPT !.role = IF req[r].role = None THEN @ ELSE req[r].role,
              !.group = IF req[r].group = None THEN @ ELSE req[r].group]

UpdateUser(r) ==
    /\ req[r].pc = "updateUser"
    /\ users' = {IF u.email = req[r].email THEN Updated(u, r) ELSE u : u \in users}
    /\ groups' = GroupsWith(r)
    /\ Close(r)
    /\ UNCHANGED <<courses, overlap>>

----
(***************************************************************************)
(* Disciplines and assignments.                                            *)
(***************************************************************************)

\* POST /disciplines/: no name is looked up.
CreateDiscipline(r, t, name) ==
    /\ req[r].pc = "idle"
    /\ disciplines' = disciplines \cup {[id |-> r, name |-> name]}
    /\ links' = links \cup {[discipline |-> r, teacher |-> t]}
    /\ Close(r)
    /\ UNCHANGED <<people, assignments, overlap>>

\* The admin panel makes a tutor a teacher of a discipline that exists.
ShareDiscipline(d, t) ==
    /\ links' = links \cup {[discipline |-> d.id, teacher |-> t]}
    /\ UNCHANGED <<people, disciplines, assignments, req, overlap>>

\* POST /assignments/ with a discipline's id or with a name; equal dates pass.
AddAssignment(r, t, d, name, start, due) ==
    /\ (d = None) # (name = None)
    /\ start <= due
    /\ Begin(r, [Idle EXCEPT !.pc = "discipline", !.kind = "add", !.teacher = t,
                   !.discipline = d, !.name = name, !.start = start, !.due = due])

\* PATCH /assignments/{id} by any tutor, with dates, a discipline's id or a name.
EditAssignment(r, t, a, d, name, start, due) ==
    /\ d = None \/ name = None
    /\ Begin(r, [Idle EXCEPT !.pc = "find", !.kind = "edit", !.teacher = t, !.target = a,
                   !.discipline = d, !.name = name, !.start = start, !.due = due])

RenameDiscipline(r, t, d, name) ==
    Begin(r, [Idle EXCEPT !.pc = "rename", !.kind = "rename", !.teacher = t,
                !.discipline = d, !.name = name])

DeleteDiscipline(r, t, d) ==
    Begin(r, [Idle EXCEPT !.pc = "check", !.kind = "delete", !.teacher = t,
                !.discipline = d])

\* The rest of DELETE /assignments/{id}, in one step (see AssignmentFiles)
EraseAssignment(a) ==
    /\ assignments' = assignments \ {a}
    /\ UNCHANGED <<people, disciplines, links, req, overlap>>

OwnLink(r) == [discipline |-> req[r].discipline, teacher |-> req[r].teacher]

Given(new, old) == IF new = None THEN old ELSE new

AfterFind(r) == IF req[r].name = None THEN "update" ELSE "discipline"

OnlyGivenMutant(r) ==
    /\ req[r].pc = "find"
    /\ IF \E a \in assignments : a.id = req[r].target
              /\ (None \in {req[r].start, req[r].due} \/ req[r].start < req[r].due)
         THEN Goto(r, AfterFind(r))
         ELSE Close(r)
    /\ UNCHANGED <<people, courses, overlap>>

\* A given date is compared with the stored other one, read here.
FindAssignment(r) ==
    /\ req[r].pc = "find"
    /\ IF \E a \in assignments : a.id = req[r].target
              /\ Given(req[r].start, a.start) < Given(req[r].due, a.due)
         THEN Goto(r, AfterFind(r))
         ELSE Close(r)
    /\ UNCHANGED <<people, courses, overlap>>

\* The teacher's disciplines with the name; more than one raise.
Called(r) ==
    {d \in disciplines : d.name = req[r].name
                         /\ [discipline |-> d.id, teacher |-> req[r].teacher] \in links}

Write(r) == IF req[r].kind = "add" THEN "insert" ELSE "update"

FindDiscipline(r) ==
    /\ req[r].pc = "discipline"
    /\ CASE req[r].name = None -> IF OwnLink(r) \in links THEN Goto(r, "insert") ELSE Close(r)
         [] req[r].name # None /\ Called(r) = {} ->
               req' = [req EXCEPT ![r].pc = Write(r), ![r].discipline = r,
                                  ![r].newDiscipline = TRUE]
         [] OTHER ->
               \/ /\ \A d, e \in Called(r) : d = e
                  /\ \E d \in Called(r) :
                        req' = [req EXCEPT ![r].pc = Write(r), ![r].discipline = d.id]
               \/ /\ \E d, e \in Called(r) : d # e
                  /\ Close(r)
    /\ UNCHANGED <<people, courses, overlap>>

\* The discipline and the link that the request has inserted are committed.
DisciplinesWith(r) ==
    disciplines \cup IF req[r].newDiscipline THEN {[id |-> r, name |-> req[r].name]} ELSE {}

LinksWith(r) == links \cup IF req[r].newDiscipline THEN {OwnLink(r)} ELSE {}

\* The foreign keys of the assignments hold in the rows that r leaves.
DisciplineExists(r, d) == \E x \in DisciplinesWith(r) : x.id = d

\* process_and_upload_assignment inserts the row; the files follow.
InsertAssignment(r) ==
    /\ req[r].pc = "insert"
    /\ IF DisciplineExists(r, req[r].discipline)
         THEN /\ assignments' = assignments \cup
                    {[id |-> r, discipline |-> req[r].discipline,
                      start |-> req[r].start, due |-> req[r].due]}
              /\ disciplines' = DisciplinesWith(r)
              /\ links' = LinksWith(r)
         ELSE UNCHANGED courses
    /\ Close(r)
    /\ UNCHANGED <<people, overlap>>

Edited(a, r) ==
    [a EXCEPT !.discipline = Given(req[r].discipline, @),
              !.start = Given(req[r].start, @), !.due = Given(req[r].due, @)]

\* UPDATE assignment: no row when it has been erased; the new discipline stays.
UpdateAssignment(r) ==
    /\ req[r].pc = "update"
    /\ LET hit == {a \in assignments : a.id = req[r].target}
       IN  IF hit = {} \/ req[r].discipline = None \/ DisciplineExists(r, req[r].discipline)
             THEN /\ assignments' = (assignments \ hit) \cup {Edited(a, r) : a \in hit}
                  /\ disciplines' = DisciplinesWith(r)
                  /\ links' = LinksWith(r)
             ELSE UNCHANGED courses
    /\ Close(r)
    /\ UNCHANGED <<people, overlap>>

\* update_discipline reads its link ...
CheckOwner(r) ==
    /\ req[r].pc = "rename"
    /\ IF OwnLink(r) \in links THEN Goto(r, "name") ELSE Close(r)
    /\ UNCHANGED <<people, courses, overlap>>

\* ... and renames the row by its id alone, whatever became of the link.
Rename(r) ==
    /\ req[r].pc = "name"
    /\ disciplines' = {IF d.id = req[r].discipline THEN [d EXCEPT !.name = req[r].name]
                       ELSE d : d \in disciplines}
    /\ Close(r)
    /\ UNCHANGED <<people, links, assignments, overlap>>

\* delete_discipline: its link, and that no assignment has the discipline
CheckDeletion(r) ==
    /\ req[r].pc = "check"
    /\ IF OwnLink(r) \in links
          /\ \A a \in assignments : a.discipline # req[r].discipline
         THEN Goto(r, "unlink")
         ELSE Close(r)
    /\ UNCHANGED <<people, courses, overlap>>

\* q has deleted a link of the discipline d and not committed.
Unlinks(q, d) == req[q].pc \in {"links", "keep", "drop"} /\ req[q].discipline = d

CommitUnlinkMutant(r) ==
    /\ req[r].pc = "unlink"
    /\ \A q \in Requests \ {r} : ~(Unlinks(q, req[r].discipline) /\ OwnLink(q) = OwnLink(r))
    /\ links' = links \ {OwnLink(r)}
    /\ Goto(r, "links")
    /\ UNCHANGED <<people, disciplines, assignments, overlap>>

\* DisciplinesDAO.delete finds the link again and deletes it, which waits for
\* another deletion of the same row.
Unlink(r) ==
    /\ req[r].pc = "unlink"
    /\ \A q \in Requests \ {r} : ~(Unlinks(q, req[r].discipline) /\ OwnLink(q) = OwnLink(r))
    /\ IF OwnLink(r) \in links THEN Goto(r, "links") ELSE Close(r)
    /\ UNCHANGED <<people, courses, overlap>>

OtherLinks(r) == {l \in links \ {OwnLink(r)} : l.discipline = req[r].discipline}

\* SELECT of the links that are left: those of deletions that are not committed too.
SelectLinks(r) ==
    /\ req[r].pc = "links"
    /\ Goto(r, IF OtherLinks(r) = {} THEN "drop" ELSE "keep")
    /\ UNCHANGED <<people, courses, overlap>>

\* There is another teacher: only the link goes.
KeepDiscipline(r) ==
    /\ req[r].pc = "keep"
    /\ links' = links \ {OwnLink(r)}
    /\ Close(r)
    /\ UNCHANGED <<people, disciplines, assignments, overlap>>

\* DELETE FROM discipline; a foreign key of a row added meanwhile fails it and
\* all the request did.
DropDiscipline(r) ==
    /\ req[r].pc = "drop"
    /\ \A q \in Requests \ {r} : ~Unlinks(q, req[r].discipline)
    /\ IF OtherLinks(r) = {} /\ \A a \in assignments : a.discipline # req[r].discipline
         THEN /\ links' = links \ {OwnLink(r)}
              /\ disciplines' = {d \in disciplines : d.id # req[r].discipline}
         ELSE UNCHANGED <<links, disciplines>>
    /\ Close(r)
    /\ UNCHANGED <<people, assignments, overlap>>

\* The connection or the process fails: the transaction is rolled back.
Abort(r) == Running(r) /\ Fails(r)

----
Init ==
    /\ groups = {} /\ users = {}
    /\ disciplines = {} /\ links = {} /\ assignments = {}
    /\ req = [r \in Requests |-> Idle]
    /\ overlap = {}

RegisterNext ==
    \E r \in Requests :
        \/ \E e \in Emails, role \in Roles, g \in GroupName \cup {None} : Register(r, e, role, g)
        \/ \E e \in Emails : GoogleCallback(r, e)
        \/ CreateTestUsers(r)
        \/ \E u \in users, g \in GroupName : UpdateMe(r, u, g)
        \/ \E u \in users, role \in AnyRole, g \in GroupName \cup {None} :
               CompleteProfile(r, u, role, g)

TeachNext ==
    \E r \in Requests, t \in Teachers :
        \/ \E name \in Names : CreateDiscipline(r, t, name)
        \/ \E name \in Names \cup {None}, start, due \in Dates,
              d \in {x.id : x \in disciplines} \cup {None} :
               AddAssignment(r, t, d, name, start, due)
        \/ \E a \in assignments, name \in Names \cup {None},
              start, due \in Dates \cup {None}, d \in Requests \cup {None} :
               EditAssignment(r, t, a.id, d, name, start, due)
        \/ \E d \in disciplines : \/ \E name \in Names : RenameDiscipline(r, t, d.id, name)
                                  \/ DeleteDiscipline(r, t, d.id)

AdminNext ==
    \/ \E d \in disciplines, t \in Teachers : ShareDiscipline(d, t)
    \/ \E a \in assignments : EraseAssignment(a)

Step(r) ==
    \/ LookUpUser(r) \/ FindGroup(r) \/ AddGroup(r) \/ AddUser(r) \/ AddGoogleUser(r)
    \/ FindTestUser(r) \/ AddTestUser(r) \/ UpdateUser(r)
    \/ FindAssignment(r) \/ FindDiscipline(r) \/ InsertAssignment(r) \/ UpdateAssignment(r)
    \/ CheckOwner(r) \/ Rename(r) \/ CheckDeletion(r) \/ Unlink(r) \/ SelectLinks(r)
    \/ KeepDiscipline(r) \/ DropDiscipline(r) \/ Abort(r)

Next == RegisterNext \/ TeachNext \/ AdminNext \/ \E r \in Requests : Step(r)

Spec == Init /\ [][Next]_vars

----
\* Type invariant: rows and requests have their types, and no two accounts one
\* e-mail though registrations, Google logins and POST /auth/test that found none
\* insert it at the same time (user/models.py:13).
TypeOK ==
    /\ groups \subseteq GroupName
    /\ users \subseteq User
    /\ \A u, v \in users : u.email = v.email => u = v
    /\ disciplines \subseteq Discipline
    /\ links \subseteq Link
    /\ assignments \subseteq Assignment
    /\ req \in [Requests -> Request]
    /\ overlap \subseteq Kinds

\* A discipline has a teacher, and a link or an assignment a discipline, whatever
\* is added, moved or erased between the steps of a deletion (discipline/router.py
\* tests for assignments and deletes later): otherwise nobody could ever change or
\* delete it.  Overlapping deletions are left out: two teachers of one discipline
\* who delete it together each see the other's link and leave none.
DisciplinesTaught ==
    /\ \A l \in links : \E d \in disciplines : d.id = l.discipline
    /\ \A a \in assignments : \E d \in disciplines : d.id = a.discipline
    /\ "delete" \notin overlap =>
          \A d \in disciplines : \E l \in links : l.discipline = d.id

\* An assignment does not begin after it ends, though a PATCH gives any subset of
\* the dates and is checked against the others as it read them.  Overlapping PATCHes
\* are left out: each may pass against a date that the other one replaces.
DatesOrdered == "edit" \notin overlap => \A a \in assignments : a.start <= a.due

\* A group appears only together with a user who is in it, in the transaction of a
\* registration or of a change of profile: a request that fails leaves no group.
NewGroupHasMember ==
    [][\A g \in groups' \ groups : \E u \in users' : u.group = g]_vars
====
