---- MODULE Submissions_proofs ----
(***************************************************************************)
(* Proofs about Submissions, for every set of students, requests and       *)
(* scores, and whatever requests overlap; and, for students who wait for   *)
(* each answer, about the ledger that it implements.                       *)
(***************************************************************************)
EXTENDS SubmissionsLedger, FiniteSetTheorems, SequenceTheorems, TLAPS

\* What TypeOK needs to be inductive: a request in flight has its student, and
\* a file row was located or inserted for a submission.
LocalsOK ==
    \A r \in Requests :
        /\ req[r].pc \in Steps => req[r].user \in Students
        /\ req[r].file # None => req[r].sub \in Requests

TypeInv == TypeOK /\ LocalsOK

\* A request that has not started, and one that ended, are requests.
LEMMA RestingRequests == Idle \in Request /\ Closed \in Request
BY SubmissionsAssumption DEF Idle, Closed, Request, Steps

\* Ending a request keeps the requests typed and their locals consistent.
LEMMA CloseTyped ==
    ASSUME TypeInv, NEW r \in Requests, Close(r)
    PROVE  /\ req' \in [Requests -> Request]
           /\ LocalsOK'
<1>1. req' \in [Requests -> Request]
  BY RestingRequests DEF TypeInv, TypeOK, Close
<1>2. ASSUME NEW q \in Requests
      PROVE  /\ req'[q].pc \in Steps => req'[q].user \in Students
             /\ req'[q].file # None => req'[q].sub \in Requests
  <2>1. CASE q = r
    <3>1. req'[q] = Closed
      BY <2>1 DEF Close, TypeInv, TypeOK
    <3>2. Closed.pc \notin Steps /\ Closed.file = None
      BY DEF Closed, Idle, Steps
    <3> QED BY <3>1, <3>2
  <2>2. CASE q # r
    BY <2>2 DEF Close, TypeInv, TypeOK, LocalsOK
  <2> QED BY <2>1, <2>2
<1> QED BY <1>1, <1>2 DEF LocalsOK

\* What a request sees are rows of the declared shape.
LEMMA SeenTyped ==
    ASSUME TypeInv, NEW r \in Requests, req[r].pc \in Steps
    PROVE  /\ SubmissionsSeenBy(r) \subseteq Submission
           /\ FilesSeenBy(r) \subseteq SubmissionFile
<1>1. NewSubmission(r) \in Submission
  BY SubmissionsAssumption DEF TypeInv, LocalsOK, NewSubmission, Submission
<1>2. req[r].file = r => [id |-> r, sub |-> req[r].sub] \in SubmissionFile
  BY SubmissionsAssumption DEF TypeInv, LocalsOK, SubmissionFile
<1> QED
  BY <1>1, <1>2 DEF TypeInv, TypeOK, SubmissionsSeenBy, FilesSeenBy

LEMMA TypeInit == Init => TypeInv
<1> SUFFICES ASSUME Init PROVE TypeInv
  OBVIOUS
<1>1. TypeOK
  BY SubmissionsAssumption, RestingRequests DEF Init, TypeOK, Limits
<1>2. Idle.pc \notin Steps /\ Idle.file = None
  BY DEF Idle, Steps
<1>3. LocalsOK
  BY <1>2 DEF Init, LocalsOK
<1> QED BY <1>1, <1>3 DEF TypeInv

\* A request that has its student, and a submission when it has a file row, may
\* take the place of the record of any request.
LEMMA LocalsTyped ==
    ASSUME TypeInv, NEW r \in Requests, NEW new \in Request,
           req' = [req EXCEPT ![r] = new],
           new.user \in Students, new.file # None => new.sub \in Requests
    PROVE  req' \in [Requests -> Request] /\ LocalsOK'
<1>1. req' \in [Requests -> Request]
  BY DEF TypeInv, TypeOK
<1>2. ASSUME NEW q \in Requests
      PROVE  /\ req'[q].pc \in Steps => req'[q].user \in Students
             /\ req'[q].file # None => req'[q].sub \in Requests
  BY DEF TypeInv, TypeOK, LocalsOK
<1> QED BY <1>1, <1>2 DEF LocalsOK

LEMMA TypeArrive ==
    ASSUME TypeInv, NEW r \in Requests, Arrive(r)
    PROVE  TypeInv'
<1> PICK u \in Students : \/ AddSubmission(r, u)
                          \/ EvaluateSubmission(r, u)
                          \/ EvaluateEmbeddedNotebook(r, u)
                          \/ \E i \in Requests : DeleteSubmission(r, u, i)
  BY DEF Arrive
<1>1. UNCHANGED <<settings, tables, blob, recent>>
  BY DEF AddSubmission, EvaluateSubmission, EvaluateEmbeddedNotebook,
         DeleteSubmission, Begin
<1>2. PICK new \in Request :
        /\ req' = [req EXCEPT ![r] = new]
        /\ new.user = u /\ new.file = None
  <2>1. ASSUME NEW kind \in Kinds, NEW pc \in Steps, Begin(r, u, kind, pc)
        PROVE  \E new \in Request : /\ req' = [req EXCEPT ![r] = new]
                                    /\ new.user = u /\ new.file = None
    <3> DEFINE begun == [Idle EXCEPT !.pc = pc, !.kind = kind, !.user = u]
    <3>1. begun \in Request /\ begun.user = u /\ begun.file = None
      BY SubmissionsAssumption DEF Idle, Request
    <3>2. req' = [req EXCEPT ![r] = begun]
      BY <2>1 DEF Begin
    <3> QED BY <3>1, <3>2
  <2>2. CASE AddSubmission(r, u)
    BY <2>1, <2>2 DEF AddSubmission, Kinds, Steps
  <2>3. CASE EvaluateSubmission(r, u)
    BY <2>1, <2>3 DEF EvaluateSubmission, Kinds, Steps
  <2>4. CASE EvaluateEmbeddedNotebook(r, u)
    BY <2>1, <2>4 DEF EvaluateEmbeddedNotebook, Kinds, Steps
  <2>5. CASE \E i \in Requests : DeleteSubmission(r, u, i)
    <3> PICK i \in Requests : DeleteSubmission(r, u, i)
      BY <2>5
    <3> DEFINE begun == [Idle EXCEPT !.pc = "delete", !.kind = "delete",
                                     !.user = u, !.sub = i]
    <3>1. begun \in Request /\ begun.user = u /\ begun.file = None
      BY SubmissionsAssumption DEF Idle, Request, Kinds, Steps
    <3>2. req' = [req EXCEPT ![r] = begun]
      BY DEF DeleteSubmission
    <3> QED BY <3>1, <3>2
  <2> QED BY <2>2, <2>3, <2>4, <2>5
<1>3. req' \in [Requests -> Request] /\ LocalsOK'
  BY <1>2, LocalsTyped, SubmissionsAssumption
<1> QED BY <1>1, <1>3 DEF TypeInv, TypeOK, settings, tables

\* A request in flight and its locals.
LEMMA InFlight ==
    ASSUME TypeInv, NEW r \in Requests, req[r].pc \in Steps
    PROVE  /\ req[r] \in Request
           /\ req[r].user \in Students
           /\ req[r].file # None => req[r].sub \in Requests
BY DEF TypeInv, TypeOK, LocalsOK

LEMMA GotoTyped ==
    ASSUME TypeInv, NEW r \in Requests, req[r].pc \in Steps,
           NEW pc \in Steps, Goto(r, pc)
    PROVE  req' \in [Requests -> Request] /\ LocalsOK'
<1> DEFINE new == [req[r] EXCEPT !.pc = pc]
<1>1. /\ new \in Request
      /\ new.user = req[r].user /\ new.file = req[r].file /\ new.sub = req[r].sub
  BY InFlight DEF Request
<1>2. req' = [req EXCEPT ![r] = new]
  BY DEF Goto
<1> HIDE DEF new
<1> QED BY <1>1, <1>2, InFlight, LocalsTyped

\* The steps that change the request alone.
LEMMA TypeLocalSteps ==
    ASSUME TypeInv, NEW r \in Requests,
           \/ Admit(r) \/ FindOrAddSubmission(r) \/ LocateFile(r)
           \/ UpdateFile(r) \/ InsertFile(r)
           \/ CheckDates(r) \/ CheckAttempts(r) \/ ReadSolution(r) \/ Fail(r)
    PROVE  TypeInv'
<1> DEFINE Typed == req' \in [Requests -> Request] /\ LocalsOK'
<1>0. UNCHANGED <<settings, tables, blob, recent>>
  BY DEF Admit, FindOrAddSubmission, LocateFile, UpdateFile,
       InsertFile, CheckDates, CheckAttempts, ReadSolution, Fail
<1> SUFFICES Typed
  BY <1>0 DEF TypeInv, TypeOK, settings, tables
<1>1. req[r].pc \in Steps
  BY DEF Admit, FindOrAddSubmission, LocateFile, UpdateFile,
       InsertFile, CheckDates, CheckAttempts, ReadSolution, Fail, Steps
<1>2. Close(r) => Typed
  BY CloseTyped
<1>3. ASSUME NEW new \in Request, req' = [req EXCEPT ![r] = new],
             new.user = req[r].user, new.file # None => new.sub \in Requests
      PROVE  Typed
  BY <1>1, <1>3, InFlight, LocalsTyped
<1>4. AfterUpload(r) \in Steps
  BY DEF AfterUpload, Steps
<1>5. CASE Admit(r)
  BY <1>1, <1>2, <1>5, GotoTyped DEF Admit, Steps
<1>6. CASE FindOrAddSubmission(r)
  <2> SUFFICES ASSUME ~Close(r) PROVE Typed
    BY <1>2
  <2>1. PICK i \in Requests :
          req' = [req EXCEPT ![r].pc = "store", ![r].sub = i]
    <3> DEFINE found == OfStudent(submissions, req[r].user)
    <3>1. CASE found = {}
      BY <1>6, <3>1 DEF FindOrAddSubmission
    <3>2. CASE found # {}
      <4>1. (CHOOSE x \in found : TRUE) \in found
        BY <3>2
      <4>2. (CHOOSE x \in found : TRUE).id \in Requests
        BY <4>1 DEF OfStudent, TypeInv, TypeOK, Submission
      <4> QED BY <1>6, <3>2, <4>2 DEF FindOrAddSubmission
    <3> QED BY <3>1, <3>2
  <2> DEFINE new == [req[r] EXCEPT !.pc = "store", !.sub = i]
  <2>2. new \in Request /\ new.user = req[r].user /\ new.sub \in Requests
    BY <1>1, InFlight DEF Request, Steps
  <2>3. req' = [req EXCEPT ![r] = new]
    BY <2>1
  <2> HIDE DEF new
  <2> QED BY <1>3, <2>2, <2>3
<1>7. CASE LocateFile(r)
  <2> DEFINE found == OfSubmission(files, req[r].sub)
  <2>1. CASE found = {}
    BY <1>1, <1>7, <2>1, GotoTyped DEF LocateFile, Steps
  <2>2. CASE found # {} /\ \E f \in found : found = {f}
    <3> DEFINE f == CHOOSE f \in found : TRUE
    <3>1. f \in files /\ f.sub = req[r].sub
      BY <2>2 DEF OfSubmission
    <3>2. f.id \in Requests /\ req[r].sub \in Requests
      BY <3>1 DEF TypeInv, TypeOK, SubmissionFile
    <3> DEFINE new == [req[r] EXCEPT !.pc = "update", !.file = f.id]
    <3>3. req' = [req EXCEPT ![r] = new]
      BY <1>7, <2>2 DEF LocateFile
    <3> HIDE DEF f
    <3>4. new \in Request /\ new.user = req[r].user /\ new.sub = req[r].sub
      BY <1>1, <3>2, InFlight DEF Request, Steps
    <3> HIDE DEF new
    <3> QED BY <1>3, <3>2, <3>3, <3>4
  <2>3. CASE found # {} /\ ~ \E f \in found : found = {f}
    BY <1>2, <1>7, <2>3 DEF LocateFile
  <2> QED BY <2>1, <2>2, <2>3
<1>8. CASE UpdateFile(r)
  <2> DEFINE lock == \E f \in files : f.id = req[r].file
             new == [req[r] EXCEPT !.pc = AfterUpload(r), !.locked = lock]
  <2>1. lock \in BOOLEAN
    OBVIOUS
  <2>2. req' = [req EXCEPT ![r] = new]
    BY <1>8 DEF UpdateFile
  <2> HIDE DEF lock
  <2>3. /\ new \in Request /\ new.user = req[r].user
        /\ new.sub = req[r].sub /\ new.file = req[r].file
    BY <1>1, <1>4, <2>1, InFlight DEF Request
  <2> HIDE DEF new
  <2> QED BY <1>1, <1>3, <2>2, <2>3, InFlight
<1>9. CASE InsertFile(r)
  <2> SUFFICES ASSUME ~Close(r) PROVE Typed
    BY <1>2
  <2>1. req' = [req EXCEPT ![r].pc = AfterUpload(r), ![r].file = r]
        /\ SubmissionExists(r)
    BY <1>9 DEF InsertFile
  <2>2. req[r].sub \in Requests
    BY <1>1, <2>1, SeenTyped DEF SubmissionExists, Submission
  <2> DEFINE new == [req[r] EXCEPT !.pc = AfterUpload(r), !.file = r]
  <2>3. new \in Request /\ new.user = req[r].user /\ new.sub = req[r].sub
    BY <1>1, <1>4, InFlight DEF Request
  <2>4. req' = [req EXCEPT ![r] = new]
    BY <2>1
  <2> HIDE DEF new
  <2> QED BY <1>3, <2>2, <2>3, <2>4
<1>10. CASE CheckAttempts(r)
  <2> SUFFICES ASSUME ~Close(r) PROVE Typed
    BY <1>2
  <2>1. PICK x \in SubmissionsSeenBy(r) :
          req' = [req EXCEPT ![r].pc = "read", ![r].sub = x.id, ![r].max = 0,
                             ![r].number = x.number]
    BY <1>10 DEF CheckAttempts, OfStudent
  <2>2. x.id \in Requests /\ x.number \in Nat
    BY <1>1, SeenTyped DEF Submission
  <2> DEFINE new == [req[r] EXCEPT !.pc = "read", !.sub = x.id, !.max = 0,
                                   !.number = x.number]
  <2>3. new \in Request /\ new.user = req[r].user /\ new.sub \in Requests
    BY <1>1, <2>2, InFlight DEF Request, Steps
  <2>4. req' = [req EXCEPT ![r] = new]
    BY <2>1
  <2> HIDE DEF new
  <2> QED BY <1>3, <2>3, <2>4
<1>11. CASE ReadSolution(r)
  <2> SUFFICES ASSUME ~Close(r) PROVE Typed
    BY <1>2
  <2> DEFINE content == blob[Path(req[r].user)]
             new == [req[r] EXCEPT !.pc = "grade", !.graded = content]
  <2>1. content \in Requests \cup {None}
    BY <1>1, InFlight DEF TypeInv, TypeOK, Path
  <2>2. req' = [req EXCEPT ![r] = new]
    BY <1>11 DEF ReadSolution
  <2> HIDE DEF content
  <2>3. /\ new \in Request /\ new.user = req[r].user
        /\ new.sub = req[r].sub /\ new.file = req[r].file
    BY <1>1, <2>1, InFlight DEF Request, Steps
  <2> HIDE DEF new
  <2> QED BY <1>1, <1>3, <2>2, <2>3, InFlight
<1>12. CASE Fail(r)
  BY <1>2, <1>12 DEF Fail
<1>13. CASE CheckDates(r)
  <2> SUFFICES ASSUME ~Close(r) PROVE Typed
    BY <1>2
  <2> DEFINE new == [req[r] EXCEPT !.pc = "count", !.max = limit]
  <2>1. limit \in Nat
    BY DEF TypeInv, TypeOK, Limits
  <2>2. /\ new \in Request /\ new.user = req[r].user
        /\ new.sub = req[r].sub /\ new.file = req[r].file
    BY <1>1, <2>1, InFlight DEF Request, Steps
  <2>3. req' = [req EXCEPT ![r] = new]
    BY <1>13 DEF CheckDates
  <2> HIDE DEF new
  <2> QED BY <1>1, <1>3, <2>2, <2>3, InFlight
<1> QED BY <1>5, <1>6, <1>7, <1>8, <1>9, <1>10, <1>11, <1>12, <1>13

\* The steps that write a notebook or commit rows.
LEMMA TypeWritingSteps ==
    ASSUME TypeInv, NEW r \in Requests,
           \/ StoreNotebook(r) \/ CommitUpload(r) \/ Delete(r)
           \/ \E v \in Scores : Grade(r, v)
    PROVE  TypeInv'
<1>1. req[r].pc \in Steps
  BY DEF StoreNotebook, CommitUpload, Delete, Grade, Steps
<1>2. Close(r) => req' \in [Requests -> Request] /\ LocalsOK'
  BY CloseTyped
<1>3. CASE StoreNotebook(r)
  <2>1. blob' \in [Students -> Requests \cup {None}]
    BY <1>3 DEF StoreNotebook, TypeInv, TypeOK
  <2>2. req' \in [Requests -> Request] /\ LocalsOK'
    BY <1>1, <1>2, <1>3, GotoTyped DEF StoreNotebook, Steps
  <2> QED BY <1>3, <2>1, <2>2 DEF StoreNotebook, TypeInv, TypeOK, settings, tables
<1>4. CASE CommitUpload(r)
  <2>1. submissions' \subseteq Submission /\ files' \subseteq SubmissionFile
    BY <1>1, <1>4, SeenTyped DEF CommitUpload
  <2>2. Close(r)
    BY <1>4 DEF CommitUpload
  <2> QED BY <1>2, <1>4, <2>1, <2>2 DEF CommitUpload, TypeInv, TypeOK, settings
<1>5. CASE Delete(r)
  <2>1. /\ submissions' \subseteq Submission /\ files' \subseteq SubmissionFile
        /\ attempts' \subseteq Attempt
    BY <1>5 DEF Delete, TypeInv, TypeOK
  <2>2. Close(r)
    BY <1>5 DEF Delete
  <2> QED BY <1>2, <1>5, <2>1, <2>2 DEF Delete, TypeInv, TypeOK, settings
<1>6. ASSUME NEW v \in Scores, Grade(r, v)
      PROVE  TypeInv'
  <2>1. Close(r) /\ UNCHANGED <<limit, open, torn, blob>>
    BY <1>6 DEF Grade, settings
  <2>2. CASE ~SubmissionExists(r)
    BY <1>2, <1>6, <2>1, <2>2 DEF Grade, TypeInv, TypeOK, tables
  <2>3. CASE SubmissionExists(r)
    <3>1. req[r].sub \in Requests
      BY <1>1, <2>3, SeenTyped DEF SubmissionExists, Submission
    <3>2. req[r] \in Request /\ req[r].user \in Students
      BY <1>1, InFlight
    <3>3. NewAttempt(r, v) \in Attempt
      BY <1>6, <3>1, <3>2 DEF NewAttempt, Attempt, Request, Path
    <3>4. ASSUME NEW x \in Submission
          PROVE  Graded(x, r, v) \in Submission
      <4>1. req[r].number + 1 \in Nat
        BY <3>2 DEF Request
      <4> QED BY <1>6, <4>1 DEF Graded, Submission
    <3>5. submissions' \subseteq Submission
      BY <1>1, <1>6, <2>3, <3>4, SeenTyped DEF Grade
    <3>6. files' \subseteq SubmissionFile
      BY <1>1, <1>6, <2>3, SeenTyped DEF Grade
    <3>7. attempts' \subseteq Attempt /\ recent' \subseteq Requests
      BY <1>6, <2>3, <3>3 DEF Grade, TypeInv, TypeOK
    <3> QED BY <1>2, <2>1, <3>5, <3>6, <3>7 DEF TypeInv, TypeOK
  <2> QED BY <2>2, <2>3
<1> QED BY <1>3, <1>4, <1>5, <1>6

LEMMA TypeNext == TypeInv /\ [Next]_vars => TypeInv'
<1> SUFFICES ASSUME TypeInv, [Next]_vars PROVE TypeInv'
  OBVIOUS
<1>1. ASSUME NEW r \in Requests, Arrive(r)
      PROVE  TypeInv'
  BY <1>1, TypeArrive
<1>2. ASSUME NEW r \in Requests, Advance(r) \/ Fail(r)
      PROVE  TypeInv'
  BY <1>2, TypeLocalSteps, TypeWritingSteps DEF Advance
<1>3. ASSUME NEW r \in Requests, CooldownEnds(r)
      PROVE  TypeInv'
  BY <1>3 DEF CooldownEnds, TypeInv, TypeOK, LocalsOK, settings, tables
<1>4. ASSUME NEW n \in Limits, UpdateLimit(n)
      PROVE  TypeInv'
  BY <1>4 DEF UpdateLimit, TypeInv, TypeOK, LocalsOK, tables
<1>5. CASE UpdateDates
  BY <1>5 DEF UpdateDates, TypeInv, TypeOK, LocalsOK, tables
<1>6. CASE UNCHANGED vars
  BY <1>6 DEF vars, TypeInv, TypeOK, LocalsOK
<1> QED BY <1>1, <1>2, <1>3, <1>4, <1>5, <1>6 DEF Next

\* Type correctness: whatever requests overlap, each row carries an existing
\* user and a declared score, and each path holds an upload or nothing.
THEOREM TypeCorrect == Spec => []TypeOK
<1>1. Spec => []TypeInv
  BY TypeInit, TypeNext, PTL DEF Spec
<1>2. TypeInv => TypeOK
  BY DEF TypeInv
<1> QED BY <1>1, <1>2, PTL

----
(* The history: the numbers of the attempts stay within the limit, and the score
   of a submission is that of one of its attempts. *)

\* A request's step is taken before it ends and leaves the others as they are.
LEMMA OneRequestMoves ==
    ASSUME TypeInv, NEW r \in Requests, Arrive(r) \/ Advance(r) \/ Fail(r)
    PROVE  /\ req[r].pc # "closed"
           /\ \A q \in Requests \ {r} : req'[q] = req[q]
<1> USE DEF TypeInv, TypeOK
<1>1. CASE Arrive(r)
  BY <1>1 DEF Arrive, AddSubmission, EvaluateSubmission,
              EvaluateEmbeddedNotebook, DeleteSubmission, Begin, MayBegin
<1>2. CASE Fail(r)
  BY <1>2 DEF Fail, Close, Steps
<1>3. CASE Admit(r) \/ StoreNotebook(r) \/ CommitUpload(r) \/ Delete(r)
  BY <1>3 DEF Admit, StoreNotebook, CommitUpload, Delete, Goto, Close
<1>4. CASE FindOrAddSubmission(r)
  BY <1>4 DEF FindOrAddSubmission, Close
<1>5. CASE LocateFile(r)
  <2>1. req[r].pc # "closed"
    BY <1>5 DEF LocateFile
  <2>2. \/ Goto(r, "insert") \/ Close(r)
        \/ req' = [req EXCEPT ![r].pc = "update", ![r].file =
                     (CHOOSE f \in OfSubmission(files, req[r].sub) : TRUE).id]
    BY <1>5 DEF LocateFile
  <2> QED BY <2>1, <2>2 DEF Goto, Close
<1>6. CASE UpdateFile(r) \/ InsertFile(r)
  BY <1>6 DEF UpdateFile, InsertFile, Close
<1>7. CASE CheckDates(r) \/ CheckAttempts(r) \/ ReadSolution(r)
  BY <1>7 DEF CheckDates, CheckAttempts, ReadSolution, Close
<1>8. CASE \E v \in Scores : Grade(r, v)
  BY <1>8 DEF Grade, Close
<1> QED BY <1>1, <1>2, <1>3, <1>4, <1>5, <1>6, <1>7, <1>8 DEF Advance

\* A step of the system is a request's step, or leaves the requests alone.
LEMMA WhoMoves ==
    ASSUME [Next]_vars
    PROVE  \/ \E r \in Requests : Arrive(r) \/ Advance(r) \/ Fail(r)
           \/ /\ UNCHANGED <<submissions, files, attempts, blob, req>>
              /\ UNCHANGED <<limit, torn>> \/ \E n \in Limits : UpdateLimit(n)
BY DEF Next, vars, CooldownEnds, UpdateLimit, UpdateDates, settings, tables

\* The steps that change committed rows.
LEMMA WhatCommits ==
    ASSUME NEW r \in Requests, Arrive(r) \/ Advance(r) \/ Fail(r)
    PROVE  \/ UNCHANGED <<submissions, attempts>>
           \/ CommitUpload(r) \/ Delete(r)
           \/ \E v \in Scores : Grade(r, v) /\ SubmissionExists(r)
BY DEF Arrive, Advance, Fail, AddSubmission, EvaluateSubmission,
     EvaluateEmbeddedNotebook, DeleteSubmission, Begin, Admit,
     FindOrAddSubmission, StoreNotebook, LocateFile, UpdateFile, InsertFile,
     CheckDates, CheckAttempts, ReadSolution, Grade, tables

----
(* The attempt limit. *)

\* An evaluation past the check of the attempts started below the limit.
Admitted ==
    \A r \in Requests : req[r].pc \in {"read", "grade"} => req[r].number < limit

Bounded == CountersWithinLimit /\ Admitted

\* While no limit was changed between the reads of a check, the limit that each
\* check keeps is the limit.
LimitInv ==
    /\ TypeInv
    /\ ~torn => /\ Bounded
                /\ \A r \in Requests : req[r].pc = "count" => req[r].max = limit

\* The limit that r keeps separates: the counters it may find do not pass it, and
\* those below it are below the limit.
Fits(r) ==
    req[r].pc = "count" =>
        /\ req[r].max <= limit
        /\ \A x \in OfStudent(SubmissionsSeenBy(r), req[r].user) :
             x.number <= req[r].max

\* The requests read the limit, and none changes it.
LEMMA LimitUnmoved ==
    ASSUME NEW r \in Requests, Arrive(r) \/ Advance(r) \/ Fail(r)
    PROVE  limit' = limit /\ torn' = torn
BY DEF Arrive, Advance, Fail, AddSubmission, EvaluateSubmission,
     EvaluateEmbeddedNotebook, DeleteSubmission, Begin, Admit,
     FindOrAddSubmission, StoreNotebook, LocateFile, UpdateFile, InsertFile,
     CommitUpload, CheckDates, CheckAttempts, ReadSolution, Grade, Delete, settings

\* A request that closes or moves to another step needs no admission.
LEMMA AdmittedKept ==
    ASSUME TypeInv, Admitted, limit' = limit, NEW r \in Requests,
           Arrive(r) \/ Advance(r) \/ Fail(r),
           req'[r].pc \in {"read", "grade"} => req'[r].number < limit
    PROVE  Admitted'
BY OneRequestMoves DEF Admitted

LEMMA ClosedIsNotAdmitted ==
    ASSUME TypeInv, NEW r \in Requests, Close(r)
    PROVE  req'[r].pc = "closed" /\ req'[r].file = None
BY DEF Close, Closed, Idle, TypeInv, TypeOK

\* Of the requests' steps, three lead into an evaluation.
LEMMA WhoIsAdmitted ==
    ASSUME TypeInv, NEW r \in Requests, Arrive(r) \/ Advance(r) \/ Fail(r),
           req'[r].pc \in {"count", "read", "grade"}
    PROVE  CheckDates(r) \/ CheckAttempts(r) \/ ReadSolution(r)
<1>1. ~Close(r)
  BY ClosedIsNotAdmitted
<1> USE DEF TypeInv, TypeOK, Request
<1>2. ~Arrive(r)
  <2>1. ASSUME NEW u \in Students, NEW k, NEW pc \in {"admit", "check"},
               Begin(r, u, k, pc)
        PROVE  FALSE
    BY <2>1 DEF Begin, Idle
  <2>2. ASSUME NEW u \in Students, NEW i \in Requests, DeleteSubmission(r, u, i)
        PROVE  FALSE
    BY <2>2 DEF DeleteSubmission, Idle
  <2> QED BY <2>1, <2>2 DEF Arrive, AddSubmission, EvaluateSubmission,
                            EvaluateEmbeddedNotebook
<1>3. ~(Admit(r) \/ StoreNotebook(r) \/ FindOrAddSubmission(r))
  BY <1>1 DEF Admit, StoreNotebook, FindOrAddSubmission, Goto
<1>4. ~LocateFile(r)
  <2>1. ~Goto(r, "insert")
    BY DEF Goto
  <2> QED BY <1>1, <2>1 DEF LocateFile
<1>5. ~(UpdateFile(r) \/ InsertFile(r))
  BY <1>1 DEF UpdateFile, InsertFile, AfterUpload
<1>6. ~(CommitUpload(r) \/ Delete(r) \/ Fail(r))
  BY <1>1 DEF CommitUpload, Delete, Fail
<1>7. ~(\E v \in Scores : Grade(r, v))
  BY <1>1 DEF Grade
<1> QED BY <1>2, <1>3, <1>4, <1>5, <1>6, <1>7 DEF Advance

\* What each of the three leaves, when it does not refuse the request.
LEMMA CheckedDates ==
    ASSUME TypeInv, NEW r \in Requests, CheckDates(r), ~Close(r)
    PROVE  /\ req'[r].pc = "count" /\ req'[r].max = limit
           /\ req'[r].sub = req[r].sub /\ req'[r].user = req[r].user
           /\ req[r].pc \in Steps /\ UNCHANGED submissions
BY DEF CheckDates, TypeInv, TypeOK, Request, Steps, tables

LEMMA CheckedAttempts ==
    ASSUME TypeInv, NEW r \in Requests, CheckAttempts(r), ~Close(r)
    PROVE  /\ req[r].pc = "count" /\ req'[r].pc = "read"
           /\ \E x \in OfStudent(SubmissionsSeenBy(r), req[r].user) :
                x.number # req[r].max /\ req'[r].number = x.number
<1>1. PICK x \in OfStudent(SubmissionsSeenBy(r), req[r].user) :
        /\ req[r].pc = "count" /\ x.number # req[r].max
        /\ req' = [req EXCEPT ![r].pc = "read", ![r].sub = x.id, ![r].max = 0,
                              ![r].number = x.number]
  BY DEF CheckAttempts, EndedAttempts
<1>2. req'[r].pc = "read" /\ req'[r].number = x.number
  BY <1>1 DEF TypeInv, TypeOK, Request
<1> QED BY <1>1, <1>2

LEMMA SolutionRead ==
    ASSUME TypeInv, NEW r \in Requests, ReadSolution(r), ~Close(r)
    PROVE  /\ req[r].pc = "read" /\ req'[r].pc = "grade"
           /\ req'[r].number = req[r].number
BY DEF ReadSolution, TypeInv, TypeOK, Request

\* The rows a request sees have counters within the limit.
LEMMA SeenWithinLimit ==
    ASSUME TypeInv, CountersWithinLimit,
           NEW r \in Requests, NEW x \in SubmissionsSeenBy(r)
    PROVE  x.number <= limit
BY SubmissionsAssumption
   DEF CountersWithinLimit, SubmissionsSeenBy, NewSubmission, TypeInv, TypeOK, Limits

LEMMA AdmittedStep ==
    ASSUME TypeInv, Bounded, NEW r \in Requests, Fits(r),
           Arrive(r) \/ Advance(r) \/ Fail(r)
    PROVE  Admitted'
<1>1. ASSUME req'[r].pc \in {"read", "grade"}
      PROVE  req'[r].number < limit
  <2>1. ~Close(r)
    BY <1>1, ClosedIsNotAdmitted
  <2>2. CASE CheckAttempts(r)
    <3>1. PICK x \in OfStudent(SubmissionsSeenBy(r), req[r].user) :
            x.number # req[r].max /\ req'[r].number = x.number
      BY <2>1, <2>2, CheckedAttempts
    <3>2. req[r].pc = "count" /\ req[r].pc \in Steps
      BY <2>2 DEF CheckAttempts, Steps
    <3>3. x.number <= req[r].max /\ req[r].max <= limit
      BY <3>2 DEF Fits
    <3>4. x.number \in Nat /\ req[r].max \in Nat /\ limit \in Nat
      BY <3>2, SeenTyped
         DEF OfStudent, Submission, TypeInv, TypeOK, Request, Limits
    <3> QED BY <3>1, <3>3, <3>4
  <2>3. CASE ReadSolution(r)
    BY <2>1, <2>3, SolutionRead DEF Bounded, Admitted
  <2>4. CASE CheckDates(r)
    BY <1>1, <2>1, <2>4, CheckedDates
  <2> QED BY <1>1, <2>2, <2>3, <2>4, WhoIsAdmitted
<1> QED BY <1>1, AdmittedKept, LimitUnmoved DEF Bounded

\* The commits of admitted evaluations stay within the limit.
LEMMA BoundedStep ==
    ASSUME TypeInv, Bounded, NEW r \in Requests, Fits(r),
           Arrive(r) \/ Advance(r) \/ Fail(r)
    PROVE  Bounded'
<1> USE DEF Bounded, CountersWithinLimit
<1>0. limit' = limit
  BY LimitUnmoved
<1>1. CASE UNCHANGED <<submissions, attempts>>
  BY <1>0, <1>1, AdmittedStep
<1>2. CASE CommitUpload(r)
  BY <1>0, <1>2, AdmittedStep, SeenWithinLimit DEF CommitUpload
<1>3. CASE Delete(r)
  BY <1>0, <1>3, AdmittedStep DEF Delete
<1>4. ASSUME NEW v \in Scores, Grade(r, v), SubmissionExists(r)
      PROVE  CountersWithinLimit'
  <2>1. req[r].number + 1 <= limit
    BY <1>4 DEF Grade, Admitted, TypeInv, TypeOK, Limits, Request
  <2>2. ASSUME NEW x \in submissions'
        PROVE  x.number <= limit
    <3>1. PICK y \in SubmissionsSeenBy(r) :
            x = IF y.id = req[r].sub THEN Graded(y, r, v) ELSE y
      BY <1>4 DEF Grade
    <3>2. y \in Submission
      BY <1>4, SeenTyped DEF Grade, Steps
    <3>3. Graded(y, r, v).number = req[r].number + 1
      BY <3>2 DEF Graded, Submission
    <3> QED BY <2>1, <3>1, <3>3, SeenWithinLimit
  <2>3. ASSUME NEW a \in attempts'
        PROVE  a.number <= limit
    BY <1>4, <2>1 DEF Grade, NewAttempt
  <2> QED BY <1>0, <2>2, <2>3
<1> QED BY <1>1, <1>2, <1>3, <1>4, AdmittedStep, WhatCommits

\* A limit that grows keeps what was within it.
LEMMA BoundedGrows ==
    ASSUME TypeInv, Bounded, limit' \in Nat, limit <= limit',
           UNCHANGED <<submissions, attempts, req>>
    PROVE  Bounded'
<1>1. limit \in Nat
  BY DEF TypeInv, TypeOK, Limits
<1>2. Admitted'
  <2> SUFFICES ASSUME NEW r \in Requests, req[r].pc \in {"read", "grade"}
               PROVE  req[r].number < limit'
    BY DEF Admitted
  <2>1. req[r].number < limit /\ req[r].number \in Nat
    BY DEF Bounded, Admitted, TypeInv, TypeOK, Request
  <2> QED BY <1>1, <2>1
<1>3. CountersWithinLimit'
  <2>1. \A x \in submissions : x.number \in Nat /\ x.number <= limit
    BY DEF Bounded, CountersWithinLimit, TypeInv, TypeOK, Submission
  <2>2. \A a \in attempts : a.number \in Nat /\ a.number <= limit
    BY DEF Bounded, CountersWithinLimit, TypeInv, TypeOK, Attempt
  <2> QED BY <1>1, <2>1, <2>2 DEF CountersWithinLimit
<1> QED BY <1>2, <1>3 DEF Bounded

\* A step that is no request's moves the limit up or leaves it alone.
LEMMA LimitRises ==
    ASSUME TypeInv, ~LowerLimit, NEW n \in Limits, UpdateLimit(n)
    PROVE  limit \in Nat /\ limit' \in Nat /\ limit <= limit'
BY DEF UpdateLimit, Limits, TypeInv, TypeOK

\* No evaluation is admitted at the limit that its check kept, so none passes it.
LEMMA LimitHolds ==
    ASSUME ~LowerLimit
    PROVE  Spec => []LimitInv
<1>1. Init => LimitInv
  <2> SUFFICES ASSUME Init PROVE LimitInv
    OBVIOUS
  <2>1. Admitted /\ \A r \in Requests : req[r].pc # "count"
    BY DEF Init, Admitted, Idle
  <2> QED BY <2>1, TypeInit DEF Init, LimitInv, Bounded, CountersWithinLimit
<1>2. LimitInv /\ [Next]_vars => LimitInv'
  <2> SUFFICES ASSUME LimitInv, [Next]_vars PROVE LimitInv'
    OBVIOUS
  <2>1. TypeInv /\ TypeInv'
    BY TypeNext DEF LimitInv
  <2>2. ASSUME NEW r \in Requests, Arrive(r) \/ Advance(r) \/ Fail(r), ~torn'
        PROVE  /\ Bounded'
               /\ \A q \in Requests : req'[q].pc = "count" => req'[q].max = limit'
    <3>1. ~torn /\ limit' = limit
      BY <2>2, LimitUnmoved
    <3>2. /\ Bounded
          /\ \A q \in Requests : req[q].pc = "count" => req[q].max = limit
      BY <3>1 DEF LimitInv
    <3>3. Fits(r)
      <4>1. \A x \in OfStudent(SubmissionsSeenBy(r), req[r].user) : x.number <= limit
        BY <2>1, <3>2, SeenWithinLimit DEF Bounded, OfStudent
      <4> QED BY <2>1, <3>2, <4>1 DEF Fits, TypeInv, TypeOK, Limits
    <3>4. req'[r].pc = "count" => req'[r].max = limit
      BY <2>1, <2>2, WhoIsAdmitted, ClosedIsNotAdmitted, CheckedDates,
         CheckedAttempts, SolutionRead
    <3>5. \A q \in Requests \ {r} : req'[q] = req[q]
      BY <2>1, <2>2, OneRequestMoves
    <3> QED BY <2>1, <2>2, <3>1, <3>2, <3>3, <3>4, <3>5, BoundedStep
  <2>3. CASE UNCHANGED <<submissions, files, attempts, blob, req, limit, torn>>
    BY <2>1, <2>3 DEF LimitInv, Bounded, CountersWithinLimit, Admitted
  <2>4. ASSUME UNCHANGED <<submissions, files, attempts, blob, req>>,
               NEW n \in Limits, UpdateLimit(n), ~torn'
        PROVE  Bounded' /\ \A r \in Requests : req[r].pc # "count"
    <3>1. ~torn /\ \A r \in Requests : req[r].pc # "count"
      BY <2>4 DEF UpdateLimit
    <3> QED BY <2>1, <2>4, <3>1, LimitRises, BoundedGrows DEF LimitInv
  <2> QED BY <2>1, <2>2, <2>3, <2>4, WhoMoves DEF LimitInv
<1> QED BY <1>1, <1>2, PTL DEF Spec

\* While no limit is lowered, nor changed between the two reads of a check, the
\* comparison with == suffices for the numbers of the attempts: neither a counter
\* nor an attempt's number passes the limit, even when evaluations of one
\* submission overlap.
THEOREM NumbersWithinLimit ==
    ASSUME ~LowerLimit
    PROVE  Spec => []WithinLimit
<1>1. LimitInv => WithinLimit
  BY DEF LimitInv, Bounded, WithinLimit
<1> QED BY <1>1, LimitHolds, PTL

----
(* The score and the history. *)

\* What a reader of rows expects: ids are keys, attempts have their submission,
\* and a submission shows the score of the attempt with the number it shows.
Keys(rows) == \A x, y \in rows : x.id = y.id => x = y

Referenced(rows) == \A a \in attempts : \E x \in rows : x.id = a.sub

Shown(x, history) ==
    IF x.number = 0
      THEN x.score = 0 /\ OfSubmission(history, x.id) = {}
      ELSE \E a \in OfSubmission(history, x.id) :
             a.number = x.number /\ a.score = x.score

\* A committed row was inserted by a request that ended.
Settled ==
    /\ \A x \in submissions : req[x.id].pc = "closed"
    /\ \A a \in attempts : req[a.id].pc = "closed"

HistoryInv ==
    /\ TypeInv
    /\ Keys(submissions)
    /\ Settled
    /\ Referenced(submissions)
    /\ \A x \in submissions : Shown(x, attempts)

\* The row that a request inserted and has not committed keeps the keys, and
\* shows no score before its first attempt: no attempt can refer to it.
LEMMA SeenSound ==
    ASSUME HistoryInv, NEW r \in Requests, req[r].pc \in Steps
    PROVE  /\ SubmissionsSeenBy(r) \subseteq Submission
           /\ Keys(SubmissionsSeenBy(r))
           /\ Referenced(SubmissionsSeenBy(r))
           /\ \A x \in SubmissionsSeenBy(r) :
                (x.id = r \/ req[x.id].pc = "closed") /\ Shown(x, attempts)
<1>1. \A x \in submissions : x.id # r
  BY DEF HistoryInv, Settled, Steps
<1>2. OfSubmission(attempts, r) = {}
  BY <1>1 DEF HistoryInv, Referenced, OfSubmission
<1>3. NewSubmission(r).id = r /\ Shown(NewSubmission(r), attempts)
  BY <1>2 DEF NewSubmission, Shown
<1>4. SubmissionsSeenBy(r) \subseteq Submission
  BY SeenTyped DEF HistoryInv
<1>5. \A x \in SubmissionsSeenBy(r) : x \in submissions \/ x = NewSubmission(r)
  BY DEF SubmissionsSeenBy
<1>6. Keys(SubmissionsSeenBy(r))
  BY <1>1, <1>3, <1>5 DEF HistoryInv, Keys
<1>7. Referenced(SubmissionsSeenBy(r))
  BY DEF HistoryInv, Referenced, SubmissionsSeenBy
<1>8. \A x \in SubmissionsSeenBy(r) :
        (x.id = r \/ req[x.id].pc = "closed") /\ Shown(x, attempts)
  BY <1>3, <1>5 DEF HistoryInv, Settled
<1> QED BY <1>4, <1>6, <1>7, <1>8

\* A request that ended stays ended.
LEMMA ClosedStays ==
    ASSUME TypeInv, NEW r \in Requests, Arrive(r) \/ Advance(r) \/ Fail(r),
           NEW q \in Requests, req[q].pc = "closed"
    PROVE  req'[q].pc = "closed"
BY OneRequestMoves

\* An attempt is named after the request that inserted it.
LEMMA AttemptIds == ASSUME TypeInv PROVE \A a \in attempts : a.id \in Requests
BY DEF TypeInv, TypeOK, Attempt

LEMMA HistoryUpload ==
    ASSUME HistoryInv, NEW r \in Requests, CommitUpload(r)
    PROVE  /\ Keys(submissions)' /\ Settled' /\ Referenced(submissions)'
           /\ \A x \in submissions' : Shown(x, attempts')
<1>1. req[r].pc \in Steps /\ submissions' = SubmissionsSeenBy(r)
      /\ attempts' = attempts
  BY DEF CommitUpload, Steps
<1>2. /\ \A q \in Requests : req[q].pc = "closed" => req'[q].pc = "closed"
      /\ req'[r].pc = "closed"
  BY ClosedIsNotAdmitted, ClosedStays DEF HistoryInv, Advance, CommitUpload
<1>3. Settled'
  BY <1>1, <1>2, SeenSound, AttemptIds DEF HistoryInv, Settled, Submission
<1>4. Keys(submissions)' /\ Referenced(submissions)'
  BY <1>1, SeenSound DEF Keys, Referenced
<1>5. \A x \in submissions' : Shown(x, attempts')
  BY <1>1, SeenSound DEF Shown, OfSubmission
<1> QED BY <1>3, <1>4, <1>5

LEMMA HistoryDelete ==
    ASSUME HistoryInv, NEW r \in Requests, Delete(r)
    PROVE  /\ Keys(submissions)' /\ Settled' /\ Referenced(submissions)'
           /\ \A x \in submissions' : Shown(x, attempts')
<1>1. /\ submissions' = {x \in submissions : x.id # req[r].sub}
      /\ attempts' = {a \in attempts : a.sub # req[r].sub}
  BY DEF Delete, OfSubmission
<1>2. Settled'
  <2>1. \A q \in Requests : req[q].pc = "closed" => req'[q].pc = "closed"
    BY ClosedStays DEF HistoryInv, Advance
  <2> QED BY <1>1, <2>1, AttemptIds
          DEF HistoryInv, Settled, TypeInv, TypeOK, Submission
<1>3. Keys(submissions)'
  BY <1>1 DEF HistoryInv, Keys
<1>4. Referenced(submissions)'
  BY <1>1 DEF HistoryInv, Referenced
<1>5. ASSUME NEW x \in submissions'
      PROVE  Shown(x, attempts')
  <2>1. OfSubmission(attempts', x.id) = OfSubmission(attempts, x.id)
    BY <1>1 DEF OfSubmission
  <2>2. Shown(x, attempts)
    BY <1>1 DEF HistoryInv
  <2> QED BY <2>1, <2>2 DEF Shown
<1> QED BY <1>2, <1>3, <1>4, <1>5

LEMMA HistoryGrade ==
    ASSUME HistoryInv, NEW r \in Requests, NEW v \in Scores,
           Grade(r, v), SubmissionExists(r)
    PROVE  /\ Keys(submissions)' /\ Settled' /\ Referenced(submissions)'
           /\ \A x \in submissions' : Shown(x, attempts')
<1> DEFINE i == req[r].sub
           a == NewAttempt(r, v)
           new(x) == IF x.id = i THEN Graded(x, r, v) ELSE x
<1>1. /\ req[r].pc \in Steps
      /\ submissions' = {new(x) : x \in SubmissionsSeenBy(r)}
      /\ attempts' = attempts \cup {a}
  BY DEF Grade, Steps
<1>2. /\ a.sub = i /\ a.score = v
      /\ a.number = req[r].number + 1 /\ a.number # 0
  BY DEF NewAttempt, HistoryInv, TypeInv, TypeOK, Request
<1>3. ASSUME NEW x \in SubmissionsSeenBy(r)
      PROVE  /\ new(x).id = x.id
             /\ x.id = i => new(x).score = v /\ new(x).number = a.number
             /\ x.id # i => new(x) = x
  BY <1>1, <1>2, SeenSound DEF Graded, Submission
<1> HIDE DEF a, new
<1>4. Keys(submissions)'
  BY <1>1, <1>3, SeenSound DEF Keys
<1>5. Referenced(submissions)'
  <2>1. \E x \in SubmissionsSeenBy(r) : x.id = i
    BY DEF SubmissionExists
  <2>2. \A b \in attempts' : \E x \in SubmissionsSeenBy(r) : x.id = b.sub
    BY <1>1, <1>2, <2>1, SeenSound DEF Referenced
  <2> QED BY <1>1, <1>3, <2>2 DEF Referenced
<1>6. Settled'
  <2>1. /\ \A q \in Requests : req[q].pc = "closed" => req'[q].pc = "closed"
        /\ req'[r].pc = "closed"
    BY ClosedIsNotAdmitted, ClosedStays DEF HistoryInv, Advance, Grade
  <2>2. \A x \in SubmissionsSeenBy(r) :
          x.id \in Requests /\ (x.id = r \/ req[x.id].pc = "closed")
    BY <1>1, SeenSound DEF Submission
  <2>3. a.id = r
    BY DEF a, NewAttempt
  <2> QED BY <1>1, <1>3, <2>1, <2>2, <2>3, AttemptIds DEF HistoryInv, Settled
<1>7. ASSUME NEW x \in SubmissionsSeenBy(r)
      PROVE  Shown(new(x), attempts')
  <2>1. CASE x.id = i
    BY <1>1, <1>2, <1>3, <2>1 DEF Shown, OfSubmission
  <2>2. CASE x.id # i
    <3>1. OfSubmission(attempts', x.id) = OfSubmission(attempts, x.id)
      BY <1>1, <1>2, <2>2 DEF OfSubmission
    <3>2. Shown(x, attempts) /\ new(x) = x
      BY <1>1, <1>3, <2>2, SeenSound
    <3> QED BY <3>1, <3>2 DEF Shown
  <2> QED BY <2>1, <2>2
<1> QED BY <1>1, <1>4, <1>5, <1>6, <1>7

\* The commits of uploads, gradings and deletions keep the history sound.
LEMMA HistoryHolds == Spec => []HistoryInv
<1>1. Init => HistoryInv
  BY TypeInit DEF Init, HistoryInv, Keys, Settled, Referenced
<1>2. HistoryInv /\ [Next]_vars => HistoryInv'
  <2> SUFFICES ASSUME HistoryInv, [Next]_vars PROVE HistoryInv'
    OBVIOUS
  <2>1. TypeInv'
    BY TypeNext DEF HistoryInv
  <2>2. ASSUME NEW r \in Requests, Arrive(r) \/ Advance(r) \/ Fail(r)
        PROVE  HistoryInv'
    <3>1. CASE UNCHANGED <<submissions, attempts>>
      <4>1. Settled'
        BY <2>2, <3>1, ClosedStays, AttemptIds
           DEF HistoryInv, Settled, TypeInv, TypeOK, Submission
      <4> QED BY <2>1, <3>1, <4>1
              DEF HistoryInv, Keys, Referenced, Shown, OfSubmission
    <3>2. CASE CommitUpload(r) \/ Delete(r)
               \/ \E v \in Scores : Grade(r, v) /\ SubmissionExists(r)
      BY <2>1, <3>2, HistoryUpload, HistoryDelete, HistoryGrade DEF HistoryInv
    <3> QED BY <2>2, <3>1, <3>2, WhatCommits
  <2>3. CASE UNCHANGED <<submissions, files, attempts, blob, req>>
    BY <2>1, <2>3
       DEF HistoryInv, Keys, Settled, Referenced, Shown, OfSubmission
  <2> QED BY <2>2, <2>3, WhoMoves
<1> QED BY <1>1, <1>2, PTL DEF Spec

\* The score a submission shows is always that of one of its attempts, the one
\* with the number it shows, whatever evaluations, uploads and deletions overlap:
\* the update of the submission and its attempt commit together.
THEOREM ScoreIsAnAttempts == Spec => []ScoreHasItsAttempt
<1>1. HistoryInv => ScoreHasItsAttempt
  BY DEF HistoryInv, ScoreHasItsAttempt, Shown
<1> QED BY <1>1, HistoryHolds, PTL

\* Attempts are never edited and disappear only with their submission, and a
\* submission's score and counter change only with a new attempt of it: the
\* upload, the failures and the other requests' commits leave them alone.
THEOREM HistoryKept == Spec => HistoryIsAppendOnly
<1> DEFINE Kept ==
      /\ \A a \in attempts :
           a \in attempts' \/ \A x \in submissions' : x.id # a.sub
      /\ \A x \in submissions :
           \/ x \in submissions'
           \/ \A y \in submissions' : y.id # x.id
           \/ \E a \in attempts' \ attempts : a.sub = x.id
<1>1. HistoryInv /\ [Next]_vars => [Kept]_vars
  <2> SUFFICES ASSUME HistoryInv, [Next]_vars PROVE Kept
    OBVIOUS
  <2>1. CASE UNCHANGED <<submissions, attempts>>
    BY <2>1
  <2>2. ASSUME NEW r \in Requests, CommitUpload(r)
        PROVE  Kept
    BY <2>2 DEF CommitUpload, SubmissionsSeenBy
  <2>3. ASSUME NEW r \in Requests, Delete(r)
        PROVE  Kept
    BY <2>3 DEF Delete, OfSubmission
  <2>4. ASSUME NEW r \in Requests, NEW v \in Scores,
               Grade(r, v), SubmissionExists(r)
        PROVE  Kept
    <3>1. NewAttempt(r, v) \in attempts' /\ NewAttempt(r, v).sub = req[r].sub
      BY <2>4 DEF Grade, NewAttempt
    <3>2. NewAttempt(r, v) \notin attempts
      BY <2>4 DEF Grade, NewAttempt, HistoryInv, Settled
    <3>3. attempts \subseteq attempts'
      BY <2>4 DEF Grade
    <3>4. ASSUME NEW x \in submissions, x.id # req[r].sub
          PROVE  x \in submissions'
      BY <2>4, <3>4 DEF Grade, SubmissionsSeenBy
    <3> QED BY <3>1, <3>2, <3>3, <3>4
  <2> QED BY <2>1, <2>2, <2>3, <2>4, WhoMoves, WhatCommits
<1>2. Spec => [][Kept]_vars
  BY <1>1, HistoryHolds, PTL DEF Spec
<1> QED BY <1>2 DEF HistoryIsAppendOnly

----
(* The rows: every submission has one file row, with a stored notebook behind
   it, and what belongs to a student is touched by that student's requests. *)

\* What a request in flight holds for the rows it will commit:
\* the row it works on is its own, or one committed before by a request that
\* ended, which no later commit can bring back once it was deleted;
\* past "store" there is a notebook behind its own row, and past "insert" a file;
\* a file row it inserted is that of its own submission;
\* what it grades or deletes is a submission of its student.
Works(r) ==
    /\ req[r].sub \in {r, None} \/ req[req[r].sub].pc = "closed"
    /\ req[r].sub = r /\ req[r].pc # "store" => blob[req[r].user] # None
    /\ req[r].sub = r =>
         req[r].pc \in {"store", "locate", "insert", "commit",
                        "check", "count", "read", "grade"}
    /\ req[r].sub = r /\ req[r].pc \in {"commit", "check", "count", "read", "grade"}
         => req[r].file = r
    /\ req[r].file = r => req[r].sub = r
    /\ req[r].pc = "insert" /\ req[r].sub # r =>
         \A x \in submissions : x.id # req[r].sub
    /\ req[r].pc \in {"read", "grade", "delete"} =>
         \A x \in submissions : x.id = req[r].sub => x.user = req[r].user

\* A file row is inserted with its submission and takes the same name.
Twins == \A f \in files : f.id = f.sub

IntegrityInv ==
    /\ HistoryInv
    /\ Integrity
    /\ Twins
    /\ \A r \in Requests : Works(r)

\* One step writes to Dropbox.
LEMMA WhoStores ==
    ASSUME NEW r \in Requests, Arrive(r) \/ Advance(r) \/ Fail(r)
    PROVE  blob' = blob \/ StoreNotebook(r)
BY DEF Arrive, Advance, Fail, AddSubmission, EvaluateSubmission,
     EvaluateEmbeddedNotebook, DeleteSubmission, Begin, Admit,
     FindOrAddSubmission, LocateFile, UpdateFile, InsertFile, CommitUpload,
     CheckDates, CheckAttempts, ReadSolution, Grade, Delete

\* A request's step commits rows of its own, changes no row's student, and
\* leaves every path that holds a notebook with one.
LEMMA StudentsKept ==
    ASSUME IntegrityInv, NEW r \in Requests, Arrive(r) \/ Advance(r) \/ Fail(r)
    PROVE  /\ \A x \in submissions' :
                x.id = r \/ \E y \in submissions : y.id = x.id /\ y.user = x.user
           /\ \A u \in Students : blob[u] # None => blob'[u] # None
<1>1. \A u \in Students : blob[u] # None => blob'[u] # None
  BY WhoStores, SubmissionsAssumption
     DEF StoreNotebook, IntegrityInv, HistoryInv, TypeInv, TypeOK
<1>2. \A x \in SubmissionsSeenBy(r) :
        x.id = r \/ \E y \in submissions : y.id = x.id /\ y.user = x.user
  BY DEF SubmissionsSeenBy, NewSubmission
<1>3. ASSUME NEW v \in Scores, Grade(r, v), SubmissionExists(r),
             NEW x \in submissions'
      PROVE  x.id = r \/ \E y \in submissions : y.id = x.id /\ y.user = x.user
  <2>1. PICK y \in SubmissionsSeenBy(r) :
          x = IF y.id = req[r].sub THEN Graded(y, r, v) ELSE y
    BY <1>3 DEF Grade
  <2>2. y \in Submission
    BY <1>3, SeenSound DEF Grade, Steps, IntegrityInv
  <2>3. x.id = y.id /\ x.user = y.user
    BY <2>1, <2>2 DEF Graded, Submission
  <2> QED BY <1>2, <2>3
<1> QED BY <1>1, <1>2, <1>3, WhatCommits DEF CommitUpload, Delete

\* The requests that do not move keep what they hold.
LEMMA OthersWork ==
    ASSUME IntegrityInv, NEW r \in Requests, Arrive(r) \/ Advance(r) \/ Fail(r),
           NEW q \in Requests \ {r}
    PROVE  Works(q)'
<1>1. /\ req'[q] = req[q] /\ req[r].pc # "closed"
      /\ \A p \in Requests : req[p].pc = "closed" => req'[p].pc = "closed"
  BY OneRequestMoves DEF IntegrityInv, HistoryInv
<1>2. Works(q) /\ req[q] \in Request
  BY DEF IntegrityInv, HistoryInv, TypeInv, TypeOK
<1>3. req[q].sub # None => req[q].sub \in Requests
  BY <1>2 DEF Request
<1>4. req[q].sub = q /\ req[q].pc # "store" => blob'[req[q].user] # None
  <2>1. req[q].sub = q => req[q].user \in Students
    BY <1>2, InFlight DEF IntegrityInv, HistoryInv, Works, Steps
  <2> QED BY <1>2, <2>1, StudentsKept DEF Works
<1>5. req[q].sub # q => req[q].sub # r
  BY <1>1, <1>2, SubmissionsAssumption DEF Works
<1>6. req[q].pc = "insert" /\ req[q].sub # q =>
        \A x \in submissions' : x.id # req[q].sub
  BY <1>2, <1>5, StudentsKept DEF Works
<1>7. ASSUME req[q].pc \in {"read", "grade", "delete"},
             NEW x \in submissions', x.id = req[q].sub
      PROVE  x.user = req[q].user
  <2>1. x.id # r
    BY <1>5, <1>7
  <2> QED BY <1>2, <1>7, <2>1, StudentsKept DEF Works
<1>8. req'[q].sub \in {q, None} \/ req'[req'[q].sub].pc = "closed"
  BY <1>1, <1>2, <1>3 DEF Works
<1> QED BY <1>1, <1>2, <1>4, <1>6, <1>7, <1>8 DEF Works

\* A request that ended holds nothing.
LEMMA ClosedWorks ==
    ASSUME TypeInv, NEW r \in Requests, Close(r)
    PROVE  Works(r)'
<1>1. req'[r] = Closed
  BY DEF Close, TypeInv, TypeOK
<1>2. Closed.sub = None /\ Closed.file = None /\ Closed.pc = "closed"
  BY DEF Closed, Idle
<1> QED BY <1>1, <1>2, SubmissionsAssumption DEF Works

LEMMA ArriveWorks ==
    ASSUME IntegrityInv, NEW r \in Requests, Arrive(r)
    PROVE  Works(r)'
<1> USE DEF IntegrityInv, HistoryInv
<1>1. ASSUME NEW u \in Students, NEW k, NEW pc \in {"admit", "check"},
             Begin(r, u, k, pc)
      PROVE  Works(r)'
  <2>1. req'[r].pc = pc /\ req'[r].sub = None /\ req'[r].file = None
    BY <1>1 DEF Begin, Idle, TypeInv, TypeOK
  <2> QED BY <2>1, SubmissionsAssumption DEF Works
<1>2. ASSUME NEW u \in Students, NEW i \in Requests, DeleteSubmission(r, u, i)
      PROVE  Works(r)'
  <2>1. /\ req'[r].pc = "delete" /\ req'[r].sub = i /\ req'[r].file = None
        /\ req'[r].user = u /\ req[r].pc = "idle"
    BY <1>2 DEF DeleteSubmission, MayBegin, Idle, TypeInv, TypeOK
  <2>2. req[i].pc = "closed"
    BY <1>2 DEF DeleteSubmission, Settled
  <2>3. i # r /\ req'[i] = req[i]
    BY <1>2, <2>1, <2>2 DEF DeleteSubmission, TypeInv, TypeOK
  <2>4. \A x \in submissions' : x.id = i => x.user = u
    BY <1>2 DEF DeleteSubmission, Keys, tables
  <2> QED BY <2>1, <2>2, <2>3, <2>4, SubmissionsAssumption DEF Works
<1> QED BY <1>1, <1>2 DEF Arrive, AddSubmission, EvaluateSubmission,
                          EvaluateEmbeddedNotebook

\* A request that only goes on keeps its locals.
LEMMA GotoKeeps ==
    ASSUME TypeInv, NEW r \in Requests, NEW pc \in Steps, Goto(r, pc)
    PROVE  /\ req'[r].pc = pc
           /\ req'[r].sub = req[r].sub /\ req'[r].file = req[r].file
           /\ req'[r].user = req[r].user
           /\ \A q \in Requests \ {r} : req'[q] = req[q]
BY DEF Goto, TypeInv, TypeOK, Request

LEMMA UploadWorks ==
    ASSUME IntegrityInv, NEW r \in Requests,
           \/ Admit(r) \/ FindOrAddSubmission(r) \/ StoreNotebook(r)
           \/ LocateFile(r) \/ UpdateFile(r) \/ InsertFile(r)
    PROVE  Works(r)'
<1> USE DEF IntegrityInv, HistoryInv
<1>0. /\ Works(r) /\ req[r] \in Request
      /\ req[r].sub # None => req[r].sub \in Requests
      /\ req[r].pc \in Steps => req[r].user \in Students
      /\ r # None
  BY SubmissionsAssumption DEF TypeInv, TypeOK, LocalsOK, Request
<1>1. ASSUME ~Close(r), Admit(r)
      PROVE  Works(r)'
  BY <1>0, <1>1, GotoKeeps DEF Admit, Works, Steps
<1>2. ASSUME ~Close(r), FindOrAddSubmission(r)
      PROVE  Works(r)'
  <2> DEFINE found == OfStudent(submissions, req[r].user)
  <2>1. /\ req[r].pc = "find" /\ submissions' = submissions
        /\ req' = [req EXCEPT ![r].pc = "store",
                      ![r].sub = IF found = {} THEN r
                                 ELSE (CHOOSE x \in found : TRUE).id]
    BY <1>2 DEF FindOrAddSubmission, tables
  <2>2. req'[r].pc = "store" /\ req'[r].file = req[r].file /\ req[r].file # r
    BY <1>0, <2>1 DEF Works, TypeInv, TypeOK, Request
  <2>3. \/ req'[r].sub = r
        \/ \E x \in submissions : req'[r].sub = x.id
    BY <2>1 DEF OfStudent, TypeInv, TypeOK, Request
  <2>4. \A x \in submissions :
          req[x.id].pc = "closed" /\ req'[x.id] = req[x.id] /\ x.id # r
    BY <2>1 DEF Settled, TypeInv, TypeOK, Submission
  <2> QED BY <1>0, <2>2, <2>3, <2>4 DEF Works
<1>3. ASSUME ~Close(r), StoreNotebook(r)
      PROVE  Works(r)'
  <2>1. req[r].pc = "store" /\ Goto(r, "locate") /\ submissions' = submissions
    BY <1>3 DEF StoreNotebook, tables
  <2>2. blob'[req[r].user] # None
    BY <1>0, <1>3, <2>1 DEF StoreNotebook, Path, TypeInv, TypeOK, Steps
  <2> QED BY <1>0, <2>1, <2>2, GotoKeeps DEF Works, Steps
<1>4. ASSUME ~Close(r), LocateFile(r)
      PROVE  Works(r)'
  <2> DEFINE found == OfSubmission(files, req[r].sub)
             Located(f) == req' = [req EXCEPT ![r].pc = "update", ![r].file = f.id]
  <2>1. req[r].pc = "locate" /\ submissions' = submissions /\ blob' = blob
    BY <1>4 DEF LocateFile, tables
  <2>2. CASE found = {} /\ Goto(r, "insert")
    <3>1. \A x \in submissions : x.id # req[r].sub
      BY <2>2 DEF Integrity
    <3> QED BY <1>0, <2>1, <2>2, <3>1, GotoKeeps DEF Works, Steps
  <2>3. CASE \E f \in found : Located(f)
    <3>1. PICK f \in found : Located(f)
      BY <2>3
    <3>2. f \in files /\ f.sub = req[r].sub /\ f.id = f.sub
      BY <3>1 DEF OfSubmission, Twins
    <3>3. req[r].sub # r
      BY <2>1, <3>2 DEF Integrity, Settled
    <3>4. /\ req'[r].pc = "update" /\ req'[r].file = f.id
          /\ req'[r].sub = req[r].sub /\ req'[r].user = req[r].user
          /\ \A q \in Requests \ {r} : req'[q] = req[q]
      BY <3>1 DEF TypeInv, TypeOK, Request
    <3> QED BY <1>0, <3>2, <3>3, <3>4 DEF Works
  <2>4. \/ found = {} /\ Goto(r, "insert")
        \/ \E f \in found : Located(f)
    <3>1. \/ found = {} /\ Goto(r, "insert")
          \/ /\ \E f \in found : found = {f}
             /\ req' = [req EXCEPT ![r].pc = "update",
                                   ![r].file = (CHOOSE f \in found : TRUE).id]
      BY <1>4 DEF LocateFile
    <3> QED BY <3>1
  <2> QED BY <2>2, <2>3, <2>4
<1>5. ASSUME ~Close(r), UpdateFile(r)
      PROVE  Works(r)'
  <2>1. req[r].pc = "update" /\ submissions' = submissions
    BY <1>5 DEF UpdateFile, tables
  <2>2. /\ req'[r].pc \in {"commit", "check"}
        /\ req'[r].sub = req[r].sub /\ req'[r].file = req[r].file
        /\ \A q \in Requests \ {r} : req'[q] = req[q]
    BY <1>0, <1>5 DEF UpdateFile, AfterUpload, TypeInv, TypeOK, Request
  <2> QED BY <1>0, <2>1, <2>2 DEF Works
<1>6. ASSUME ~Close(r), InsertFile(r)
      PROVE  Works(r)'
  <2>1. /\ req[r].pc = "insert" /\ SubmissionExists(r)
        /\ submissions' = submissions /\ blob' = blob
    BY <1>6 DEF InsertFile, tables
  <2>2. req[r].sub = r
    BY <1>0, <2>1 DEF SubmissionExists, SubmissionsSeenBy, Works
  <2>3. /\ req'[r].pc \in {"commit", "check"}
        /\ req'[r].sub = r /\ req'[r].file = r /\ req'[r].user = req[r].user
    BY <1>0, <1>6, <2>1, <2>2 DEF InsertFile, AfterUpload, TypeInv, TypeOK, Request
  <2> QED BY <1>0, <2>1, <2>2, <2>3 DEF Works
<1> QED BY <1>1, <1>2, <1>3, <1>4, <1>5, <1>6, ClosedWorks

LEMMA EvaluationWorks ==
    ASSUME IntegrityInv, NEW r \in Requests,
           CheckDates(r) \/ CheckAttempts(r) \/ ReadSolution(r)
    PROVE  Works(r)'
<1> USE DEF IntegrityInv, HistoryInv
<1>0. /\ Works(r) /\ req[r] \in Request
      /\ submissions' = submissions /\ blob' = blob /\ r # None
  BY SubmissionsAssumption
     DEF TypeInv, TypeOK, CheckDates, CheckAttempts, ReadSolution, tables
<1>1. ASSUME ~Close(r), CheckAttempts(r)
      PROVE  Works(r)'
  <2>1. PICK x \in OfStudent(SubmissionsSeenBy(r), req[r].user) :
          /\ req[r].pc = "count"
          /\ OfStudent(SubmissionsSeenBy(r), req[r].user) = {x}
          /\ req' = [req EXCEPT ![r].pc = "read", ![r].sub = x.id,
                                ![r].max = 0, ![r].number = x.number]
    BY <1>1 DEF CheckAttempts
  <2>2. /\ req'[r].pc = "read" /\ req'[r].sub = x.id
        /\ req'[r].file = req[r].file /\ req'[r].user = req[r].user
        /\ \A q \in Requests \ {r} : req'[q] = req[q]
    BY <2>1 DEF TypeInv, TypeOK, Request
  <2>3. x \in SubmissionsSeenBy(r) /\ x.user = req[r].user
    BY DEF OfStudent
  <2>4. \A y \in submissions :
          req[y.id].pc = "closed" /\ req'[y.id] = req[y.id] /\ y.id # r
    BY <2>1, <2>2 DEF Settled, TypeInv, TypeOK, Submission
  <2>5. CASE req[r].sub = r
    <3>1. x = NewSubmission(r)
      BY <2>1, <2>5 DEF OfStudent, SubmissionsSeenBy, NewSubmission
    <3>2. x.id = r /\ req[r].file = r /\ blob[req[r].user] # None
      BY <1>0, <2>1, <2>5, <3>1 DEF NewSubmission, Works
    <3> QED BY <1>0, <2>2, <2>4, <3>2 DEF Works
  <2>6. CASE req[r].sub # r
    <3>1. x \in submissions /\ req[r].file # r
      BY <1>0, <2>3, <2>6 DEF SubmissionsSeenBy, Works
    <3>2. \A y \in submissions : y.id = x.id => y.user = req[r].user
      BY <2>3, <3>1 DEF Keys
    <3> QED BY <1>0, <2>2, <2>4, <3>1, <3>2 DEF Works
  <2> QED BY <2>5, <2>6
<1>2. ASSUME ~Close(r), ReadSolution(r)
      PROVE  Works(r)'
  <2>1. /\ req[r].pc = "read" /\ req'[r].pc = "grade"
        /\ req'[r].sub = req[r].sub /\ req'[r].file = req[r].file
        /\ req'[r].user = req[r].user
        /\ \A q \in Requests \ {r} : req'[q] = req[q]
    BY <1>2 DEF ReadSolution, TypeInv, TypeOK, Request
  <2>2. req[r].sub # None => req[r].sub \in Requests
    BY <1>0 DEF Request
  <2> QED BY <1>0, <2>1, <2>2 DEF Works
<1>3. ASSUME ~Close(r), CheckDates(r)
      PROVE  Works(r)'
  <2>1. /\ req[r].pc = "check" /\ req'[r].pc = "count"
        /\ req'[r].sub = req[r].sub /\ req'[r].file = req[r].file
        /\ req'[r].user = req[r].user
        /\ \A q \in Requests \ {r} : req'[q] = req[q]
    BY <1>3 DEF CheckDates, TypeInv, TypeOK, Request
  <2>2. req[r].sub # None => req[r].sub \in Requests
    BY <1>0 DEF Request
  <2> QED BY <1>0, <2>1, <2>2 DEF Works
<1> QED BY <1>1, <1>2, <1>3, ClosedWorks

LEMMA WorksKept ==
    ASSUME IntegrityInv, NEW r \in Requests, Arrive(r) \/ Advance(r) \/ Fail(r)
    PROVE  \A q \in Requests : Works(q)'
<1>1. CommitUpload(r) \/ Delete(r) \/ Fail(r) \/ (\E v \in Scores : Grade(r, v))
        => Close(r)
  BY DEF CommitUpload, Delete, Fail, Grade
<1>2. Works(r)'
  BY <1>1, ClosedWorks, ArriveWorks, UploadWorks, EvaluationWorks
     DEF Advance, IntegrityInv, HistoryInv
<1> QED BY <1>2, OthersWork

----
(* The rows that commits leave. *)

\* What r would commit: its row has its file row and a stored notebook.
LEMMA SeenIntegral ==
    ASSUME IntegrityInv, NEW r \in Requests,
           req[r].pc \in {"commit", "grade"}
    PROVE  /\ \A x \in SubmissionsSeenBy(r) :
                /\ \E f \in FilesSeenBy(r) :
                     OfSubmission(FilesSeenBy(r), x.id) = {f}
                /\ blob[x.user] # None
           /\ \A f \in FilesSeenBy(r) :
                f.id = f.sub /\ \E x \in SubmissionsSeenBy(r) : x.id = f.sub
           /\ \A a \in attempts :
                \E x \in SubmissionsSeenBy(r) : x.id = a.sub /\ x.user = a.user
<1> USE DEF IntegrityInv, Integrity, Twins
<1>1. \A x \in submissions : x.id # r
  BY DEF HistoryInv, Settled
<1>2. submissions \subseteq SubmissionsSeenBy(r)
  BY DEF SubmissionsSeenBy
<1>3. CASE req[r].sub = r
  <2> DEFINE new == [id |-> r, sub |-> r]
  <2>1. req[r].file = r /\ blob[req[r].user] # None
    BY <1>3 DEF Works
  <2>2. /\ FilesSeenBy(r) = files \cup {new}
        /\ SubmissionsSeenBy(r) = submissions \cup {NewSubmission(r)}
    BY <1>3, <2>1 DEF FilesSeenBy, SubmissionsSeenBy
  <2>3. NewSubmission(r).id = r /\ NewSubmission(r).user = req[r].user
    BY DEF NewSubmission
  <2>4. new.id = r /\ new.sub = r
    OBVIOUS
  <2>5. \A f \in files : f.sub # r
    BY <1>1
  <2> HIDE DEF new
  <2>6. OfSubmission(FilesSeenBy(r), r) = {new}
    BY <2>2, <2>4, <2>5 DEF OfSubmission
  <2>7. \A x \in submissions :
          OfSubmission(FilesSeenBy(r), x.id) = OfSubmission(files, x.id)
    BY <1>1, <2>2, <2>4 DEF OfSubmission
  <2>8. ASSUME NEW x \in SubmissionsSeenBy(r)
        PROVE  /\ \E f \in FilesSeenBy(r) : OfSubmission(FilesSeenBy(r), x.id) = {f}
               /\ blob[x.user] # None
    <3>1. CASE x \in submissions
      BY <2>2, <2>7, <3>1 DEF Path
    <3>2. CASE x = NewSubmission(r)
      BY <2>1, <2>2, <2>3, <2>6, <3>2
    <3> QED BY <2>2, <3>1, <3>2
  <2>9. \A f \in FilesSeenBy(r) :
          f.id = f.sub /\ \E x \in SubmissionsSeenBy(r) : x.id = f.sub
    BY <2>2, <2>3, <2>4
  <2> QED BY <1>2, <2>8, <2>9
<1>4. CASE req[r].sub # r
  <2>1. req[r].file # r
    BY <1>4 DEF Works
  <2>2. FilesSeenBy(r) = files /\ SubmissionsSeenBy(r) = submissions
    BY <1>4, <2>1 DEF FilesSeenBy, SubmissionsSeenBy
  <2> QED BY <2>2 DEF Path
<1> QED BY <1>3, <1>4

LEMMA IntegrityUpload ==
    ASSUME IntegrityInv, NEW r \in Requests, CommitUpload(r)
    PROVE  Integrity' /\ Twins'
<1>1. /\ req[r].pc = "commit" /\ attempts' = attempts /\ blob' = blob
      /\ submissions' = SubmissionsSeenBy(r) /\ files' = FilesSeenBy(r)
  BY DEF CommitUpload
<1> QED BY <1>1, SeenIntegral DEF Integrity, Twins, OfSubmission, Path

LEMMA IntegrityGrade ==
    ASSUME IntegrityInv, NEW r \in Requests, NEW v \in Scores,
           Grade(r, v), SubmissionExists(r)
    PROVE  Integrity' /\ Twins'
<1> DEFINE i == req[r].sub
           a == NewAttempt(r, v)
           new(x) == IF x.id = i THEN Graded(x, r, v) ELSE x
<1>1. /\ req[r].pc = "grade" /\ blob' = blob
      /\ submissions' = {new(x) : x \in SubmissionsSeenBy(r)}
      /\ files' = FilesSeenBy(r)
      /\ attempts' = attempts \cup {a}
  BY DEF Grade
<1>2. a.sub = i /\ a.user = req[r].user
  BY DEF NewAttempt
<1>3. ASSUME NEW x \in SubmissionsSeenBy(r)
      PROVE  new(x).id = x.id /\ new(x).user = x.user
  BY <1>1, SeenSound DEF Graded, Submission, Steps, IntegrityInv
<1>4. \E x \in SubmissionsSeenBy(r) : x.id = i /\ x.user = req[r].user
  <2>1. PICK x \in SubmissionsSeenBy(r) : x.id = i
    BY DEF SubmissionExists
  <2>2. x.user = req[r].user
    BY <1>1, <2>1 DEF SubmissionsSeenBy, NewSubmission, IntegrityInv, Works
  <2> QED BY <2>1, <2>2
<1> HIDE DEF a, new
<1>5. Twins'
  BY <1>1, SeenIntegral DEF Twins
<1>6. ASSUME NEW x \in submissions'
      PROVE  /\ \E f \in files' : OfSubmission(files', x.id) = {f}
             /\ blob'[x.user] # None
  <2>1. PICK y \in SubmissionsSeenBy(r) : x.id = y.id /\ x.user = y.user
    BY <1>1, <1>3
  <2>2. PICK f \in FilesSeenBy(r) : OfSubmission(FilesSeenBy(r), y.id) = {f}
    BY <1>1, SeenIntegral
  <2>3. OfSubmission(files', x.id) = {f} /\ f \in files'
    BY <1>1, <2>1, <2>2
  <2> QED BY <1>1, <2>1, <2>3, SeenIntegral
<1>7. \A f \in files' : \E x \in submissions' : x.id = f.sub
  BY <1>1, <1>3, SeenIntegral
<1>8. \A b \in attempts' : \E x \in submissions' : x.id = b.sub /\ x.user = b.user
  <2>1. \A b \in attempts' :
          \E x \in SubmissionsSeenBy(r) : x.id = b.sub /\ x.user = b.user
    BY <1>1, <1>2, <1>4, SeenIntegral
  <2> QED BY <1>1, <1>3, <2>1
<1> QED BY <1>5, <1>6, <1>7, <1>8 DEF Integrity, Path, OfSubmission

LEMMA IntegrityDelete ==
    ASSUME IntegrityInv, NEW r \in Requests, Delete(r)
    PROVE  Integrity' /\ Twins'
<1>1. /\ submissions' = {x \in submissions : x.id # req[r].sub}
      /\ files' = {f \in files : f.sub # req[r].sub}
      /\ attempts' = {a \in attempts : a.sub # req[r].sub}
      /\ blob' = blob
  BY DEF Delete, OfSubmission
<1>2. ASSUME NEW x \in submissions'
      PROVE  /\ \E f \in files' : OfSubmission(files', x.id) = {f}
             /\ blob'[x.user] # None
  <2>1. OfSubmission(files', x.id) = OfSubmission(files, x.id)
    BY <1>1 DEF OfSubmission
  <2>2. PICK f \in files : OfSubmission(files, x.id) = {f}
    BY <1>1 DEF IntegrityInv, Integrity
  <2>3. f \in files'
    BY <1>1, <2>2 DEF OfSubmission
  <2> QED BY <1>1, <2>1, <2>2, <2>3 DEF IntegrityInv, Integrity, Path
<1>3. /\ \A f \in files' : f.id = f.sub /\ \E x \in submissions' : x.id = f.sub
      /\ \A a \in attempts' :
           \E x \in submissions' : x.id = a.sub /\ x.user = a.user
  BY <1>1 DEF IntegrityInv, Integrity, Twins
<1> QED BY <1>2, <1>3 DEF Integrity, Twins, Path, OfSubmission

\* The steps that change file rows are those that change submissions.
LEMMA FilesCommit ==
    ASSUME NEW r \in Requests, Arrive(r) \/ Advance(r) \/ Fail(r)
    PROVE  \/ UNCHANGED <<submissions, files, attempts>>
           \/ CommitUpload(r) \/ Delete(r)
           \/ \E v \in Scores : Grade(r, v) /\ SubmissionExists(r)
BY DEF Arrive, Advance, Fail, AddSubmission, EvaluateSubmission,
     EvaluateEmbeddedNotebook, DeleteSubmission, Begin, Admit,
     FindOrAddSubmission, StoreNotebook, LocateFile, UpdateFile, InsertFile,
     CheckDates, CheckAttempts, ReadSolution, Grade, tables

LEMMA IntegrityStep ==
    ASSUME IntegrityInv, NEW r \in Requests, Arrive(r) \/ Advance(r) \/ Fail(r)
    PROVE  Integrity' /\ Twins'
<1>1. CASE UNCHANGED <<submissions, files, attempts>>
  <2>1. \A x \in submissions : x.user \in Students /\ blob'[x.user] # None
    BY StudentsKept
       DEF IntegrityInv, Integrity, Path, HistoryInv, TypeInv, TypeOK, Submission
  <2> QED BY <1>1, <2>1 DEF IntegrityInv, Integrity, Twins, Path, OfSubmission
<1> QED BY <1>1, FilesCommit, IntegrityUpload, IntegrityGrade, IntegrityDelete

\* The commits of uploads, gradings and deletions keep the rows integral.
LEMMA IntegrityHolds == Spec => []IntegrityInv
<1>1. Init => Integrity /\ Twins /\ \A r \in Requests : Works(r)
  BY SubmissionsAssumption DEF Init, Integrity, Twins, Works, Idle
<1>2. IntegrityInv /\ HistoryInv' /\ [Next]_vars => IntegrityInv'
  <2> SUFFICES ASSUME IntegrityInv, HistoryInv', [Next]_vars PROVE IntegrityInv'
    OBVIOUS
  <2>1. ASSUME NEW r \in Requests, Arrive(r) \/ Advance(r) \/ Fail(r)
        PROVE  IntegrityInv'
    BY <2>1, IntegrityStep, WorksKept DEF IntegrityInv
  <2>2. CASE UNCHANGED <<submissions, files, attempts, blob, req>>
    BY <2>2 DEF IntegrityInv, Integrity, Twins, Works, OfSubmission, Path
  <2> QED BY <2>1, <2>2, WhoMoves
<1>3. HistoryInv /\ Integrity /\ Twins /\ (\A r \in Requests : Works(r))
        => IntegrityInv
  BY DEF IntegrityInv
<1> QED BY <1>1, <1>2, <1>3, HistoryHolds, PTL DEF Spec

\* However uploads, gradings and deletions of a student overlap and fail, every
\* committed submission has exactly one file row and a stored notebook behind it,
\* and no file row or attempt outlives its submission or changes its student.
THEOREM RowsAreIntegral == Spec => []Integrity
<1>1. IntegrityInv => Integrity
  BY DEF IntegrityInv
<1> QED BY <1>1, IntegrityHolds, PTL

----
(* Whose rows a step touches. *)

\* A request's step changes its record: it goes on, or ends.
LEMMA RequestsMove ==
    ASSUME TypeInv, NEW r \in Requests, Arrive(r) \/ Advance(r) \/ Fail(r)
    PROVE  req'[r] # req[r] \/ UNCHANGED <<submissions, attempts, blob>>
<1>1. ASSUME Close(r)
      PROVE  req'[r] # req[r]
  BY <1>1, ClosedIsNotAdmitted, OneRequestMoves
<1>2. CASE UNCHANGED blob
  <2>1. CASE UNCHANGED <<submissions, attempts>>
    BY <1>2, <2>1
  <2>2. CASE CommitUpload(r) \/ Delete(r) \/ \E v \in Scores : Grade(r, v)
    BY <1>1, <2>2 DEF CommitUpload, Delete, Grade
  <2> QED BY <2>1, <2>2, WhatCommits
<1>3. CASE StoreNotebook(r)
  <2>1. Goto(r, "locate") => req'[r] # req[r]
    BY <1>3, GotoKeeps DEF StoreNotebook, Steps
  <2> QED BY <1>1, <1>3, <2>1 DEF StoreNotebook
<1> QED BY <1>2, <1>3, WhoStores

\* What a student has stored, submitted and been graded.
Untouched(u) ==
    /\ blob'[u] = blob[u]
    /\ OfStudent(submissions', u) = OfStudent(submissions, u)
    /\ OfStudent(attempts', u) = OfStudent(attempts, u)

LEMMA OthersUntouched ==
    ASSUME IntegrityInv, NEW r \in Requests, Arrive(r) \/ Advance(r) \/ Fail(r),
           NEW u \in Students, u # req[r].user
    PROVE  Untouched(u)
<1>1. blob'[u] = blob[u]
  BY WhoStores DEF StoreNotebook, Path, IntegrityInv, HistoryInv, TypeInv, TypeOK
<1>2. OfStudent(SubmissionsSeenBy(r), u) = OfStudent(submissions, u)
  BY DEF OfStudent, SubmissionsSeenBy, NewSubmission
<1>3. req[r].pc \in {"grade", "delete"} =>
        \A x \in submissions : x.id = req[r].sub => x.user # u
  BY DEF IntegrityInv, Works
<1>4. ASSUME Delete(r)
      PROVE  Untouched(u)
  <2>1. \A x \in OfStudent(submissions, u) : x.id # req[r].sub
    BY <1>3, <1>4 DEF Delete, OfStudent
  <2>2. \A a \in OfStudent(attempts, u) : a.sub # req[r].sub
    BY <2>1 DEF IntegrityInv, Integrity, OfStudent
  <2> QED BY <1>1, <1>4, <2>1, <2>2
          DEF Untouched, Delete, OfStudent, OfSubmission
<1>5. ASSUME NEW v \in Scores, Grade(r, v), SubmissionExists(r)
      PROVE  Untouched(u)
  <2> DEFINE new(x) == IF x.id = req[r].sub THEN Graded(x, r, v) ELSE x
  <2>1. submissions' = {new(x) : x \in SubmissionsSeenBy(r)}
        /\ attempts' = attempts \cup {NewAttempt(r, v)}
    BY <1>5 DEF Grade
  <2>2. ASSUME NEW x \in SubmissionsSeenBy(r)
        PROVE  /\ new(x).user = x.user
               /\ x.user = u => new(x) = x
    <3>1. x \in Submission
      BY <1>5, SeenSound DEF Grade, Steps, IntegrityInv
    <3>2. x.user = u => x.id # req[r].sub
      BY <1>3, <1>5 DEF Grade, SubmissionsSeenBy, NewSubmission
    <3> QED BY <3>1, <3>2 DEF Graded, Submission
  <2> HIDE DEF new
  <2>3. OfStudent(submissions', u) = OfStudent(SubmissionsSeenBy(r), u)
    BY <2>1, <2>2 DEF OfStudent
  <2>4. OfStudent(attempts', u) = OfStudent(attempts, u)
    BY <2>1 DEF OfStudent, NewAttempt
  <2> QED BY <1>1, <1>2, <2>3, <2>4 DEF Untouched
<1>6. ASSUME CommitUpload(r)
      PROVE  Untouched(u)
  BY <1>1, <1>2, <1>6 DEF CommitUpload, Untouched
<1>7. CASE UNCHANGED <<submissions, attempts>>
  BY <1>1, <1>7 DEF Untouched
<1> QED BY <1>4, <1>5, <1>6, <1>7, WhatCommits

\* A student's stored notebook, submissions and attempts change only in a step
\* of a request of that student: neither the paths nor the rows that uploads,
\* gradings and deletions write are shared, and no request changes hands.
THEOREM OwnRequestsTouch == Spec => OnlyOwnRequestsTouch
<1> DEFINE Touch ==
      \A u \in Students :
        \/ /\ blob'[u] = blob[u]
           /\ OfStudent(submissions', u) = OfStudent(submissions, u)
           /\ OfStudent(attempts', u) = OfStudent(attempts, u)
        \/ \E r \in Requests : req[r].user = u /\ req'[r] # req[r]
<1>1. IntegrityInv /\ [Next]_vars => [Touch]_vars
  <2> DEFINE Own(u) == \E r \in Requests : req[r].user = u /\ req'[r] # req[r]
  <2> SUFFICES ASSUME IntegrityInv, [Next]_vars, NEW u \in Students
               PROVE  Untouched(u) \/ Own(u)
    BY DEF Untouched
  <2>1. ASSUME NEW r \in Requests, Arrive(r) \/ Advance(r) \/ Fail(r)
        PROVE  Untouched(u) \/ Own(u)
    <3>1. CASE u # req[r].user
      BY <2>1, <3>1, OthersUntouched
    <3>2. CASE u = req[r].user /\ req'[r] # req[r]
      BY <3>2
    <3>3. CASE UNCHANGED <<submissions, attempts, blob>>
      BY <3>3 DEF Untouched
    <3> QED BY <2>1, <3>1, <3>2, <3>3, RequestsMove DEF IntegrityInv, HistoryInv
  <2>2. CASE UNCHANGED <<submissions, files, attempts, blob, req>>
    BY <2>2 DEF Untouched
  <2> QED BY <2>1, <2>2, WhoMoves
<1>2. Spec => [][Touch]_vars
  BY <1>1, IntegrityHolds, PTL DEF Spec
<1> QED BY <1>2 DEF OnlyOwnRequestsTouch

----
(***************************************************************************)
(* Students who wait for each answer: their attempts are numbered without  *)
(* gaps, and the pipeline implements the ledger of attempts.               *)
(***************************************************************************)

\* A student who waits has one request under way at most.
OneAtATime ==
    \A q, r \in Requests :
        req[q].user = req[r].user /\ req[q].user # None => q = r

\* The attempts of a submission have the numbers 1, 2, .., each once.
Numbered(x, history) ==
    /\ {a.number : a \in OfSubmission(history, x.id)} = 1..x.number
    /\ \A a, b \in OfSubmission(history, x.id) : a.number = b.number => a = b

Gapless(u) ==
    /\ \A x, y \in OfStudent(submissions, u) : x = y
    /\ \A x \in OfStudent(submissions, u) : Numbered(x, attempts)

\* What a request knows of its student, as no other request of the student runs:
\* it inserts a submission only when there is none, it grades the notebook that
\* is stored and the counter that is committed, and no attempt is recent that was
\* not recent when it was admitted.
Alone(r) ==
    /\ req[r].sub = r => OfStudent(submissions, req[r].user) = {}
    /\ req[r].pc \in {"read", "grade"} =>
         /\ req[r].sub = r => req[r].number = 0
         /\ \A x \in submissions : x.id = req[r].sub => x.number = req[r].number
    /\ req[r].pc = "grade" => req[r].graded = blob[req[r].user]
    /\ req[r].pc \in Steps => req[r].kind \in Kinds
    /\ req[r].pc \in Steps \ {"delete"} => req[r].kind # "delete"
    /\ req[r].pc \in {"check", "count", "read", "grade"} => req[r].kind # "upload"
    /\ req[r].pc \in Steps /\ req[r].kind \in {"evaluate", "embedded"} =>
         ~Cooling(req[r].user)

WaitingInv ==
    /\ IntegrityInv
    /\ OneAtATime
    /\ \A u \in Students : Gapless(u)
    /\ \A r \in Requests : Alone(r)

\* A request keeps its student and its kind until it ends.
LEMMA LocalsKept ==
    ASSUME TypeInv, NEW r \in Requests, Advance(r) \/ Fail(r)
    PROVE  \/ Close(r)
           \/ /\ req'[r].user = req[r].user
              /\ req'[r].kind = req[r].kind
<1> USE DEF TypeInv, TypeOK, Request
<1>1. CASE Admit(r) \/ StoreNotebook(r)
  BY <1>1 DEF Admit, StoreNotebook, Goto
<1>2. CASE FindOrAddSubmission(r)
  BY <1>2 DEF FindOrAddSubmission
<1>3. CASE LocateFile(r)
  <2>1. \/ Close(r) \/ Goto(r, "insert")
        \/ \E f : req' = [req EXCEPT ![r].pc = "update", ![r].file = f]
    BY <1>3 DEF LocateFile
  <2> QED BY <2>1 DEF Goto
<1>4. CASE UpdateFile(r) \/ InsertFile(r)
  BY <1>4 DEF UpdateFile, InsertFile
<1>5. CASE CheckAttempts(r)
  <2>1. ASSUME NEW i, NEW n,
               req' = [req EXCEPT ![r].pc = "read", ![r].sub = i, ![r].max = 0,
                                  ![r].number = n]
        PROVE  req'[r].user = req[r].user /\ req'[r].kind = req[r].kind
    BY <2>1
  <2> QED BY <1>5, <2>1 DEF CheckAttempts
<1>7. CASE CheckDates(r) \/ ReadSolution(r)
  BY <1>7 DEF CheckDates, ReadSolution
<1>6. CASE CommitUpload(r) \/ Delete(r) \/ Fail(r) \/ \E v \in Scores : Grade(r, v)
  BY <1>6 DEF CommitUpload, Delete, Fail, Grade
<1> QED BY <1>1, <1>2, <1>3, <1>4, <1>5, <1>6, <1>7 DEF Advance

\* What a request that begins holds.
LEMMA Beginning ==
    ASSUME TypeInv, NEW r \in Requests, Arrive(r)
    PROVE  /\ req[r].pc = "idle" /\ req'[r].pc \in {"admit", "check", "delete"}
           /\ req'[r].user \in Students /\ req'[r].kind \in Kinds
           /\ req'[r].kind = "delete" <=> req'[r].pc = "delete"
           /\ req'[r].pc = "check" => req'[r].kind = "evaluate"
           /\ req'[r].pc # "delete" => req'[r].sub = None
           /\ req'[r].kind \in {"evaluate", "embedded"} => ~Cooling(req'[r].user)
           /\ Overlap \/ \A q \in Requests : req[q].user # req'[r].user
           /\ UNCHANGED <<settings, tables, blob, recent>>
<1> PICK u \in Students : \/ AddSubmission(r, u)
                          \/ EvaluateSubmission(r, u)
                          \/ EvaluateEmbeddedNotebook(r, u)
                          \/ \E i \in Requests : DeleteSubmission(r, u, i)
  BY DEF Arrive
<1>1. ASSUME NEW k, NEW pc, Begin(r, u, k, pc)
      PROVE  /\ req[r].pc = "idle" /\ req'[r].pc = pc /\ req'[r].kind = k
             /\ req'[r].user = u /\ req'[r].sub = None
             /\ Overlap \/ \A q \in Requests : req[q].user # u
             /\ UNCHANGED <<settings, tables, blob, recent>>
  BY <1>1 DEF Begin, MayBegin, Idle, TypeInv, TypeOK
<1>2. CASE AddSubmission(r, u)
  BY <1>1, <1>2 DEF AddSubmission, Kinds
<1>3. CASE EvaluateSubmission(r, u)
  BY <1>1, <1>3 DEF EvaluateSubmission, Kinds
<1>4. CASE EvaluateEmbeddedNotebook(r, u)
  BY <1>1, <1>4 DEF EvaluateEmbeddedNotebook, Kinds
<1>5. CASE \E i \in Requests : DeleteSubmission(r, u, i)
  <2> PICK i \in Requests : DeleteSubmission(r, u, i)
    BY <1>5
  <2>1. /\ req'[r].pc = "delete" /\ req'[r].kind = "delete" /\ req'[r].user = u
        /\ UNCHANGED <<settings, tables, blob, recent>>
    BY DEF DeleteSubmission, Idle, TypeInv, TypeOK
  <2>2. MayBegin(r, u)
    BY DEF DeleteSubmission
  <2> QED BY <2>1, <2>2 DEF MayBegin, Kinds
<1> QED BY <1>2, <1>3, <1>4, <1>5

LEMMA OneAtATimeKept ==
    ASSUME TypeInv, OneAtATime, ~Overlap,
           NEW r \in Requests, Arrive(r) \/ Advance(r) \/ Fail(r)
    PROVE  OneAtATime'
<1>1. \A q \in Requests \ {r} : req'[q] = req[q]
  BY OneRequestMoves
<1>2. \/ req'[r].user \in {req[r].user, None}
      \/ \A q \in Requests : req[q].user # req'[r].user
  <2>1. Close(r) => req'[r].user = None
    BY DEF Close, Closed, Idle, TypeInv, TypeOK
  <2> QED BY <2>1, LocalsKept, Beginning
<1> QED BY <1>1, <1>2 DEF OneAtATime

\* A step makes none recent but the attempt of the request that takes it, and
\* what it leaves to other students is what they had.
LEMMA WhoIsRecent ==
    ASSUME NEW r \in Requests, Arrive(r) \/ Advance(r) \/ Fail(r)
    PROVE  \/ UNCHANGED recent
           \/ \E v \in Scores : Grade(r, v) /\ recent' = recent \cup {r}
BY DEF Arrive, Advance, Fail, AddSubmission, EvaluateSubmission,
     EvaluateEmbeddedNotebook, DeleteSubmission, Begin, Admit,
     FindOrAddSubmission, StoreNotebook, LocateFile, UpdateFile, InsertFile,
     CommitUpload, CheckDates, CheckAttempts, ReadSolution, Grade, Delete

LEMMA OthersCool ==
    ASSUME IntegrityInv, NEW r \in Requests, Arrive(r) \/ Advance(r) \/ Fail(r),
           NEW u \in Students, u # req[r].user, ~Cooling(u)
    PROVE  \A a \in attempts' : a.user = u => a.id \notin recent'
<1>1. OfStudent(attempts', u) = OfStudent(attempts, u)
  BY OthersUntouched DEF Untouched
<1>2. \A a \in attempts : a.id # r
  BY OneRequestMoves DEF IntegrityInv, HistoryInv, Settled
<1>3. recent' \subseteq recent \cup {r}
  BY WhoIsRecent
<1> QED BY <1>1, <1>2, <1>3 DEF Cooling, OfStudent

LEMMA OthersAlone ==
    ASSUME WaitingInv, NEW r \in Requests, Arrive(r) \/ Advance(r) \/ Fail(r),
           NEW q \in Requests \ {r}
    PROVE  Alone(q)'
<1> DEFINE u == req[q].user
<1>1. req'[q] = req[q] /\ Alone(q) /\ Works(q) /\ Works(q)'
  BY OneRequestMoves, OthersWork DEF WaitingInv, IntegrityInv, HistoryInv
<1>2. req[q].sub = q => req[q].pc \in Steps
  BY <1>1 DEF Works, Steps
<1>3. CASE req[q].pc \in Steps
  <2>1. u \in Students /\ u # req[r].user
    BY <1>3, SubmissionsAssumption
       DEF WaitingInv, OneAtATime, IntegrityInv, HistoryInv, TypeInv, LocalsOK
  <2>2. /\ Untouched(u)
        /\ ~Cooling(u) => \A a \in attempts' : a.user = u => a.id \notin recent'
    BY <2>1, OthersUntouched, OthersCool DEF WaitingInv
  <2>3. \A x \in submissions' : x.user = u => x \in submissions
    BY <2>2 DEF Untouched, OfStudent
  <2>4. req[q].pc \in {"read", "grade"} =>
          \A x \in submissions' : x.id = req[q].sub => x \in submissions
    BY <1>1, <2>3 DEF Works
  <2> HIDE DEF u
  <2>5. u = req[q].user
    BY DEF u
  <2> QED BY <1>1, <2>2, <2>4, <2>5 DEF Alone, Untouched, Cooling
<1>4. CASE req[q].pc \notin Steps
  BY <1>1, <1>2, <1>4 DEF Alone, Steps
<1> QED BY <1>3, <1>4

\* The steps of a request, but for its last one, leave rows and attempts alone.
Quiet(r) ==
    /\ UNCHANGED <<submissions, attempts, recent>>
    /\ req'[r].user = req[r].user /\ req'[r].kind = req[r].kind
    /\ req[r].pc \in Steps \ {"delete"}

\* A request that goes on, its student waiting, knows no less than it knew.
LEMMA QuietAlone ==
    ASSUME WaitingInv, NEW r \in Requests, Quiet(r),
           req'[r].sub = r => OfStudent(submissions, req[r].user) = {},
           req'[r].pc \in {"find", "store", "locate", "update", "insert",
                          "commit", "check", "count"},
           req'[r].pc \in {"check", "count"} => req[r].kind # "upload"
    PROVE  Alone(r)'
<1>1. Alone(r)
  BY DEF WaitingInv
<1> QED BY <1>1 DEF Alone, Quiet, Cooling, OfStudent

LEMMA ClosedAlone ==
    ASSUME TypeInv, NEW r \in Requests, Close(r)
    PROVE  Alone(r)'
<1>1. req'[r] = Closed
  BY DEF Close, TypeInv, TypeOK
<1>2. Closed.sub = None /\ Closed.pc = "closed"
  BY DEF Closed, Idle
<1> QED BY <1>1, <1>2, SubmissionsAssumption DEF Alone, Steps

LEMMA ArriveAlone ==
    ASSUME WaitingInv, NEW r \in Requests, Arrive(r)
    PROVE  Alone(r)'
<1>1. Works(r)'
  BY ArriveWorks DEF WaitingInv
<1>2. req'[r].sub # r
  BY <1>1, Beginning, SubmissionsAssumption
     DEF Works, WaitingInv, IntegrityInv, HistoryInv
<1>3. UNCHANGED <<submissions, attempts, recent>>
  BY Beginning DEF WaitingInv, IntegrityInv, HistoryInv, tables
<1>4. /\ req'[r].pc \in {"admit", "check", "delete"} /\ req'[r].kind \in Kinds
      /\ req'[r].kind = "delete" <=> req'[r].pc = "delete"
      /\ req'[r].pc = "check" => req'[r].kind = "evaluate"
      /\ req'[r].kind \in {"evaluate", "embedded"} => ~Cooling(req'[r].user)
  BY Beginning DEF WaitingInv, IntegrityInv, HistoryInv
<1> QED BY <1>2, <1>3, <1>4 DEF Alone, Cooling

LEMMA UploadAlone ==
    ASSUME WaitingInv, NEW r \in Requests,
           \/ Admit(r) \/ FindOrAddSubmission(r) \/ StoreNotebook(r)
           \/ LocateFile(r) \/ UpdateFile(r) \/ InsertFile(r)
    PROVE  Alone(r)'
<1>0. /\ Alone(r) /\ TypeInv /\ req[r] \in Request
      /\ UNCHANGED <<submissions, attempts, recent>>
      /\ req[r].sub = r => OfStudent(submissions, req[r].user) = {}
      /\ req[r].pc = "find" => \A x \in submissions : x.id # r
  BY DEF WaitingInv, IntegrityInv, HistoryInv, Settled, Alone, TypeInv, TypeOK, Admit, FindOrAddSubmission, StoreNotebook, LocateFile,
         UpdateFile, InsertFile, tables
<1>1. ASSUME NEW pc \in {"find", "locate", "insert"}, Goto(r, pc),
             req[r].pc \in Steps \ {"delete"}
      PROVE  Alone(r)'
  <2>1. req'[r].sub = req[r].sub /\ req'[r].pc = pc /\ Quiet(r)
    BY <1>0, <1>1 DEF Goto, Quiet, Request, TypeInv, TypeOK
  <2> QED BY <1>0, <2>1, QuietAlone
<1>2. CASE Admit(r) \/ StoreNotebook(r)
  BY <1>0, <1>1, <1>2, ClosedAlone DEF Admit, StoreNotebook, Steps
<1>3. ASSUME FindOrAddSubmission(r), ~Close(r)
      PROVE  Alone(r)'
  <2> DEFINE found == OfStudent(submissions, req[r].user)
  <2>1. /\ req[r].pc = "find"
        /\ req' = [req EXCEPT ![r].pc = "store",
                      ![r].sub = IF found = {} THEN r
                                 ELSE (CHOOSE x \in found : TRUE).id]
    BY <1>3 DEF FindOrAddSubmission
  <2>2. \A x \in submissions : x.id # r
    BY <1>0, <2>1
  <2>3. req'[r].sub = r => found = {}
    BY <1>0, <2>1, <2>2 DEF OfStudent, TypeInv, TypeOK
  <2>4. Quiet(r) /\ req'[r].pc = "store"
    BY <1>0, <2>1 DEF Quiet, Request, TypeInv, TypeOK, Steps
  <2> QED BY <2>3, <2>4, QuietAlone
<1>4. ASSUME LocateFile(r), ~Close(r)
      PROVE  Alone(r)'
  <2>1. ASSUME NEW f, req[r].pc = "locate",
               req' = [req EXCEPT ![r].pc = "update", ![r].file = f]
        PROVE  Alone(r)'
    <3>1. Quiet(r) /\ req'[r].pc = "update" /\ req'[r].sub = req[r].sub
      BY <1>0, <2>1 DEF Quiet, Request, TypeInv, TypeOK, Steps
    <3> QED BY <1>0, <3>1, QuietAlone
  <2> QED BY <1>1, <1>4, <2>1 DEF LocateFile, Steps
<1>5. CASE UpdateFile(r)
  <2>1. /\ Quiet(r) /\ req'[r].sub = req[r].sub
        /\ req'[r].pc = AfterUpload(r)
    BY <1>0, <1>5 DEF UpdateFile, Quiet, Request, TypeInv, TypeOK, Steps
  <2> QED BY <1>0, <2>1, QuietAlone DEF AfterUpload
<1>6. ASSUME InsertFile(r), ~Close(r)
      PROVE  Alone(r)'
  <2>1. /\ Quiet(r) /\ req'[r].sub = req[r].sub
        /\ req'[r].pc = AfterUpload(r)
    BY <1>0, <1>6 DEF InsertFile, Quiet, Request, TypeInv, TypeOK, Steps
  <2> QED BY <1>0, <2>1, QuietAlone DEF AfterUpload
<1> QED BY <1>0, <1>2, <1>3, <1>4, <1>5, <1>6, ClosedAlone

LEMMA EvaluationAlone ==
    ASSUME WaitingInv, NEW r \in Requests,
           CheckDates(r) \/ CheckAttempts(r) \/ ReadSolution(r)
    PROVE  Alone(r)'
<1>0. /\ Alone(r) /\ TypeInv /\ req[r] \in Request
      /\ UNCHANGED <<submissions, attempts, recent, blob>>
      /\ \A x \in submissions : x.id # r
      /\ Keys(submissions)
  BY DEF WaitingInv, IntegrityInv, HistoryInv, TypeInv, TypeOK, CheckDates,
         CheckAttempts, ReadSolution, tables, Settled
<1>1. ASSUME CheckAttempts(r), ~Close(r)
      PROVE  Alone(r)'
  <2>1. PICK x \in OfStudent(SubmissionsSeenBy(r), req[r].user) :
          /\ req[r].pc = "count"
          /\ req' = [req EXCEPT ![r].pc = "read", ![r].sub = x.id,
                                ![r].max = 0, ![r].number = x.number]
    BY <1>1 DEF CheckAttempts
  <2>2. /\ req'[r].pc = "read" /\ req'[r].sub = x.id /\ req'[r].number = x.number
        /\ req'[r].user = req[r].user /\ req'[r].kind = req[r].kind
    BY <1>0, <2>1 DEF TypeInv, TypeOK, Request
  <2>3. \/ x \in submissions
        \/ req[r].sub = r /\ x = NewSubmission(r)
    BY DEF OfStudent, SubmissionsSeenBy
  <2>4. x.id = r => x.number = 0 /\ OfStudent(submissions, req[r].user) = {}
    BY <1>0, <2>3 DEF NewSubmission, Alone
  <2>5. \A y \in submissions : y.id = x.id => y.number = x.number
    BY <1>0, <2>3 DEF NewSubmission, Keys
  <2> QED BY <1>0, <2>1, <2>2, <2>4, <2>5 DEF Alone, Cooling, OfStudent, Steps
<1>2. ASSUME ReadSolution(r), ~Close(r)
      PROVE  Alone(r)'
  <2>1. req[r].pc = "read" /\ req' = [req EXCEPT ![r].pc = "grade",
                                        ![r].graded = blob[Path(req[r].user)]]
    BY <1>2 DEF ReadSolution
  <2>2. /\ req'[r].pc = "grade" /\ req'[r].graded = blob[req[r].user]
        /\ req'[r].sub = req[r].sub /\ req'[r].number = req[r].number
        /\ req'[r].user = req[r].user /\ req'[r].kind = req[r].kind
    BY <1>0, <2>1 DEF TypeInv, TypeOK, Request, Path
  <2> QED BY <1>0, <2>1, <2>2 DEF Alone, Cooling, OfStudent, Steps
<1>3. ASSUME CheckDates(r), ~Close(r)
      PROVE  Alone(r)'
  <2>1. /\ req[r].pc = "check" /\ req'[r].pc = "count"
        /\ req'[r].sub = req[r].sub
        /\ req'[r].user = req[r].user /\ req'[r].kind = req[r].kind
    BY <1>0, <1>3 DEF CheckDates, TypeInv, TypeOK, Request
  <2>2. Quiet(r)
    BY <1>0, <2>1 DEF Quiet, Steps
  <2>3. /\ req'[r].sub = r => OfStudent(submissions, req[r].user) = {}
        /\ req[r].kind # "upload"
    BY <1>0, <2>1 DEF Alone
  <2> QED BY <2>1, <2>2, <2>3, QuietAlone
<1> QED BY <1>0, <1>1, <1>2, <1>3, ClosedAlone

LEMMA AloneKept ==
    ASSUME WaitingInv, NEW r \in Requests, Arrive(r) \/ Advance(r) \/ Fail(r)
    PROVE  \A q \in Requests : Alone(q)'
<1>1. CommitUpload(r) \/ Delete(r) \/ Fail(r) \/ (\E v \in Scores : Grade(r, v))
        => Close(r)
  BY DEF CommitUpload, Delete, Fail, Grade
<1>2. Alone(r)'
  BY <1>1, ClosedAlone, ArriveAlone, UploadAlone, EvaluationAlone
     DEF Advance, WaitingInv, IntegrityInv, HistoryInv
<1> QED BY <1>2, OthersAlone

----
(* The attempts of a student who waits are numbered 1, 2, .. *)

\* What r would commit for its student: one submission, its attempts numbered.
LEMMA SeenGapless ==
    ASSUME WaitingInv, NEW r \in Requests, req[r].pc \in {"commit", "grade"}
    PROVE  LET own == OfStudent(SubmissionsSeenBy(r), req[r].user)
           IN  /\ \A x, y \in own : x = y
               /\ \A x \in own : Numbered(x, attempts)
               /\ req[r].pc = "grade" =>
                    \A x \in own : x.id = req[r].sub => x.number = req[r].number
<1> DEFINE u == req[r].user
           own == OfStudent(SubmissionsSeenBy(r), u)
<1>1. u \in Students
  BY DEF WaitingInv, IntegrityInv, HistoryInv, TypeInv, LocalsOK, Steps
<1>2. Alone(r) /\ Gapless(u)
  BY <1>1 DEF WaitingInv
<1>3. CASE req[r].sub = r
  <2>1. OfStudent(submissions, u) = {}
    BY <1>2, <1>3 DEF Alone
  <2>2. own = {NewSubmission(r)}
    BY <1>3, <2>1 DEF OfStudent, SubmissionsSeenBy, NewSubmission
  <2>3. NewSubmission(r).number = 0 /\ NewSubmission(r) \in SubmissionsSeenBy(r)
    BY <1>3 DEF NewSubmission, SubmissionsSeenBy
  <2>4. OfSubmission(attempts, NewSubmission(r).id) = {}
    BY <2>3, SeenSound DEF Shown, WaitingInv, IntegrityInv, Steps
  <2>5. Numbered(NewSubmission(r), attempts)
    <3>1. 1..0 = {}
      OBVIOUS
    <3> QED BY <2>3, <2>4, <3>1 DEF Numbered
  <2>6. req[r].pc = "grade" => req[r].number = 0
    BY <1>2, <1>3 DEF Alone
  <2> QED BY <2>2, <2>3, <2>5, <2>6
<1>4. CASE req[r].sub # r
  <2>1. own = OfStudent(submissions, u)
    BY <1>4 DEF SubmissionsSeenBy
  <2> QED BY <1>2, <2>1 DEF Gapless, Alone, OfStudent
<1> QED BY <1>3, <1>4

\* The rows that were touched by no one stay numbered.
LEMMA NumberedStays ==
    ASSUME NEW x, Numbered(x, attempts),
           OfSubmission(attempts', x.id) = OfSubmission(attempts, x.id)
    PROVE  Numbered(x, attempts')
BY DEF Numbered

LEMMA OthersGapless ==
    ASSUME WaitingInv, IntegrityInv',
           NEW r \in Requests, Arrive(r) \/ Advance(r) \/ Fail(r),
           NEW u \in Students, u # req[r].user
    PROVE  Gapless(u)'
<1>1. /\ OfStudent(submissions', u) = OfStudent(submissions, u)
      /\ OfStudent(attempts', u) = OfStudent(attempts, u)
  BY OthersUntouched DEF WaitingInv, Untouched
<1>2. Gapless(u)
  BY DEF WaitingInv
<1>3. ASSUME NEW x \in OfStudent(submissions', u)
      PROVE  Numbered(x, attempts')
  <2>1. x \in submissions /\ x \in submissions' /\ x.user = u
    BY <1>1 DEF OfStudent
  <2>2. \A a \in attempts : a.sub = x.id => a.user = u
    BY <2>1 DEF WaitingInv, IntegrityInv, Integrity, HistoryInv, Keys
  <2>3. \A a \in attempts' : a.sub = x.id => a.user = u
    BY <2>1 DEF IntegrityInv, Integrity, HistoryInv, Keys
  <2>4. OfSubmission(attempts', x.id) = OfSubmission(attempts, x.id)
    BY <1>1, <2>2, <2>3 DEF OfSubmission, OfStudent
  <2> QED BY <1>1, <1>2, <2>4, NumberedStays DEF Gapless
<1> QED BY <1>1, <1>2, <1>3 DEF Gapless

LEMMA GaplessDelete ==
    ASSUME WaitingInv, NEW r \in Requests, Delete(r), NEW u \in Students
    PROVE  Gapless(u)'
<1>1. /\ submissions' = {x \in submissions : x.id # req[r].sub}
      /\ attempts' = {a \in attempts : a.sub # req[r].sub}
  BY DEF Delete, OfSubmission
<1>2. Gapless(u)
  BY DEF WaitingInv
<1>3. ASSUME NEW x \in OfStudent(submissions', u)
      PROVE  x \in OfStudent(submissions, u) /\ Numbered(x, attempts')
  <2>1. x \in OfStudent(submissions, u) /\ x.id # req[r].sub
    BY <1>1 DEF OfStudent
  <2>2. OfSubmission(attempts', x.id) = OfSubmission(attempts, x.id)
    BY <1>1, <2>1 DEF OfSubmission
  <2> QED BY <1>2, <2>1, <2>2, NumberedStays DEF Gapless
<1> QED BY <1>2, <1>3 DEF Gapless

\* An attempt more, with the next number.
LEMMA NumberedNext ==
    ASSUME NEW x, NEW y, NEW a, Numbered(x, attempts),
           x.number \in Nat, y.id = x.id, y.number = x.number + 1,
           a.sub = x.id, a.number = y.number
    PROVE  Numbered(y, attempts \cup {a})
<1> DEFINE own == OfSubmission(attempts, x.id)
<1>1. OfSubmission(attempts \cup {a}, y.id) = own \cup {a}
  BY DEF OfSubmission
<1>2. {b.number : b \in own} = 1..x.number
  BY DEF Numbered
<1> HIDE DEF own
<1>3. {b.number : b \in own \cup {a}} = {b.number : b \in own} \cup {a.number}
  OBVIOUS
<1>4. 1..x.number \cup {x.number + 1} = 1..y.number
  OBVIOUS
<1>5. \A b \in own : b.number # a.number
  <2>1. \A b \in own : b.number \in 1..x.number
    BY <1>2
  <2> QED BY <2>1
<1>6. \A b, c \in own : b.number = c.number => b = c
  BY DEF Numbered, own
<1> QED BY <1>1, <1>2, <1>3, <1>4, <1>5, <1>6 DEF Numbered

LEMMA GaplessGrade ==
    ASSUME WaitingInv, NEW r \in Requests, NEW v \in Scores,
           Grade(r, v), SubmissionExists(r),
           NEW u \in Students, u = req[r].user
    PROVE  Gapless(u)'
<1> DEFINE own == OfStudent(SubmissionsSeenBy(r), u)
           a == NewAttempt(r, v)
           new(x) == IF x.id = req[r].sub THEN Graded(x, r, v) ELSE x
<1>1. /\ req[r].pc = "grade"
      /\ submissions' = {new(x) : x \in SubmissionsSeenBy(r)}
      /\ attempts' = attempts \cup {a}
  BY DEF Grade
<1>2. a.sub = req[r].sub /\ a.number = req[r].number + 1
  BY DEF NewAttempt
<1>3. SubmissionsSeenBy(r) \subseteq Submission
  BY <1>1, SeenSound DEF WaitingInv, IntegrityInv, Steps
<1>4. ASSUME NEW x \in SubmissionsSeenBy(r)
      PROVE  /\ new(x).id = x.id /\ new(x).user = x.user
             /\ x.id = req[r].sub => new(x).number = req[r].number + 1
             /\ x.id # req[r].sub => new(x) = x
  BY <1>3 DEF Graded, Submission
<1>5. /\ \A x, y \in own : x = y
      /\ \A x \in own : Numbered(x, attempts)
      /\ \A x \in own : x.id = req[r].sub => x.number = req[r].number
  BY <1>1, SeenGapless
<1> HIDE DEF a, new, own
<1>6. ASSUME NEW y \in OfStudent(submissions', u)
      PROVE  (\E x \in own : y = new(x)) /\ Numbered(y, attempts')
  <2>1. PICK x \in SubmissionsSeenBy(r) : y = new(x) /\ x.user = u
    BY <1>1, <1>4 DEF OfStudent
  <2>2. x \in own /\ x.number \in Nat
    BY <1>3, <2>1 DEF own, OfStudent, Submission
  <2>3. CASE x.id = req[r].sub
    BY <1>1, <1>2, <1>4, <1>5, <2>1, <2>2, <2>3, NumberedNext
  <2>4. CASE x.id # req[r].sub
    <3>1. OfSubmission(attempts', x.id) = OfSubmission(attempts, x.id)
      BY <1>1, <1>2, <2>4 DEF OfSubmission
    <3> QED BY <1>4, <1>5, <2>1, <2>2, <2>4, <3>1, NumberedStays
  <2> QED BY <2>1, <2>2, <2>3, <2>4
<1> QED BY <1>5, <1>6 DEF Gapless

LEMMA GaplessStep ==
    ASSUME WaitingInv, IntegrityInv',
           NEW r \in Requests, Arrive(r) \/ Advance(r) \/ Fail(r),
           NEW u \in Students
    PROVE  Gapless(u)'
<1>1. CASE u # req[r].user
  BY <1>1, OthersGapless
<1>2. CASE UNCHANGED <<submissions, attempts>>
  BY <1>2 DEF WaitingInv, Gapless
<1>3. CASE CommitUpload(r) /\ u = req[r].user
  <2>1. /\ req[r].pc = "commit" /\ attempts' = attempts
        /\ submissions' = SubmissionsSeenBy(r)
    BY <1>3 DEF CommitUpload
  <2> QED BY <1>3, <2>1, SeenGapless DEF Gapless
<1>4. CASE Delete(r)
  BY <1>4, GaplessDelete
<1>5. CASE u = req[r].user /\ \E v \in Scores : Grade(r, v) /\ SubmissionExists(r)
  BY <1>5, GaplessGrade
<1> QED BY <1>1, <1>2, <1>3, <1>4, <1>5, WhatCommits

\* Without overlapping requests of a student, each finds what the last one left.
LEMMA WaitingHolds ==
    ASSUME ~Overlap
    PROVE  Spec => []WaitingInv
<1>1. Init => OneAtATime /\ (\A u \in Students : Gapless(u))
                /\ (\A r \in Requests : Alone(r))
  BY SubmissionsAssumption
     DEF Init, OneAtATime, Gapless, Alone, Idle, Steps, OfStudent
<1>2. WaitingInv /\ IntegrityInv' /\ [Next]_vars => WaitingInv'
  <2> SUFFICES ASSUME WaitingInv, IntegrityInv', [Next]_vars PROVE WaitingInv'
    OBVIOUS
  <2>1. ASSUME NEW r \in Requests, Arrive(r) \/ Advance(r) \/ Fail(r)
        PROVE  WaitingInv'
    <3>1. OneAtATime'
      BY <2>1, OneAtATimeKept DEF WaitingInv, IntegrityInv, HistoryInv
    <3>2. (\A u \in Students : Gapless(u)') /\ \A q \in Requests : Alone(q)'
      BY <2>1, GaplessStep, AloneKept
    <3> QED BY <3>1, <3>2 DEF WaitingInv
  <2>2. CASE /\ UNCHANGED <<submissions, attempts, blob, req>>
             /\ recent' \subseteq recent
    BY <2>2 DEF WaitingInv, OneAtATime, Gapless, Alone, Cooling
  <2>3. \/ \E r \in Requests : Arrive(r) \/ Advance(r) \/ Fail(r)
        \/ /\ UNCHANGED <<submissions, attempts, blob, req>>
           /\ recent' \subseteq recent
    BY DEF Next, vars, CooldownEnds, UpdateLimit, UpdateDates, settings, tables
  <2> QED BY <2>1, <2>2, <2>3
<1>3. IntegrityInv /\ OneAtATime /\ (\A u \in Students : Gapless(u))
        /\ (\A r \in Requests : Alone(r)) => WaitingInv
  BY DEF WaitingInv
<1> QED BY <1>1, <1>2, <1>3, IntegrityHolds, PTL DEF Spec

\* A set that is numbered 1, 2, .., n, each number once, has n members.
LEMMA CountNumbered ==
    ASSUME NEW S, NEW n \in Nat, {a.number : a \in S} = 1..n,
           \A a, b \in S : a.number = b.number => a = b
    PROVE  Cardinality(S) = n
<1> DEFINE f == [a \in S |-> a.number]
<1>1. f \in Injection(S, 1..n)
  <2>1. \A a \in S : a.number \in 1..n
    OBVIOUS
  <2> QED BY <2>1 DEF Injection, IsInjective
<1>2. f \in Surjection(S, 1..n)
  <2>1. \A k \in 1..n : \E a \in S : a.number = k
    OBVIOUS
  <2> QED BY <1>1, <2>1 DEF Injection, Surjection
<1>3. IsFiniteSet(1..n) /\ Cardinality(1..n) = n
  BY FS_Interval
<1> HIDE DEF f
<1> QED BY <1>1, <1>2, <1>3, FS_Injection

\* A student who waits has one submission at most.
LEMMA CountSubmissions ==
    ASSUME NEW S, \A x, y \in S : x = y
    PROVE  Cardinality(S) <= 1
<1>1. CASE S = {}
  BY <1>1, FS_EmptySet
<1>2. CASE S # {}
  <2>1. PICK x \in S : TRUE
    BY <1>2
  <2>2. S = {x}
    BY <2>1
  <2> QED BY <2>2, FS_Singleton
<1> QED BY <1>1, <1>2

\* The attempts of a student who waits for each answer are 1, 2, ..,
\* number_of_attempts, each recorded once, of one submission: no failure,
\* deletion or request of another student loses or repeats a number.
THEOREM HistoryIsGapless ==
    ASSUME ~Overlap
    PROVE  Spec => []GaplessHistory
<1>1. WaitingInv => GaplessHistory
  <2> SUFFICES ASSUME WaitingInv, NEW u \in Students
               PROVE  /\ Cardinality(OfStudent(submissions, u)) <= 1
                      /\ \A x \in OfStudent(submissions, u) :
                           /\ {a.number : a \in OfSubmission(attempts, x.id)}
                                = 1..x.number
                           /\ Cardinality(OfSubmission(attempts, x.id)) = x.number
    BY DEF GaplessHistory
  <2>1. Gapless(u)
    BY DEF WaitingInv
  <2>2. Cardinality(OfStudent(submissions, u)) <= 1
    BY <2>1, CountSubmissions DEF Gapless
  <2>3. ASSUME NEW x \in OfStudent(submissions, u)
        PROVE  /\ {a.number : a \in OfSubmission(attempts, x.id)} = 1..x.number
               /\ Cardinality(OfSubmission(attempts, x.id)) = x.number
    <3>1. x.number \in Nat
      BY DEF OfStudent, WaitingInv, IntegrityInv, HistoryInv, TypeInv, TypeOK,
             Submission
    <3>2. Numbered(x, attempts)
      BY <2>1 DEF Gapless
    <3> QED BY <3>1, <3>2, CountNumbered DEF Numbered
  <2> QED BY <2>2, <2>3
<1> QED BY <1>1, WaitingHolds, PTL

\* No one else moves the counter of a student who waits, so a limit that is raised
\* between the reads of the student's check leaves it a limit that holds.
WaitingLimit == Bounded /\ \A r \in Requests : Fits(r)

LEMMA OthersFit ==
    ASSUME WaitingInv, WaitingLimit,
           NEW r \in Requests, Arrive(r) \/ Advance(r) \/ Fail(r),
           NEW q \in Requests \ {r}
    PROVE  Fits(q)'
<1> DEFINE u == req[q].user
<1>1. req'[q] = req[q] /\ limit' = limit
  BY OneRequestMoves, LimitUnmoved DEF WaitingInv, IntegrityInv, HistoryInv
<1>2. CASE req[q].pc = "count"
  <2>1. u \in Students /\ u # req[r].user
    BY <1>2, SubmissionsAssumption
       DEF WaitingInv, OneAtATime, IntegrityInv, HistoryInv, TypeInv, LocalsOK, Steps
  <2>2. OfStudent(submissions', u) = OfStudent(submissions, u)
    BY <2>1, OthersUntouched DEF WaitingInv, Untouched
  <2>3. OfStudent(SubmissionsSeenBy(q)', u) = OfStudent(SubmissionsSeenBy(q), u)
    BY <1>1, <2>2 DEF OfStudent, SubmissionsSeenBy, NewSubmission
  <2>4. Fits(q)
    BY DEF WaitingLimit
  <2> HIDE DEF u
  <2>5. u = req[q].user
    BY DEF u
  <2> QED BY <1>1, <1>2, <2>3, <2>4, <2>5 DEF Fits
<1>3. CASE req[q].pc # "count"
  BY <1>1, <1>3 DEF Fits
<1> QED BY <1>2, <1>3

LEMMA OwnFits ==
    ASSUME TypeInv, Bounded, NEW r \in Requests, Arrive(r) \/ Advance(r) \/ Fail(r)
    PROVE  Fits(r)'
<1> SUFFICES ASSUME req'[r].pc = "count" PROVE Fits(r)'
  BY DEF Fits
<1>1. CheckDates(r) /\ ~Close(r)
  BY WhoIsAdmitted, ClosedIsNotAdmitted, CheckedAttempts, SolutionRead
<1>2. /\ req'[r].max = limit /\ limit' = limit
      /\ req'[r].sub = req[r].sub /\ req'[r].user = req[r].user
      /\ submissions' = submissions
  BY <1>1, CheckedDates, LimitUnmoved
<1>3. SubmissionsSeenBy(r)' = SubmissionsSeenBy(r)
  BY <1>2 DEF SubmissionsSeenBy, NewSubmission
<1>4. \A x \in SubmissionsSeenBy(r) : x.number <= limit
  BY SeenWithinLimit DEF Bounded
<1>5. limit \in Nat
  BY DEF TypeInv, TypeOK, Limits
<1> QED BY <1>2, <1>3, <1>4, <1>5 DEF Fits, OfStudent

\* A student who waits is within the limit also when it is raised during a check.
LEMMA WaitingLimitHolds ==
    ASSUME ~Overlap, ~LowerLimit
    PROVE  Spec => []WaitingLimit
<1>1. Init => WaitingLimit
  BY DEF Init, WaitingLimit, Bounded, CountersWithinLimit, Admitted, Fits, Idle
<1>2. WaitingInv /\ WaitingLimit /\ [Next]_vars => WaitingLimit'
  <2> SUFFICES ASSUME WaitingInv, WaitingLimit, [Next]_vars PROVE WaitingLimit'
    OBVIOUS
  <2>1. TypeInv /\ Bounded
    BY DEF WaitingInv, IntegrityInv, HistoryInv, WaitingLimit
  <2>2. ASSUME NEW r \in Requests, Arrive(r) \/ Advance(r) \/ Fail(r)
        PROVE  WaitingLimit'
    <3>1. Bounded'
      BY <2>1, <2>2, BoundedStep DEF WaitingLimit
    <3>2. \A q \in Requests : Fits(q)'
      BY <2>1, <2>2, OthersFit, OwnFits
    <3> QED BY <3>1, <3>2 DEF WaitingLimit
  <2>3. CASE UNCHANGED <<submissions, files, attempts, blob, req, limit, torn>>
    BY <2>3 DEF WaitingLimit, Bounded, CountersWithinLimit, Admitted, Fits,
                OfStudent, SubmissionsSeenBy, NewSubmission
  <2>4. ASSUME UNCHANGED <<submissions, files, attempts, blob, req>>,
               NEW n \in Limits, UpdateLimit(n)
        PROVE  WaitingLimit'
    <3>1. limit \in Nat /\ limit' \in Nat /\ limit <= limit'
      BY <2>1, <2>4, LimitRises
    <3>2. ASSUME NEW q \in Requests
          PROVE  Fits(q)'
      <4>1. Fits(q) /\ req[q].max \in Nat
        BY <2>1 DEF WaitingLimit, TypeInv, TypeOK, Request
      <4>2. SubmissionsSeenBy(q)' = SubmissionsSeenBy(q) /\ req' = req
        BY <2>4 DEF SubmissionsSeenBy, NewSubmission
      <4> QED BY <3>1, <4>1, <4>2 DEF Fits, OfStudent
    <3> QED BY <2>1, <2>4, <3>1, <3>2, BoundedGrows DEF WaitingLimit
  <2> QED BY <2>2, <2>3, <2>4, WhoMoves
<1> QED BY <1>1, <1>2, WaitingHolds, PTL DEF Spec

\* Nobody who waits for each answer is graded more often than the limit says,
\* as long as no limit is lowered: the check reads the limit and the counter before
\* the grading, and no other evaluation of the student can come between.
THEOREM GradingsWithinLimit ==
    ASSUME ~Overlap, ~LowerLimit
    PROVE  Spec => []AttemptsWithinLimit
<1>1. WaitingInv /\ WaitingLimit => AttemptsWithinLimit
  <2> SUFFICES ASSUME WaitingInv, WaitingLimit, NEW u \in Students
               PROVE  Cardinality(OfStudent(attempts, u)) <= limit
    BY DEF AttemptsWithinLimit
  <2>1. Gapless(u) /\ limit \in Nat
    BY DEF WaitingInv, IntegrityInv, HistoryInv, TypeInv, TypeOK, Limits
  <2>2. ASSUME NEW a \in attempts, a.user = u
        PROVE  \E x \in OfStudent(submissions, u) : x.id = a.sub
    BY <2>2 DEF WaitingInv, IntegrityInv, Integrity, OfStudent
  <2>3. CASE OfStudent(submissions, u) = {}
    <3>1. OfStudent(attempts, u) = {}
      BY <2>2, <2>3 DEF OfStudent
    <3> QED BY <2>1, <3>1, FS_EmptySet
  <2>4. CASE OfStudent(submissions, u) # {}
    <3>1. PICK x \in OfStudent(submissions, u) : TRUE
      BY <2>4
    <3>2. x \in submissions /\ x.user = u /\ x.number \in Nat /\ x.number <= limit
      BY DEF OfStudent, WaitingLimit, Bounded, CountersWithinLimit, WaitingInv,
             IntegrityInv, HistoryInv, TypeInv, TypeOK, Submission
    <3>3. \A a \in attempts : a.sub = x.id => a.user = u
      BY <3>2 DEF WaitingInv, IntegrityInv, Integrity, HistoryInv, Keys
    <3>4. OfStudent(attempts, u) = OfSubmission(attempts, x.id)
      BY <2>1, <2>2, <3>3 DEF OfStudent, OfSubmission, Gapless
    <3>5. Cardinality(OfSubmission(attempts, x.id)) = x.number
      BY <2>1, <3>2, CountNumbered DEF Gapless, Numbered
    <3> QED BY <3>2, <3>4, <3>5
  <2> QED BY <2>3, <2>4
<1> QED BY <1>1, WaitingHolds, WaitingLimitHolds, PTL

\* A new attempt is that of the request which takes the step.
LEMMA WhoAttempts ==
    ASSUME [Next]_vars, NEW a \in attempts' \ attempts
    PROVE  \E r \in Requests, v \in Scores : Grade(r, v) /\ a = NewAttempt(r, v)
<1>1. CASE \E r \in Requests : Arrive(r) \/ Advance(r) \/ Fail(r)
  BY <1>1, WhatCommits DEF CommitUpload, Delete, OfSubmission, Grade
<1> QED BY <1>1, WhoMoves

\* A student who waits is graded on the notebook that was stored last, although
\* the grading reads it long after the transaction that stored it.
THEOREM StoredIsGraded ==
    ASSUME ~Overlap
    PROVE  Spec => GradedIsStored
<1> DEFINE Stored == \A a \in attempts' \ attempts : a.graded = blob[a.path]
<1>1. WaitingInv /\ [Next]_vars => [Stored]_vars
  <2> SUFFICES ASSUME WaitingInv, [Next]_vars, NEW a \in attempts' \ attempts
               PROVE  a.graded = blob[a.path]
    OBVIOUS
  <2>1. PICK r \in Requests, v \in Scores : Grade(r, v) /\ a = NewAttempt(r, v)
    BY WhoAttempts
  <2>2. a.graded = req[r].graded /\ a.path = req[r].user
    BY <2>1 DEF NewAttempt, Path
  <2>3. Alone(r) /\ req[r].pc = "grade"
    BY <2>1 DEF WaitingInv, Grade
  <2> QED BY <2>2, <2>3 DEF Alone
<1>2. Spec => [][Stored]_vars
  BY <1>1, WaitingHolds, PTL DEF Spec
<1> QED BY <1>2 DEF GradedIsStored

\* A student who waits gets no attempt within the cooldown of another one,
\* though the rate limit is tested when the request arrives and not at its end.
THEOREM CooldownIsKept ==
    ASSUME ~Overlap
    PROVE  Spec => CooldownKept
<1> DEFINE Cool == \A a \in attempts' \ attempts : ~Cooling(a.user)
<1>1. WaitingInv /\ [Next]_vars => [Cool]_vars
  <2> SUFFICES ASSUME WaitingInv, [Next]_vars, NEW a \in attempts' \ attempts
               PROVE  ~Cooling(a.user)
    OBVIOUS
  <2>1. PICK r \in Requests, v \in Scores : Grade(r, v) /\ a = NewAttempt(r, v)
    BY WhoAttempts
  <2>2. a.user = req[r].user
    BY <2>1 DEF NewAttempt
  <2>3. Alone(r) /\ req[r].pc = "grade"
    BY <2>1 DEF WaitingInv, Grade
  <2>4. req[r].kind \in {"evaluate", "embedded"}
    BY <2>3 DEF Alone, Steps, Kinds
  <2> QED BY <2>2, <2>3, <2>4 DEF Alone, Steps
<1>2. Spec => [][Cool]_vars
  BY <1>1, WaitingHolds, PTL DEF Spec
<1> QED BY <1>2 DEF CooldownKept

----
(* The ledger *)

\* EntryOf of given rows and attempts, to speak of two states in one formula.
ScoreIn(history, i, k) ==
    (CHOOSE a \in history : a.sub = i /\ a.number = k).score

EntryIn(rows, history, u) ==
    IF OfStudent(rows, u) = {} THEN None
    ELSE LET x == CHOOSE x \in rows : x.user = u
         IN  [shown |-> x.score,
              history |-> [k \in 1..x.number |-> ScoreIn(history, x.id, k)]]

OneRow(rows, u) == \A x, y \in OfStudent(rows, u) : x = y

LEMMA EntryIs ==
    ASSUME NEW rows, NEW history, NEW u, OneRow(rows, u),
           NEW x \in OfStudent(rows, u)
    PROVE  EntryIn(rows, history, u) =
             [shown |-> x.score,
              history |-> [k \in 1..x.number |-> ScoreIn(history, x.id, k)]]
<1>1. x = CHOOSE y \in rows : y.user = u
  BY DEF OneRow, OfStudent
<1> QED BY <1>1 DEF EntryIn

\* A number names one attempt.
LEMMA ScoreIs ==
    ASSUME NEW history, NEW x, Numbered(x, history),
           NEW a \in OfSubmission(history, x.id)
    PROVE  ScoreIn(history, x.id, a.number) = a.score
<1>1. a = CHOOSE b \in history : b.sub = x.id /\ b.number = a.number
  BY DEF Numbered, OfSubmission
<1> QED BY <1>1 DEF ScoreIn

LEMMA NumberNamesAttempt ==
    ASSUME NEW history, NEW x, Numbered(x, history), NEW k \in 1..x.number
    PROVE  \E a \in OfSubmission(history, x.id) : a.number = k
BY DEF Numbered

\* What was graded before keeps its score when attempts are added.
LEMMA ScoreStays ==
    ASSUME NEW old, NEW new, NEW x, NEW y, y.id = x.id,
           Numbered(x, old), Numbered(y, new),
           OfSubmission(old, x.id) \subseteq OfSubmission(new, x.id),
           NEW k \in 1..x.number
    PROVE  ScoreIn(new, x.id, k) = ScoreIn(old, x.id, k)
<1>1. PICK a \in OfSubmission(old, x.id) : a.number = k
  BY NumberNamesAttempt
<1>2. a \in OfSubmission(new, y.id)
  OBVIOUS
<1> QED BY <1>1, <1>2, ScoreIs

LEMMA EntryStays ==
    ASSUME NEW rows, NEW rows2, NEW old, NEW new, NEW u,
           OneRow(rows, u), OfStudent(rows2, u) = OfStudent(rows, u),
           \A x \in OfStudent(rows, u) :
              /\ Numbered(x, old) /\ Numbered(x, new)
              /\ OfSubmission(old, x.id) \subseteq OfSubmission(new, x.id)
    PROVE  EntryIn(rows2, new, u) = EntryIn(rows, old, u)
<1>1. CASE OfStudent(rows, u) = {}
  BY <1>1 DEF EntryIn
<1>2. CASE OfStudent(rows, u) # {}
  <2>1. PICK x \in OfStudent(rows, u) : TRUE
    BY <1>2
  <2>2. \A k \in 1..x.number : ScoreIn(new, x.id, k) = ScoreIn(old, x.id, k)
    BY <2>1, ScoreStays
  <2>3. OneRow(rows2, u) /\ x \in OfStudent(rows2, u)
    BY <2>1 DEF OneRow
  <2>4. EntryIn(rows2, new, u) =
          [shown |-> x.score,
           history |-> [k \in 1..x.number |-> ScoreIn(new, x.id, k)]]
    BY <2>3, EntryIs
  <2>5. EntryIn(rows, old, u) =
          [shown |-> x.score,
           history |-> [k \in 1..x.number |-> ScoreIn(old, x.id, k)]]
    BY <2>1, EntryIs
  <2> QED BY <2>2, <2>4, <2>5
<1> QED BY <1>1, <1>2

\* A grading appends its points.
LEMMA AppendScore ==
    ASSUME NEW n \in Nat, NEW f \in [1..n -> Scores], NEW v \in Scores,
           NEW g \in [1..n + 1 -> Scores],
           \A k \in 1..n : g[k] = f[k], g[n + 1] = v
    PROVE  /\ f \in Seq(Scores) /\ Len(f) = n
           /\ Append(f, v) = g
<1>1. f \in Seq(Scores) /\ Len(f) = n
  OBVIOUS
<1>2. g \in Seq(Scores) /\ Len(g) = n + 1
  OBVIOUS
<1>3. /\ Append(f, v) \in Seq(Scores) /\ Len(Append(f, v)) = n + 1
      /\ \A k \in 1..n : Append(f, v)[k] = f[k]
      /\ Append(f, v)[n + 1] = v
  BY <1>1, AppendProperties
<1>4. \A k \in 1..n + 1 : Append(f, v)[k] = g[k]
  <2>1. \A k \in 1..n + 1 : k \in 1..n \/ k = n + 1
    OBVIOUS
  <2> QED BY <1>3, <2>1
<1> QED BY <1>1, <1>2, <1>3, <1>4, SeqEqual

LEMMA EntryNow ==
    /\ \A u : EntryOf(u) = EntryIn(submissions, attempts, u)
    /\ \A u : EntryOf(u)' = EntryIn(submissions', attempts', u)
BY DEF EntryOf, EntryIn, ScoreOfAttempt, ScoreIn, OfStudent

\* The entry of a student with a submission, whose gradings have scores.
LEMMA EntryOfRow ==
    ASSUME WaitingInv, NEW u \in Students, NEW x \in OfStudent(submissions, u)
    PROVE  LET history == [k \in 1..x.number |-> ScoreIn(attempts, x.id, k)]
           IN  /\ EntryOf(u) = [shown |-> x.score, history |-> history]
               /\ history \in [1..x.number -> Scores]
               /\ EntryOf(u) # None
<1> DEFINE history == [k \in 1..x.number |-> ScoreIn(attempts, x.id, k)]
<1>1. Gapless(u) /\ x \in Submission
  BY DEF WaitingInv, IntegrityInv, HistoryInv, TypeInv, TypeOK, OfStudent
<1>2. x.number \in Nat /\ x.score \in Scores
  BY <1>1 DEF Submission
<1>3. EntryOf(u) = [shown |-> x.score, history |-> history]
  BY <1>1, EntryNow, EntryIs DEF Gapless, OneRow
<1>4. ASSUME NEW k \in 1..x.number
      PROVE  ScoreIn(attempts, x.id, k) \in Scores
  <2>1. Numbered(x, attempts)
    BY <1>1 DEF Gapless
  <2>2. PICK a \in OfSubmission(attempts, x.id) : a.number = k
    BY <2>1, NumberNamesAttempt
  <2>3. a.score \in Scores
    BY DEF WaitingInv, IntegrityInv, HistoryInv, TypeInv, TypeOK, Attempt,
           OfSubmission
  <2> QED BY <2>1, <2>2, <2>3, ScoreIs
<1>5. history \in [1..x.number -> Scores]
  BY <1>4
<1>6. history \in Seq(Scores)
  BY <1>2, <1>5
<1>7. EntryOf(u) \in Ledger!Entry
  BY <1>2, <1>3, <1>6 DEF Ledger!Entry
<1> QED BY <1>3, <1>5, <1>7, LedgerAssumption

LEMMA EntryKept ==
    ASSUME WaitingInv, WaitingInv', NEW u \in Students,
           OfStudent(submissions', u) = OfStudent(submissions, u),
           \A x \in OfStudent(submissions, u) :
              OfSubmission(attempts, x.id) \subseteq OfSubmission(attempts', x.id)
    PROVE  EntryOf(u)' = EntryOf(u)
<1>1. Gapless(u) /\ Gapless(u)'
  BY DEF WaitingInv
<1>2. /\ OneRow(submissions, u)
      /\ \A x \in OfStudent(submissions, u) : Numbered(x, attempts)
      /\ \A x \in OfStudent(submissions', u) : Numbered(x, attempts')
  BY <1>1 DEF Gapless, OneRow
<1> QED BY <1>2, EntryStays, EntryNow

LEMMA OthersEntryKept ==
    ASSUME WaitingInv, WaitingInv', NEW r \in Requests,
           Arrive(r) \/ Advance(r) \/ Fail(r),
           NEW u \in Students, u # req[r].user
    PROVE  EntryOf(u)' = EntryOf(u)
<1>1. Untouched(u)
  BY OthersUntouched DEF WaitingInv
<1>2. ASSUME NEW x \in OfStudent(submissions, u),
             NEW a \in OfSubmission(attempts, x.id)
      PROVE  a \in OfSubmission(attempts', x.id)
  <2>1. a.user = u /\ a \in attempts /\ a.sub = x.id
    BY DEF WaitingInv, IntegrityInv, Integrity, HistoryInv, Keys, OfStudent,
           OfSubmission
  <2> QED BY <1>1, <2>1 DEF Untouched, OfStudent, OfSubmission
<1> QED BY <1>1, <1>2, EntryKept DEF Untouched

\* The entry of the student whose request takes the step.
LEMMA CommitEntry ==
    ASSUME WaitingInv, WaitingInv', NEW r \in Requests, CommitUpload(r),
           NEW u \in Students, u = req[r].user
    PROVE  \/ EntryOf(u)' = EntryOf(u)
           \/ EntryOf(u) = None /\ EntryOf(u)' = Ledger!Fresh
<1>1. submissions' = SubmissionsSeenBy(r) /\ attempts' = attempts
  BY DEF CommitUpload
<1>2. CASE req[r].sub = r
  <2>1. OfStudent(submissions, u) = {}
    BY <1>2 DEF WaitingInv, Alone
  <2>2. NewSubmission(r) \in OfStudent(submissions', u) /\ OneRow(submissions', u)
    BY <1>1, <1>2, <2>1 DEF SubmissionsSeenBy, NewSubmission, OfStudent, OneRow
  <2>3. EntryOf(u)' = [shown |-> 0, history |->
                         [k \in 1..0 |-> ScoreIn(attempts', r, k)]]
    BY <2>2, EntryNow, EntryIs DEF NewSubmission
  <2>4. [k \in 1..0 |-> ScoreIn(attempts', r, k)] = <<>>
    OBVIOUS
  <2> QED BY <2>1, <2>3, <2>4, EntryNow DEF EntryIn, Ledger!Fresh
<1>3. CASE req[r].sub # r
  BY <1>1, <1>3, EntryKept DEF SubmissionsSeenBy
<1> QED BY <1>2, <1>3

LEMMA DeleteEntry ==
    ASSUME WaitingInv, WaitingInv', NEW r \in Requests, Delete(r),
           NEW u \in Students, u = req[r].user
    PROVE  \/ EntryOf(u)' = EntryOf(u)
           \/ EntryOf(u) # None /\ EntryOf(u)' = None
<1>1. /\ submissions' = {x \in submissions : x.id # req[r].sub}
      /\ attempts' = {a \in attempts : a.sub # req[r].sub}
      /\ req[r].pc = "delete"
  BY DEF Delete, OfSubmission
<1>2. CASE \E x \in submissions : x.id = req[r].sub
  <2>1. PICK x \in OfStudent(submissions, u) : x.id = req[r].sub
    BY <1>1, <1>2 DEF WaitingInv, IntegrityInv, Works, OfStudent
  <2>2. OfStudent(submissions', u) = {}
    BY <1>1, <2>1 DEF WaitingInv, Gapless, OfStudent
  <2> QED BY <2>1, <2>2, EntryOfRow, EntryNow DEF EntryIn
<1>3. CASE \A x \in submissions : x.id # req[r].sub
  <2>1. submissions' = submissions
    BY <1>1, <1>3
  <2>2. \A x \in submissions :
          OfSubmission(attempts, x.id) \subseteq OfSubmission(attempts', x.id)
    BY <1>1, <1>3 DEF OfSubmission
  <2> QED BY <2>1, <2>2, EntryKept DEF OfStudent
<1> QED BY <1>2, <1>3

LEMMA GradeEntry ==
    ASSUME WaitingInv, WaitingInv', WaitingLimit, NEW r \in Requests,
           NEW v \in Scores, Grade(r, v), SubmissionExists(r), NEW u \in Students, u = req[r].user
    PROVE  LET entry == IF EntryOf(u) = None THEN Ledger!Fresh ELSE EntryOf(u)
           IN  /\ Len(entry.history) < limit
               /\ EntryOf(u)' = [shown |-> v,
                                 history |-> Append(entry.history, v)]
<1> DEFINE a == NewAttempt(r, v)
           entry == IF EntryOf(u) = None THEN Ledger!Fresh ELSE EntryOf(u)
<1>0. PICK n \in Nat : n = req[r].number /\ n < limit
  BY DEF Grade, WaitingLimit, Bounded, Admitted, WaitingInv, IntegrityInv,
         HistoryInv, TypeInv, TypeOK, Request
<1>1. /\ req[r].pc = "grade"
      /\ submissions' = {IF x.id = req[r].sub THEN Graded(x, r, v) ELSE x :
                           x \in SubmissionsSeenBy(r)}
      /\ attempts' = attempts \cup {a}
      /\ a.sub = req[r].sub /\ a.number = n + 1 /\ a.score = v
  BY <1>0 DEF Grade, NewAttempt
<1>2. PICK x \in SubmissionsSeenBy(r) : x.id = req[r].sub
  BY DEF SubmissionExists
<1>3. /\ x \in Submission /\ x.user = u /\ x.number = n
      /\ x \in submissions \/ (req[r].sub = r /\ x.number = 0)
      /\ req[r].sub = r => OfStudent(submissions, u) = {} /\ n = 0
  <2>1. Alone(r) /\ Works(r) /\ x \in Submission
    BY <1>1, SeenSound DEF WaitingInv, IntegrityInv, Steps
  <2>2. x \in submissions \/ (req[r].sub = r /\ x = NewSubmission(r))
    BY DEF SubmissionsSeenBy
  <2> QED BY <1>0, <1>1, <1>2, <2>1, <2>2 DEF Alone, Works, NewSubmission
<1> DEFINE y == Graded(x, r, v)
<1>4. /\ y \in OfStudent(submissions', u)
      /\ y.id = x.id /\ y.number = n + 1 /\ y.score = v
  <2>1. y.id = x.id /\ y.number = n + 1 /\ y.score = v /\ y.user = u
    BY <1>0, <1>3 DEF Graded, Submission
  <2>2. y \in submissions'
    BY <1>1, <1>2
  <2> QED BY <2>1, <2>2 DEF OfStudent
<1>5. OneRow(submissions', u) /\ Numbered(y, attempts')
  BY <1>4 DEF WaitingInv, Gapless, OneRow
<1> DEFINE g == [k \in 1..n + 1 |-> ScoreIn(attempts', x.id, k)]
<1>6. EntryOf(u)' = [shown |-> v, history |-> g]
  <2>1. EntryOf(u)' = EntryIn(submissions', attempts', u)
    BY EntryNow
  <2> HIDE DEF y
  <2>2. EntryIn(submissions', attempts', u) =
          [shown |-> y.score,
           history |-> [k \in 1..y.number |-> ScoreIn(attempts', y.id, k)]]
    BY <1>4, <1>5, EntryIs
  <2> QED BY <1>4, <2>1, <2>2
<1>7. g[n + 1] = v
  <2>1. a \in OfSubmission(attempts', y.id)
    BY <1>1, <1>2, <1>4 DEF OfSubmission
  <2>2. ScoreIn(attempts', y.id, a.number) = v
    BY <1>1, <1>5, <2>1, ScoreIs
  <2> QED BY <1>1, <1>4, <2>2
<1>8. /\ entry.history \in [1..n -> Scores]
      /\ \A k \in 1..n : g[k] = entry.history[k]
  <2>1. CASE x \in submissions
    <3>1. x \in OfStudent(submissions, u) /\ Numbered(x, attempts)
      BY <1>3, <2>1 DEF OfStudent, WaitingInv, Gapless
    <3> DEFINE f == [k \in 1..n |-> ScoreIn(attempts, x.id, k)]
    <3>2. /\ EntryOf(u) = [shown |-> x.score, history |-> f]
          /\ f \in [1..n -> Scores] /\ EntryOf(u) # None
      BY <1>3, <3>1, EntryOfRow
    <3>3. OfSubmission(attempts, x.id) \subseteq OfSubmission(attempts', x.id)
      BY <1>1 DEF OfSubmission
    <3>4. \A k \in 1..n : ScoreIn(attempts', x.id, k) = ScoreIn(attempts, x.id, k)
      BY <1>3, <1>4, <1>5, <3>1, <3>3, ScoreStays
    <3>5. \A k \in 1..n : g[k] = f[k]
      BY <3>4
    <3> HIDE DEF f, g
    <3> QED BY <3>2, <3>5
  <2>2. CASE x \notin submissions
    <3>1. n = 0 /\ EntryOf(u) = None
      BY <1>3, <2>2, EntryNow DEF EntryIn
    <3>2. entry.history = <<>> /\ <<>> \in [1..0 -> Scores]
      BY <3>1 DEF Ledger!Fresh
    <3>3. 1..n = 1..0 /\ \A k \in 1..0 : FALSE
      BY <3>1
    <3> QED BY <3>2, <3>3
  <2> QED BY <2>1, <2>2
<1>9. g \in [1..n + 1 -> Scores]
  <2>1. \A k \in 1..n + 1 : k \in 1..n \/ k = n + 1
    OBVIOUS
  <2> HIDE DEF entry
  <2>2. \A k \in 1..n + 1 : g[k] \in Scores
    BY <1>7, <1>8, <2>1
  <2> QED BY <2>2
<1> HIDE DEF g, entry
<1>10. Len(entry.history) = n /\ Append(entry.history, v) = g
  <2> DEFINE f == entry.history
  <2>1. f \in [1..n -> Scores] /\ \A k \in 1..n : g[k] = f[k]
    BY <1>8
  <2> HIDE DEF f
  <2>2. Len(f) = n /\ Append(f, v) = g
    BY <1>7, <1>9, <2>1, AppendScore
  <2> QED BY <2>2 DEF f
<1> QED BY <1>0, <1>6, <1>10 DEF entry

\* The pipeline of students who wait for each answer, under a limit that is not
\* lowered, implements the ledger: each of its steps registers a student, records
\* one grading after those before it, withdraws them all, raises the limit, or
\* is none of the ledger's business.
THEOREM PipelineImplementsLedger ==
    ASSUME ~Overlap, ~LowerLimit
    PROVE  Spec => ImplementsLedger
<1>1. Init => Ledger!LedgerInit
  BY DEF Init, Ledger!LedgerInit, EntryOf, OfStudent, Limits
<1>2. /\ WaitingInv /\ WaitingInv' /\ WaitingLimit /\ [Next]_vars
      => [Ledger!LedgerNext]_Ledger!ledgerVars
  <2> SUFFICES ASSUME WaitingInv, WaitingInv', WaitingLimit, [Next]_vars
               PROVE  [Ledger!LedgerNext]_Ledger!ledgerVars
    OBVIOUS
  <2> DEFINE bar == [u \in Students |-> EntryOf(u)]
  <2>1. ASSUME NEW r \in Requests, Arrive(r) \/ Advance(r) \/ Fail(r)
        PROVE  [Ledger!LedgerNext]_Ledger!ledgerVars
    <3>1. limit' = limit
      BY <2>1, LimitUnmoved
    <3>2. CASE UNCHANGED <<submissions, attempts>>
      <4>1. \A u : EntryOf(u)' = EntryOf(u)
        BY <3>2, EntryNow
      <4> QED BY <3>1, <4>1 DEF Ledger!ledgerVars
    <3>3. CASE CommitUpload(r) \/ Delete(r)
               \/ \E v \in Scores : Grade(r, v) /\ SubmissionExists(r)
      <4> DEFINE u == req[r].user
      <4>1. u \in Students
        <5>1. req[r].pc \in {"commit", "delete", "grade"}
          BY <3>3 DEF CommitUpload, Delete, Grade
        <5> QED BY <5>1 DEF WaitingInv, IntegrityInv, HistoryInv, TypeInv, LocalsOK,
                            Steps
      <4>2. \A w \in Students : w # u => EntryOf(w)' = EntryOf(w)
        BY <2>1, OthersEntryKept
      <4> DEFINE new == EntryIn(submissions', attempts', u)
      <4>3. bar' = [bar EXCEPT ![u] = new]
        BY <4>1, <4>2, EntryNow
      <4>4. bar[u] = EntryOf(u)
        BY <4>1
      <4>5. ASSUME new = EntryOf(u)
             PROVE  [Ledger!LedgerNext]_Ledger!ledgerVars
        <5>1. bar' = bar
          BY <4>3, <4>4, <4>5
        <5> QED BY <3>1, <5>1 DEF Ledger!ledgerVars
      <4>6. CASE CommitUpload(r)
        <5>1. \/ new = EntryOf(u)
              \/ EntryOf(u) = None /\ new = Ledger!Fresh
          BY <4>1, <4>6, CommitEntry, EntryNow
        <5>2. CASE new = EntryOf(u)
          BY <3>1, <4>5, <5>2
        <5>3. CASE EntryOf(u) = None /\ new = Ledger!Fresh
          <6>1. Ledger!Register(u)
            BY <3>1, <4>3, <4>4, <5>3 DEF Ledger!Register
          <6> QED BY <4>1, <6>1 DEF Ledger!LedgerNext
        <5> QED BY <5>1, <5>2, <5>3
      <4>7. CASE Delete(r)
        <5>1. \/ new = EntryOf(u)
              \/ EntryOf(u) # None /\ new = None
          BY <4>1, <4>7, DeleteEntry, EntryNow
        <5>2. CASE new = EntryOf(u)
          BY <3>1, <4>5, <5>2
        <5>3. CASE EntryOf(u) # None /\ new = None
          <6>1. Ledger!Withdraw(u)
            BY <3>1, <4>3, <4>4, <5>3 DEF Ledger!Withdraw
          <6> QED BY <4>1, <6>1 DEF Ledger!LedgerNext
        <5> QED BY <5>1, <5>2, <5>3
      <4>8. ASSUME NEW v \in Scores, Grade(r, v), SubmissionExists(r)
            PROVE  [Ledger!LedgerNext]_Ledger!ledgerVars
        <5> DEFINE entry == IF EntryOf(u) = None THEN Ledger!Fresh ELSE EntryOf(u)
        <5>1. /\ Len(entry.history) < limit
              /\ new = [shown |-> v, history |-> Append(entry.history, v)]
          BY <4>1, <4>8, GradeEntry, EntryNow
        <5>2. Ledger!Grading(u, v)
          BY <3>1, <4>3, <4>4, <5>1 DEF Ledger!Grading
        <5> QED BY <4>1, <4>8, <5>2 DEF Ledger!LedgerNext
      <4> QED BY <3>3, <4>6, <4>7, <4>8
    <3> QED BY <2>1, <3>2, <3>3, WhatCommits
  <2>2. CASE /\ UNCHANGED <<submissions, files, attempts, blob, req>>
             /\ UNCHANGED <<limit, torn>> \/ \E n \in Limits : UpdateLimit(n)
    <3>1. bar' = bar
      BY <2>2, EntryNow
    <3>2. ASSUME NEW n \in Limits, UpdateLimit(n)
          PROVE  Ledger!RaiseLimit(n)
      <4>1. n > limit /\ limit' = n
        BY <3>2 DEF UpdateLimit
      <4> QED BY <3>1, <4>1 DEF Ledger!RaiseLimit
    <3> QED BY <2>2, <3>1, <3>2 DEF Ledger!LedgerNext, Ledger!ledgerVars, Limits
  <2> QED BY <2>1, <2>2, WhoMoves
<1> QED BY <1>1, <1>2, WaitingHolds, WaitingLimitHolds, PTL
        DEF Spec, ImplementsLedger, Ledger!LedgerSpec

====
