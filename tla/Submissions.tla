---- MODULE Submissions ----
(***************************************************************************)
(* The submission pipeline of one assignment: students upload a notebook,  *)
(* have it graded, grade the notebook of the embedded editor, and delete   *)
(* their submission, each by an HTTP request that runs as a coroutine with *)
(* one READ COMMITTED transaction (src/app/db.py:28-31) and suspends at    *)
(* every await.  A tutor meanwhile edits the attempt limit and the dates.  *)
(*                                                                         *)
(* submissions, files and attempts are the COMMITTED rows of the tables    *)
(* submission, submission_file and submission_attempt.  What a request has *)
(* written and not committed stays in its record: req[r].sub = r says that *)
(* it inserted a submission row, req[r].file = r a file row, and           *)
(* req[r].locked that it updated a file row and so holds its row lock.     *)
(* A row takes the name of the request that inserted it as its id: a       *)
(* request inserts at most one row in each table, and each request of      *)
(* Requests is made once, so Requests bounds a behaviour.                  *)
(*                                                                         *)
(* A definition named ...Mutant is a plausible bug in the definition it    *)
(* stands before; it is used only when that definition is replaced by it   *)
(* to see that a property notices.                                         *)
(***************************************************************************)
EXTENDS Integers, FiniteSets

CONSTANTS
    Students,    \* users with the student role
    Requests,    \* requests they make, each at most once
    Scores,      \* points a grading run can report
    MaxLimit,    \* bound on assignment.number_of_attempts
    Overlap,     \* may a student start a request before the last one ended?
    LowerLimit,  \* may the tutor lower the attempt limit?
    None         \* no request, no row

ASSUME SubmissionsAssumption ==
    /\ Scores \subseteq Nat
    /\ 0 \in Scores
    /\ MaxLimit \in Nat \ {0}
    /\ Overlap \in BOOLEAN
    /\ LowerLimit \in BOOLEAN
    /\ None \notin Requests
    /\ None \notin Students

VARIABLES
    limit,        \* assignment.number_of_attempts
    open,         \* is today within assignment.start_date .. due_date?
    submissions,  \* committed rows of submission
    files,        \* committed rows of submission_file
    attempts,     \* committed rows of submission_attempt
    blob,         \* the Dropbox file of each path: the upload that wrote it
    recent,       \* attempts created less than EVALUATE_COOLDOWN_SECONDS ago
    req,          \* the requests: program counter, locals, uncommitted writes
    torn          \* history: has the limit changed between the reads of a check?

settings == <<limit, open, torn>>
tables == <<submissions, files, attempts>>
vars == <<limit, open, submissions, files, attempts, blob, recent, req, torn>>

Limits == 1..MaxLimit

Kinds == {"upload", "embedded", "evaluate", "delete"}

Steps == {"admit", "find", "store", "locate", "update", "insert", "commit",
          "check", "count", "read", "grade", "delete"}

Submission == [id: Requests, user: Students, score: Scores, number: Nat]

SubmissionFile == [id: Requests, sub: Requests]

\* graded is a history field: the upload whose notebook was graded.
Attempt == [id: Requests, sub: Requests, user: Students, number: Nat,
            score: Scores, path: Students, graded: Requests \cup {None}]

Request == [pc: Steps \cup {"idle", "closed"}, kind: Kinds \cup {None},
            user: Students \cup {None}, sub: Requests \cup {None},
            file: Requests \cup {None}, locked: BOOLEAN, max: Nat,
            number: Nat, graded: Requests \cup {None}]

Idle == [pc |-> "idle", kind |-> None, user |-> None, sub |-> None,
         file |-> None, locked |-> FALSE, max |-> 0, number |-> 0, graded |-> None]

\* The session is closed: its locals, uncommitted rows and locks are gone.
Closed == [Idle EXCEPT !.pc = "closed"]

----
SharedPathMutant(u) == CHOOSE s \in Students : TRUE

\* The Dropbox path {user_id}_{assignment_id}.ipynb: one for each student.
Path(u) == u

NewSubmissionMutant(r) == [id |-> r, user |-> None, score |-> 0, number |-> 0]

\* What the statements of r see: committed rows and the rows it inserted.
NewSubmission(r) == [id |-> r, user |-> req[r].user, score |-> 0, number |-> 0]

SubmissionsSeenBy(r) ==
    submissions \cup IF req[r].sub = r THEN {NewSubmission(r)} ELSE {}

FilesSeenBy(r) ==
    files \cup IF req[r].file = r THEN {[id |-> r, sub |-> req[r].sub]} ELSE {}

OfStudent(rows, u) == {x \in rows : x.user = u}

OfSubmission(rows, i) == {x \in rows : x.sub = i}

\* The submission row that r works on, as the foreign keys of its rows need it.
SubmissionExists(r) == \E x \in SubmissionsSeenBy(r) : x.id = req[r].sub

\* Another transaction updated file row f and has not ended.
LockedByOther(r, f) ==
    \E q \in Requests \ {r} : req[q].locked /\ req[q].file = f

\* The student's latest committed attempt is younger than the cooldown.
Cooling(u) == \E a \in attempts : a.user = u /\ a.id \in recent

EndedLateMutant(number, max) == number = max + 1

\* The number of attempts is compared with the limit by ==.
EndedAttempts(number, max) == number = max

Goto(r, pc) == req' = [req EXCEPT ![r].pc = pc]

KeepLockMutant(r) == req' = [req EXCEPT ![r].pc = "closed"]

\* The session is closed: locals, uncommitted rows and locks are gone.
Close(r) == req' = [req EXCEPT ![r] = Closed]

----
(***************************************************************************)
(* The endpoints.  A request refused before its first step leaves no       *)
(* trace and is not a step.                                                *)
(***************************************************************************)

\* Overlap = FALSE: the student waits for each answer (isSubmitting in
\* assignment-for-student.js) and no earlier handler is still running.
MayBegin(r, u) ==
    /\ req[r].pc = "idle"
    /\ Overlap \/ \A q \in Requests : req[q].user # u

Begin(r, u, kind, pc) ==
    /\ MayBegin(r, u)
    /\ req' = [req EXCEPT ![r] = [Idle EXCEPT !.pc = pc, !.kind = kind, !.user = u]]
    /\ UNCHANGED <<settings, tables, blob, recent>>

\* POST /assignments/{id}/submissions
AddSubmission(r, u) == Begin(r, u, "upload", "admit")

EvaluateAtOnceMutant(r, u) == Begin(r, u, "evaluate", "check")

\* POST /assignments/{id}/submissions/evaluate, past the rate limit
EvaluateSubmission(r, u) == ~Cooling(u) /\ Begin(r, u, "evaluate", "check")

\* POST /assignments/{id}/notebook/evaluate, past the rate limit and save_draft
EvaluateEmbeddedNotebook(r, u) == ~Cooling(u) /\ Begin(r, u, "embedded", "admit")

\* DELETE /submissions/{i}, past the lookup of the student's row i
DeleteSubmission(r, u, i) ==
    /\ MayBegin(r, u)
    /\ \E x \in submissions : x.id = i /\ x.user = u
    /\ req' = [req EXCEPT ![r] = [Idle EXCEPT !.pc = "delete", !.kind = "delete",
                                              !.user = u, !.sub = i]]
    /\ UNCHANGED <<settings, tables, blob, recent>>

----
(***************************************************************************)
(* process_and_upload_submission_bytes                                     *)
(***************************************************************************)

\* check_date_submission.  Decoding, the resource downloads and the sandbox
\* execution that follow change nothing; Fail covers their errors.
Admit(r) ==
    /\ req[r].pc = "admit"
    /\ IF open THEN Goto(r, "find") ELSE Close(r)
    /\ UNCHANGED <<settings, tables, blob, recent>>

AlwaysAddMutant(r) ==
    /\ req[r].pc = "find"
    /\ req' = [req EXCEPT ![r].pc = "store", ![r].sub = r]
    /\ UNCHANGED <<settings, tables, blob, recent>>

\* Find the student's submission row or insert one; find_one_or_none raises
\* MultipleResultsFound when there are two.
FindOrAddSubmission(r) ==
    /\ req[r].pc = "find"
    /\ LET found == OfStudent(submissions, req[r].user)
       IN  IF \A x, y \in found : x = y
             THEN req' = [req EXCEPT ![r].pc = "store",
                            ![r].sub = IF found = {} THEN r
                                       ELSE (CHOOSE x \in found : TRUE).id]
             ELSE Close(r)
    /\ UNCHANGED <<settings, tables, blob, recent>>

\* Dropbox overwrites the path at once; the transaction has not committed.
\* upload_file may still raise when it asks for the shared link.
StoreNotebook(r) ==
    /\ req[r].pc = "store"
    /\ blob' = [blob EXCEPT ![Path(req[r].user)] = r]
    /\ \/ Goto(r, "locate")
       \/ Close(r)
    /\ UNCHANGED <<settings, tables, recent>>

AlwaysInsertMutant(r) ==
    /\ req[r].pc = "locate"
    /\ Goto(r, "insert")
    /\ UNCHANGED <<settings, tables, blob, recent>>

LocateFile(r) ==
    /\ req[r].pc = "locate"
    /\ LET found == OfSubmission(files, req[r].sub)
       IN  CASE found = {} -> Goto(r, "insert")
             [] \E f \in found : found = {f} ->
                  req' = [req EXCEPT ![r].pc = "update",
                                     ![r].file = (CHOOSE f \in found : TRUE).id]
             [] OTHER -> Close(r)
    /\ UNCHANGED <<settings, tables, blob, recent>>

\* The endpoint that goes on: the upload ends here, the embedded one grades.
AfterUpload(r) == IF req[r].kind = "upload" THEN "commit" ELSE "check"

\* UPDATE waits for the row lock; a row deleted meanwhile is 0 rows, no error.
UpdateFile(r) ==
    /\ req[r].pc = "update"
    /\ ~LockedByOther(r, req[r].file)
    /\ req' = [req EXCEPT ![r].pc = AfterUpload(r),
                          ![r].locked = \E f \in files : f.id = req[r].file]
    /\ UNCHANGED <<settings, tables, blob, recent>>

\* INSERT fails on its foreign key when the submission was deleted meanwhile.
InsertFile(r) ==
    /\ req[r].pc = "insert"
    /\ IF SubmissionExists(r)
         THEN req' = [req EXCEPT ![r].pc = AfterUpload(r), ![r].file = r]
         ELSE Close(r)
    /\ UNCHANGED <<settings, tables, blob, recent>>

UploadResetsScoreMutant(r) ==
    /\ req[r].pc = "commit"
    /\ submissions' = {IF x.id = req[r].sub THEN [x EXCEPT !.score = 0] ELSE x :
                         x \in SubmissionsSeenBy(r)}
    /\ files' = FilesSeenBy(r)
    /\ Close(r)
    /\ UNCHANGED <<settings, attempts, blob, recent>>

\* add_submission returns and get_db_session commits.
CommitUpload(r) ==
    /\ req[r].pc = "commit"
    /\ submissions' = SubmissionsSeenBy(r)
    /\ files' = FilesSeenBy(r)
    /\ Close(r)
    /\ UNCHANGED <<settings, attempts, blob, recent>>

----
(***************************************************************************)
(* check_date_and_attempts_submission and evaluate_submission              *)
(***************************************************************************)

\* Read the assignment: check its dates and keep its limit.
CheckDates(r) ==
    /\ req[r].pc = "check"
    /\ IF open THEN req' = [req EXCEPT ![r].pc = "count", ![r].max = limit]
       ELSE Close(r)
    /\ UNCHANGED <<settings, tables, blob, recent>>

\* Read the submission and compare it with the limit that was kept.  The row read
\* here is the one graded; its number_of_attempts is kept, the limit is not.
CheckAttempts(r) ==
    /\ req[r].pc = "count"
    /\ LET found == OfStudent(SubmissionsSeenBy(r), req[r].user)
       IN  \/ \E x \in found :
                /\ found = {x} /\ ~EndedAttempts(x.number, req[r].max)
                /\ req' = [req EXCEPT ![r].pc = "read", ![r].sub = x.id,
                                      ![r].max = 0, ![r].number = x.number]
           \/ /\ \A x \in found : found # {x} \/ EndedAttempts(x.number, req[r].max)
              /\ Close(r)
    /\ UNCHANGED <<settings, tables, blob, recent>>

\* Find the file row and download what its path holds now.  The tutor's
\* notebook and the resources are read next and change nothing.
ReadSolution(r) ==
    /\ req[r].pc = "read"
    /\ IF \E f \in FilesSeenBy(r) : OfSubmission(FilesSeenBy(r), req[r].sub) = {f}
         THEN req' = [req EXCEPT ![r].pc = "grade",
                                 ![r].graded = blob[Path(req[r].user)]]
         ELSE Close(r)
    /\ UNCHANGED <<settings, tables, blob, recent>>

KeepScoreMutant(x, r, v) == [x EXCEPT !.number = req[r].number + 1]

\* UPDATE submission SET score, number_of_attempts
Graded(x, r, v) == [x EXCEPT !.score = v, !.number = req[r].number + 1]

NewAttempt(r, v) ==
    [id |-> r, sub |-> req[r].sub, user |-> req[r].user,
     number |-> req[r].number + 1, score |-> v,
     path |-> Path(req[r].user), graded |-> req[r].graded]

\* The sandbox reports v points; UPDATE submission, INSERT submission_attempt
\* and commit.  A submission deleted meanwhile fails the attempt's foreign key.
Grade(r, v) ==
    /\ req[r].pc = "grade"
    /\ IF SubmissionExists(r)
         THEN /\ submissions' = {IF x.id = req[r].sub THEN Graded(x, r, v) ELSE x :
                                   x \in SubmissionsSeenBy(r)}
              /\ files' = FilesSeenBy(r)
              /\ attempts' = attempts \cup {NewAttempt(r, v)}
              /\ recent' = recent \cup {r}
         ELSE UNCHANGED <<tables, recent>>
    /\ Close(r)
    /\ UNCHANGED <<settings, blob>>

----
\* DELETE submission_file waits for the row locks of uncommitted updates;
\* DELETE submission cascades to the attempts.  The Dropbox file stays.
Delete(r) ==
    /\ req[r].pc = "delete"
    /\ \A f \in OfSubmission(files, req[r].sub) : ~LockedByOther(r, f.id)
    /\ files' = files \ OfSubmission(files, req[r].sub)
    /\ submissions' = {x \in submissions : x.id # req[r].sub}
    /\ attempts' = attempts \ OfSubmission(attempts, req[r].sub)
    /\ Close(r)
    /\ UNCHANGED <<settings, blob, recent>>

\* Any error, client disconnect or crash of the process before the commit:
\* the transaction is rolled back, the Dropbox files stay as they are.
Fail(r) ==
    /\ req[r].pc \in Steps
    /\ Close(r)
    /\ UNCHANGED <<settings, tables, blob, recent>>

\* PATCH /assignments/{id} with a new number_of_attempts
UpdateLimit(n) ==
    /\ n # limit /\ (n > limit \/ LowerLimit)
    /\ limit' = n
    /\ torn' = (torn \/ \E r \in Requests : req[r].pc = "count")
    /\ UNCHANGED <<open, tables, blob, recent, req>>

\* A date passes, or PATCH /assignments/{id} moves the dates.
UpdateDates ==
    /\ open' = ~open
    /\ UNCHANGED <<limit, torn, tables, blob, recent, req>>

CooldownEnds(r) ==
    /\ r \in recent
    /\ recent' = recent \ {r}
    /\ UNCHANGED <<settings, tables, blob, req>>

Init ==
    /\ limit \in Limits
    /\ open = TRUE /\ torn = FALSE
    /\ submissions = {} /\ files = {} /\ attempts = {}
    /\ blob = [u \in Students |-> None]
    /\ recent = {}
    /\ req = [r \in Requests |-> Idle]

Arrive(r) ==
    \E u \in Students :
        \/ AddSubmission(r, u)
        \/ EvaluateSubmission(r, u)
        \/ EvaluateEmbeddedNotebook(r, u)
        \/ \E i \in Requests : DeleteSubmission(r, u, i)

Advance(r) ==
    \/ Admit(r) \/ FindOrAddSubmission(r) \/ StoreNotebook(r)
    \/ LocateFile(r) \/ UpdateFile(r) \/ InsertFile(r) \/ CommitUpload(r)
    \/ CheckDates(r) \/ CheckAttempts(r) \/ ReadSolution(r)
    \/ \E v \in Scores : Grade(r, v)
    \/ Delete(r)

Next ==
    \/ \E r \in Requests : Arrive(r) \/ Advance(r) \/ Fail(r) \/ CooldownEnds(r)
    \/ \E n \in Limits : UpdateLimit(n)
    \/ UpdateDates

Spec == Init /\ [][Next]_vars

\* A started request is scheduled until it ends: the event loop runs it, the
\* sandbox and Dropbox calls have timeouts, and a row lock is released when its
\* holder's transaction ends.
FairSpec == Spec /\ \A r \in Requests : WF_vars(Advance(r))

----
\* Every variable holds rows, paths and requests of its declared shape.
TypeOK ==
    /\ limit \in Limits
    /\ open \in BOOLEAN /\ torn \in BOOLEAN
    /\ submissions \subseteq Submission
    /\ files \subseteq SubmissionFile
    /\ attempts \subseteq Attempt
    /\ blob \in [Students -> Requests \cup {None}]
    /\ recent \subseteq Requests
    /\ req \in [Requests -> Request]

\* The commits of interleaved uploads, gradings and deletions leave every
\* submission with exactly one file row, with a stored notebook behind it, and
\* no file row or attempt without its submission (models.py:48-84).
Integrity ==
    /\ \A x \in submissions :
         /\ \E f \in files : OfSubmission(files, x.id) = {f}
         /\ blob[Path(x.user)] # None
    /\ \A f \in files : \E x \in submissions : x.id = f.sub
    /\ \A a \in attempts : \E x \in submissions : x.id = a.sub /\ x.user = a.user

\* However evaluations of one submission overlap, the score it shows is the
\* score of an attempt with the number it shows, and 0 with no attempt before
\* the first one (submission_manager_service.py:221-242).
ScoreHasItsAttempt ==
    \A x \in submissions :
        IF x.number = 0
          THEN x.score = 0 /\ OfSubmission(attempts, x.id) = {}
          ELSE \E a \in OfSubmission(attempts, x.id) :
                 a.number = x.number /\ a.score = x.score

\* A student's page shows the attempts made of those allowed
\* (student-home.html:69): no attempt and no counter passes the limit.
CountersWithinLimit ==
    /\ \A x \in submissions : x.number <= limit
    /\ \A a \in attempts : a.number <= limit

\* However evaluations overlap, no number passes a limit that is not lowered, nor
\* raised between the two reads of a check: the comparison by == and the counter
\* read before grading are enough for the numbers, though not for how many
\* attempts there are (notebook_service.py:40-57).
WithinLimit == torn \/ CountersWithinLimit

\* The attempt limit counts gradings (assignment-for-student.html:30).
AttemptsWithinLimit ==
    \A u \in Students : Cardinality(OfStudent(attempts, u)) <= limit

\* The attempts of a student who waits for each answer: one submission, with
\* attempts 1, 2, .., number_of_attempts, each recorded once.
GaplessHistory ==
    \A u \in Students :
        /\ Cardinality(OfStudent(submissions, u)) <= 1
        /\ \A x \in OfStudent(submissions, u) :
             /\ {a.number : a \in OfSubmission(attempts, x.id)} = 1..x.number
             /\ Cardinality(OfSubmission(attempts, x.id)) = x.number

\* get_file_of_submission_attempt returns the file of the attempt it names
\* (router.py:279-302): what the attempt's path holds is what was graded.
AttemptFileIsGraded == \A a \in attempts : blob[a.path] = a.graded

\* Attempts are never edited, and disappear only with their submission; the
\* score and the counter of a submission change only with a new attempt of it.
\* An upload that overwrites the notebook keeps both (router.py:128-153).
HistoryIsAppendOnly ==
    [][/\ \A a \in attempts :
            a \in attempts' \/ \A x \in submissions' : x.id # a.sub
       /\ \A x \in submissions :
            \/ x \in submissions'
            \/ \A y \in submissions' : y.id # x.id
            \/ \E a \in attempts' \ attempts : a.sub = x.id]_vars

\* A stored notebook, a submission and an attempt of a student change only in a
\* step of a request of that student: paths and rows are not shared.
OnlyOwnRequestsTouch ==
    [][\A u \in Students :
         \/ /\ blob'[u] = blob[u]
            /\ OfStudent(submissions', u) = OfStudent(submissions, u)
            /\ OfStudent(attempts', u) = OfStudent(attempts, u)
         \/ \E r \in Requests : req[r].user = u /\ req'[r] # req[r]]_vars

\* What a student who waits for each answer is graded on is the notebook stored
\* last, though the grading reads it outside the transaction that stored it.
GradedIsStored ==
    [][\A a \in attempts' \ attempts : a.graded = blob[a.path]]_vars

\* No attempt is recorded within the cooldown of another one of the student
\* (utils.py:13-30); the limit is tested before the grading, not at its end.
CooldownKept ==
    [][\A a \in attempts' \ attempts : ~Cooling(a.user)]_vars

\* An evaluation is admitted only below the limit, as the page that offers the
\* evaluation tests it, with >= (pages/router.py:186).
AdmittedBelowLimit ==
    [][\A r \in Requests :
         req[r].pc = "count" /\ req'[r].pc = "read" => req'[r].number < limit]_vars

\* Every request that was started ends, whatever locks others hold.
RequestsEnd ==
    \A r \in Requests : req[r].pc \in Steps ~> req[r].pc = "closed"

====
