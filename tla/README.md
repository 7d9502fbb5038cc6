# Verification of the autograder

TLA+ modules, TLC configurations and TLAPS proofs for the autograder of Jupyter
notebooks in this repository: a FastAPI application in which tutors publish
assignments as notebooks with hidden tests and students submit solutions that a
sandbox executes and grades. Rows live in PostgreSQL, notebooks in Dropbox, and
an embedded editor keeps working copies in JupyterHub.

1. [The system](#1-the-system): components, state, interactions, what is hard
2. [The modules](#2-the-modules): what models what
3. [The runs](#3-the-runs): what TLC checks, and the bounds
4. [Fairness](#4-fairness)
5. [The proofs](#5-the-proofs)
6. [Findings](#6-findings)
7. [Abstractions and what is not modelled](#7-abstractions-and-what-is-not-modelled)
8. [Plan](#8-plan)

To check a model: `tlc -config submissions_overlap.cfg MCSubmissions.tla`; to
check proofs: `tlapm Submissions_proofs.tla`.

## 1. The system

One process runs the application, one coroutine for each HTTP request. A request
has one `AsyncSession` (`app/db.py`), so one READ COMMITTED transaction that is
committed when the handler returns and rolled back when it raises. Coroutines
interleave at every `await`, which in practice is every database statement and
the sandbox run; the Dropbox SDK is synchronous, so consecutive Dropbox calls of
one handler are not interleaved with anything in the same process.

| component | source | state | operations | correct when |
|---|---|---|---|---|
| submission pipeline | `submissions/router.py`, `submission_manager_service.py`, `notebook_service.py`, `utils.py` | rows of `submission`, `submission_file`, `submission_attempt`; one Dropbox path for each student and assignment | upload, evaluate, embedded evaluate, delete; rate limit by the latest attempt | the three tables agree with each other and with the stored notebook; the score shown is that of a recorded attempt; attempts are within the limit; students do not disturb each other |
| assignments | `assignment/router.py`, `assignment_manager_service.py`, `dao_service.py` | rows of `assignment`, `assignment_file`; Dropbox files of notebooks and resources | create (with background tasks), edit, replace the notebook, add and remove resources, delete | every row has its file, there is one original and one modified notebook, both of one version and of the grade shown; a deletion leaves nothing |
| DAO and session layer | `service/base.py`, `db.py` | transactions, row locks, connection pool (30) | find, add, update, delete, commit, rollback; take and give back a connection | requests end; no connection is lost or shared; requests do not wait for each other's connections while the pool is larger than their number |
| Dropbox storage | `dropbox/service.py` | a file for each path | upload (overwrites), download, delete, link | (external; the users' properties) |
| notebook analysis | `assignment/services/notebook_service.py` | none (pure) | check markers, remove solutions and hidden tests, total points | students see no solution and no hidden test; the points counted are those that can be earned |
| sandbox runner | `sandbox_runner.py`, `sandbox/runner.py` | a thread, a container and a workspace for each run | run, timeout, clean up | every run ends; whatever its end, container and workspace go |
| embedded editor | `embedded_notebook_service.py`, `jupyterhub_config.py` | draft in Dropbox, working copy and server in JupyterHub | open, seed, save draft, evaluate | saved work is not overwritten by older content |
| authentication, users | `auth/`, `user/` | access cookie, refresh token row, global OAuth state | register, login, refresh, logout, Google login | one refresh token for each user; a valid refresh token keeps a session alive |
| users, groups | `user/router.py`, `user/google_router.py` | rows of `user`, `group`; test users | register, complete and change a profile, create the test users | one account for each e-mail; a group has a member |
| disciplines | `discipline/router.py`, `assignment/services/dao_service.py` | rows of `discipline`, `discipline_teacher`; an assignment's discipline and dates | add, find or add, rename, delete, share (admin panel) | a discipline has a teacher, an assignment a discipline, and it begins before it ends |
| pages | `pages/router.py`, `assignment/router.py` (lists) | none; the rows may change between two pages | filter, sort, count, split into pages | who goes through all pages sees every row |
| client | `static/js/` | the page's `isSubmitting` flag | submit, save, open the editor | at most one request of a page is under way |
| admin panel, configuration, logging, migrations, proxy | `admin/`, `config.py`, ... | none of the protocols' | | |

Interactions: the pipeline and the assignments share the tables through foreign
keys (a submission references its assignment, an attempt its submission) and
Dropbox through paths that are functions of ids; the creation of an assignment
hands its uploads to background tasks that run after its commit; the embedded
evaluation is an upload followed by an evaluation in one transaction; the page
allows one request at a time, but two tabs, a retry after a proxy timeout or a
client of the API are not bound by it.

What is hard to test here, with the lines, is the list `hazards` of
`PROJECT.json`: values read before an await and used after it (the attempt
counter, `find_one_or_none` before an insert), files overwritten outside of the
transaction that records them, background work that overlaps with the next
request, two tables deleted in different steps, and waits for row locks.

## 2. The modules

| module | models | extends |
|---|---|---|
| `Submissions` | the submission pipeline, with the attempt limit, the dates, the cooldown and deletion | |
| `AttemptLedger` | abstract: what a student who waits for each answer is promised | |
| `SubmissionsLedger` | the mapping from `Submissions` to `AttemptLedger` | `Submissions` |
| `MCSubmissions` | symmetry for TLC | `SubmissionsLedger` |
| `Submissions_proofs` | types, history and limit, integrity of the rows, students who wait, the refinement | `SubmissionsLedger` |
| `AssignmentFiles` | files of an assignment: creation in the background, replacement, resources, deletion | |
| `MCAssignmentFiles` | symmetry for TLC | `AssignmentFiles` |
| `AssignmentFiles_proofs` | type correctness, that rows have their files, deletion, versions of the notebooks | `AssignmentFiles` |
| `EmbeddedEditor` | the embedded editor of one student: draft, working copy, JupyterHub's user and server | |
| `MCEmbeddedEditor` | for TLC | `EmbeddedEditor` |
| `EmbeddedEditor_proofs` | type correctness, and what openings and saves leave | `EmbeddedEditor` |
| `AuthTokens` | access and refresh tokens of one user: login, Google login, renewal, logout | |
| `MCAuthTokens` | symmetry and a constraint for TLC | `AuthTokens` |
| `AuthTokens_proofs` | type correctness, how long sessions last, what an answer leaves | `AuthTokens` |
| `Evaluations` | connections, threads, containers and workspaces that requests hold | |
| `MCEvaluations` | for TLC | `Evaluations` |
| `Evaluations_proofs` | type correctness, connections, mutual waits, clean-up | `Evaluations` |
| `Registry` | users, groups, disciplines, their teachers, and of assignments discipline and dates | |
| `MCRegistry` | symmetry for TLC | `Registry` |
| `Registry_proofs` | type correctness, groups, disciplines, dates | `Registry` |
| `Notebooks` | checks, removal of answers, points and grading of a notebook | |
| `MCNotebooks` | seventeen cells for TLC | `Notebooks` |
| `Notebooks_proofs` | the two cuts, what handouts show and how they are graded | `Notebooks` |
| `Pages` | the lists that are shown page by page, while their rows change | |
| `MCPages` | for TLC | `Pages` |
| `Pages_proofs` | that no row is missed | `Pages` |

In all models a request is a record with a program counter, the locals that
outlive an await, and what it wrote and did not commit. One action is the code
between two points where another coroutine can run. Committed rows are
variables; a statement sees the committed rows and the request's own
(`SubmissionsSeenBy`, `FilesSeenBy`), `Close` and `Abort` drop what is left.
`Fail` stands for every error, cancellation or crash at that step: uncommitted
rows vanish, Dropbox stays as it is. A crash of the process is a `Fail` of each
request in flight.

**Submissions.** `Begin` and the four endpoints start a request. The upload is
`Admit` (date check, decoding, trial execution), `FindOrAddSubmission`,
`StoreNotebook` (Dropbox overwrites at once), `LocateFile`, then `UpdateFile`
(behind the row lock) or `InsertFile` (behind the foreign key), `CommitUpload`.
An evaluation is `CheckDates` (the assignment is read, its dates are checked and its
limit is kept), `CheckAttempts` (the submission is read, its `number_of_attempts`
compared with the limit that was kept, and itself kept), `ReadSolution` (download of what the path holds now) and `Grade`, which writes
the kept number plus one, inserts the attempt and commits. The embedded
evaluation goes through both (`AfterUpload`). `Delete` removes file rows and, by
cascade, attempts. `UpdateLimit` and `UpdateDates` are the tutor and the clock,
`CooldownEnds` is the passing of the cooldown. `Overlap = FALSE` is the page's
guard (`assignment-for-student.js:59-61, 248-250`): a student starts a request
only when none is in flight, nor any that was given up and is still running.
`graded` in an attempt is a history field: which upload was graded. `torn` is a
history variable: the limit has changed between the two reads of a check.

**AssignmentFiles.** `AddAssignment` commits the assignment (the background
tasks run after the commit) and continues as `StoreNotebooks`,
`RecordNotebooks`, `CommitNotebooks`, then the resources with `AttachResource`
and `CommitResources`; `NextTask` is what the framework does when one task ends,
in error or not. `ReplaceNotebooks`, `LocateFile`, `UpdateFile` / `InsertFile`
(twice) and `UpdateGrade` are `update_file`; `UnlinkResource`, `RemoveResource`
and `ListFiles`, `ClearFiles`, `EraseAssignment` the deletions. `WaitsFor` is
the lock table: a row updated or deleted in an open transaction, and the KEY
SHARE lock on the assignment of a transaction that inserted a row.
`BreakDeadlock` is PostgreSQL's deadlock detector. `alone` (history) says that
no request began while another was running, `failed` that a request met an
error; both are read by properties only.

**EmbeddedEditor.** `CreateSession` opens the editor: `FindDraft` (existence
test and download, one blocking stretch), `SeedDraft` (after the await that looks
up the file row), `FindUser` and `CreateUser`, `StartServer`, `Poll`,
`CreateToken`, `PutNotebook` (the content read at the beginning replaces the
working copy) and `SyncResources`. `SaveDraft`, also the beginning of an embedded
evaluation, is `GetNotebook` and `StoreDraft`. It takes a page that opened the
editor, since the token comes with the URL. `ServerStarts` and `ServerStops` are
JupyterHub, which may do either at any time; the working copy is on a volume and
stays. `Edit` is the student. A content is the number of the edit that made it, so
"older" is `<`. `alone` (history) says that the student began requests and edited
only while no request was running. The page does not ensure that: its save button
is not guarded (`assignment-for-student.js:206-228`).

**AuthTokens.** A token is the time at which it expires. Each browser keeps an
access token in `cookie`; `tokens` are the user's rows of `refresh_token`, which
all browsers share. `Login` and `GoogleCallback` continue with `FindToken` (both
tokens are made, the row is looked for), then `AddToken` or `UpdateToken`;
`Refresh` with `Lookup` (`get_refresh_token` and `refresh_token`); `UseApi`, an
endpoint that depends on both, with `Lookup` and `Authorize` (`get_current_user`);
`Logout` with `Authorize` and `DeleteTokens`. `Answer` is the arrival of the cookie
at the browser, `Tick` the clock. `state` is the one OAuth state of the process,
which `OtherGoogleLogin`, of another user, replaces too. `signed`, `revoked` (when
a login last made tokens, when a logout last deleted rows) and `overlap` are
history variables, read by properties only (`overlap` also by its own update).

**Evaluations.** A request takes the connection of its session with its first
statement (`TakeSession`, in `get_refresh_token`) and keeps it to its end;
`TakeUser` and `ReadUser` are the second session of `get_current_user`.
`PoolTimeout` is SQLAlchemy's, when the pool stays empty. The handler's downloads,
uploads and sandbox runs are `Plan`, a sequence of jobs for the default executor:
`Submit` and `NextJob` enqueue, `StartTransfer` and `StartRun` are a thread that
takes the first one in the queue. `StartRun` makes the workspace and starts the
container, which ends when it likes (`ContainerExits`) or outlives the docker client
that `subprocess.run` kills (`RunTimesOut`). `JobFails`, `NextJob` and `Record` are
the ends of a run: each leaves the workspace (`LeaveWorkspace`), whose removal fails
when the container writes to it meanwhile. `Crash` is the end of the process;
containers and directories survive it. `orphans` (history) are the runs whose
docker client went before the container.

**Registry.** A request finds and then inserts or changes, as above. `LookUpUser`,
`FindGroup`, `AddGroup`, `AddUser` are the registration, `LookUpUser` and
`AddGoogleUser` the Google login, `FindTestUser` and `AddTestUser` the loop of `POST
/auth/test`; `UpdateMe` and `CompleteProfile` end in `UpdateUser`. An INSERT into a
unique index waits for the transaction that inserted the same key (`Pending`,
`newGroup`) and fails when that one commits. `AddAssignment` and `EditAssignment` go
through `FindDiscipline`, which finds, or inserts, or raises when there are two of a
name. A renaming is `CheckOwner`, then `Rename` by the id alone. `DeleteDiscipline` is
`CheckDeletion`, `Unlink`, `SelectLinks`, then `KeepDiscipline` or `DropDiscipline`.
`ShareDiscipline` is the admin panel, which links more teachers. `overlap` (history)
holds the kinds of requests that have overlapped; properties read it.

**Notebooks.** A line is its kind: a marker, a solution, a hidden test, a test
header. `Checked` is `check_notebook`, `TotalPoints` `get_total_points`,
`WithoutSolution` and `WithoutHidden` the two cuts of `modify_notebook` in their
order, with its indices, `Raises` its uncaught error. `Create` and `UpdateFile`
differ as in the code in which notebook is counted. `Evaluate` is a student who
writes some solutions and adds cells, and the loop of the grading script, which
pairs cells by index (`Passes`, `Scored`).

**Pages.** A page of a list is two statements, rows and number, with
`AddRow`, `EraseRow` and `RenameRow` between them. A row is on the page that its
rank says, the number of rows `Before` it (`ORDER BY`, `OFFSET`, `LIMIT`). `Open`, `Follow` and
`SubmitForm` are the links and the form of `tutor-home.html`, `student-home.html`
and their scripts. `stayed` and `shrunk` are history.

Definitions named `...Mutant` are plausible bugs in the definition that follows
them. They are not part of the models; each shows that some property fails when
the definition is replaced by it.

## 3. The runs

| run | module, bounds | checks | result |
|---|---|---|---|
| `submissions_overlap` | 1 student, 4 requests that overlap freely, limit up to 2, scores {0, 1} | `TypeOK`, `Integrity`, `ScoreHasItsAttempt`, `WithinLimit`, `HistoryIsAppendOnly` | hold |
| `submissions_waiting` | 2 students who wait for answers, 5 requests | `AttemptsWithinLimit`, `GaplessHistory`, `OnlyOwnRequestsTouch`, `GradedIsStored`, `CooldownKept`, `ImplementsLedger` | hold |
| `submissions_end` | 1 student, 3 requests, fairness | `RequestsEnd` | holds |
| `limit_exceeded` | 1 student, 3 overlapping requests | `AttemptsWithinLimit` | violated |
| `files_overlap` | 4 overlapping requests, 1 name, up to 2 resources each | `TypeOK`, `RowsBacked`, `NotebooksMatch`, `DeletionIsFinal`, `SequentialUpdatesAgree` | hold |
| `files_end` | 3 requests, 1 resource, fairness | `RequestsEnd` | holds |
| `editor_sessions` | 3 overlapping requests, 2 edits, 2 polls, fairness | `TypeOK`, `EditorHasNotebook`, `EditorShowsDraft`, `DraftNeverGoesBack`, `RequestsEnd` | hold |
| `auth_tokens` | 2 browsers, 4 requests, at most 3 of them under way, clock 0..3, access life 1, refresh life 2 | `TypeOK`, `OneTokenRow`, `SessionIsBounded`, `LogoutEndsSessions`, `AnswersAgree` | hold |
| `evaluations` | 3 requests, 3 connections, 1 thread, 1 crash, fairness | `TypeOK`, `NoConnectionLost`, `NoMutualWait`, `OnlyOrphansRemain`, `RequestsEnd` | hold |
| `registry` | 3 overlapping requests, 2 e-mails, 1 number of a group, 2 teachers, 1 name, dates 1..2 | `TypeOK`, `DisciplinesTaught`, `DatesOrdered`, `NewGroupHasMember` | hold |
| `notebooks` | every notebook of up to 3 of 17 cells, every set of solved and added cells | `HandoutHidesAnswers`, `PointsAddUp` | hold |
| `pages` | up to 5 rows, 2 on a page | `EveryRowShown` | holds |

What they show:

* However a student's requests overlap, fail and are retried, every submission
  has one file row and a stored notebook, no row is orphaned, the score shown is
  that of an attempt with the number shown, and history is only appended to. No
  number passes the limit unless it was lowered, or changed between the two reads
  of a check (`torn`): the check awaits the assignment and then the submission, and
  a limit raised in between lets a number pass it (`limit_raised.cfg`, section 6).
* For students who wait for answers the pipeline *implements* `AttemptLedger`:
  each behaviour is one of a ledger of gradings with atomic operations, whatever
  the requests of other students, failures and rollbacks do in between. The
  limit then really bounds the number of gradings, the cooldown separates them,
  and what is graded is what is stored.
* Without waiting, the *number of gradings* is not bounded (`limit_exceeded`),
  although the *numbers* are (`WithinLimit`).
* File rows never lack their Dropbox file before a deletion begins, the two
  notebooks are of one version unless an upload failed, a completed deletion by
  the owner is final whatever was under way, and requests made one after another
  leave notebooks, rows and grade of one version.
* Requests end. For assignment files this depends on the deadlock detector: a
  replacement that inserted a row (KEY SHARE lock on the assignment) and waits
  for a row that a deletion has deleted, while the deletion waits for the
  assignment, is a cycle. Without `BreakDeadlock` the property is violated.
* Behind an editor that opened there are always a draft, a working copy and a
  user. A student who does one thing at a time finds the saved draft in the
  editor after each opening and save, and never gets an older draft back, however
  many requests failed half-way and however often the server stopped. A student
  with overlapping openings and saves is promised neither: a first opening that
  has found no draft seeds it over one saved meanwhile.
* However renewals, logins and logouts overlap, a session ends: with the refresh
  token of the latest login, or with a logout in any browser, each time but for
  the life of an access token. There is one refresh token unless two logins
  overlap. When two first logins do, both insert a row, and from then on every
  lookup raises, that of the next login included; only a logout removes the rows,
  and it needs an access token that has not expired. An expired access token is
  renewed by `POST /token/refresh` alone: other requests make a new token and are
  then refused for the old one (`Authorize`), without an answer that carries the
  new.
* No connection is lost or shared. Requests wait for each other's second connection
  only when at least as many are under way as the pool has connections; then
  `pool_timeout` refuses some of them. All requests end although containers may run
  for ever, and only a run that timed out or was interrupted by a crash leaves a
  container or a workspace.
* Whatever registrations, Google logins and test users overlap, an e-mail has one
  account, and a group comes with a member. An assignment keeps its discipline
  although a deletion tests for assignments long before it deletes. A discipline
  keeps a teacher unless two deletions overlap: two teachers who delete a shared
  discipline at once each see the other's link, and leave a discipline that nobody
  can change. Dates are ordered unless two edits overlap: each is checked against
  the dates that the other one replaces.
* Handouts of well marked cells show no answer, whatever the order of the blocks.
  Headers are recognised in different ways, and the grade is not always what can be
  earned (`PointsAddUp`): a header without a dot is counted and never run, so the
  grade is the points of the headers with a dot, which a student who solves
  everything and adds at most one cell gets, and of those without (`Unearned`), which
  nobody gets. `instruction.html:37` prescribes the header without
  (`undotted_header.cfg`). For a replacement this needs `Gradable`: its points are
  counted after the cut, and where the cut takes a header away the score is above
  the grade (`header_cut.cfg`).
* Whoever reads a home page's list from the first page to the last sees every row
  that was there all the time, although rows are added meanwhile, because the rows
  are read before they are counted.

Bounds. A request id is used once, so the number of requests bounds a behaviour.
Four overlapping requests are two more than the smallest counterexamples to
`AttemptsWithinLimit` (an upload and two evaluations; three requests), and are
enough for an upload, two evaluations and a deletion, in any order, at once; for
files, for a creation, a replacement, an upload of resources and a deletion.
Limit 2 allows a first, a last and a refused attempt; scores {0, 1} separate a
score that was written from the initial one. Two students share nothing but the
assignment, so a third adds no kind of interference. One resource name with up
to two files in a request gives equal and different paths. Three requests of the
editor are two openings and a save, or an opening and two saves, in any order
and overlap; two edits separate the latest content from an older one and from
the start notebook; two polls (40 in the code) allow an early, a last and a
missed answer. For the tokens, two browsers share a row; a refresh token outlives
an access token, and the clock outlives both, so that each can expire and a row
that was stored at 1 can too. Four requests are a login in each browser, a
logout and a renewal; the constraint `UnderWay` leaves out only that all four are
under way at once. With three connections and three requests every
request can hold one and ask for a second, and one or two of them are the case
that `NoMutualWait` is about. One thread makes the queue matter, and one crash
comes before, during or after a run. Three requests of the registry are two that
find nothing and insert the same, and a third that fails, deletes or edits in
between; one name and one number make them collide, and two teachers share a
discipline; two dates allow both orders. Three cells are a solution and two tests, or a
test between two solutions, so that the place of the test matters; the seventeen
cells are those of the example notebooks and those with a marker missing, doubled,
indented or in another order, or with a header between the markers. Five rows on pages of two are three pages, with a last
one that is not full. Requests, students, browsers, teachers and names are
interchangeable (symmetry), except in the runs that check liveness, where symmetry
is not sound and is not used. `CHECK_DEADLOCK FALSE` is in the configurations in
which the system really may stop: requests are made once, so a behaviour ends when
all are closed.

## 4. Fairness

`FairSpec` of `Submissions`, `AssignmentFiles`, `EmbeddedEditor` and `Evaluations`
(the other models check no liveness): weak fairness of each request's `Advance`. The event
loop resumes every coroutine whose database call has returned, the sandbox run
has a timeout and Dropbox calls have the SDK's. Waiting for a row lock disables
`Advance`, and weak fairness suffices because the holder's transaction ends
(which the property itself shows) and a row lock is not taken again from a
waiting request forever: each request takes finitely many. `BreakDeadlock` is
fair because PostgreSQL looks for cycles after `deadlock_timeout`. Calls of
JupyterHub have a timeout of 10 s (`embedded_notebook_service.py:64`) and the
polls a bound, so openings end although nothing is assumed of JupyterHub. In
`Evaluations` a statement ends, a Dropbox call ends or times out, and the docker
client ends or is killed (`execution_timeout_seconds` and the grace); the pool
refuses after `pool_timeout`, and the queue of the executor is first come first
served, so a request that waits for a thread gets one. Containers may run for ever.
Nothing is assumed of users, failures, the clock or the tutor either.

## 5. The proofs

TLAPS proves, for every set of students, requests, scores, names, notebooks and every
bound (waiting means `~Overlap`, the page's guard):

| theorem | says |
|---|---|
| `Submissions_proofs!TypeCorrect` | `Spec => []TypeOK` |
| `Submissions_proofs!NumbersWithinLimit` | no limit lowered: `Spec => []WithinLimit` (nor changed between the two reads of a check: `torn`) |
| `Submissions_proofs!ScoreIsAnAttempts` | `Spec => []ScoreHasItsAttempt` |
| `Submissions_proofs!HistoryKept` | `Spec => HistoryIsAppendOnly` |
| `Submissions_proofs!RowsAreIntegral` | `Spec => []Integrity` |
| `Submissions_proofs!OwnRequestsTouch` | `Spec => OnlyOwnRequestsTouch` |
| `Submissions_proofs!HistoryIsGapless` | waiting: `Spec => []GaplessHistory` |
| `Submissions_proofs!GradingsWithinLimit` | waiting, no limit lowered: `Spec => []AttemptsWithinLimit` |
| `Submissions_proofs!StoredIsGraded` | waiting: `Spec => GradedIsStored` |
| `Submissions_proofs!CooldownIsKept` | waiting: `Spec => CooldownKept` |
| `Submissions_proofs!PipelineImplementsLedger` | waiting, no limit lowered: `Spec => ImplementsLedger`, the refinement of `AttemptLedger` |
| `AssignmentFiles_proofs!FilesTypeCorrect` | `Spec => []TypeOK` |
| `AssignmentFiles_proofs!RowsAlwaysBacked` | `Spec => []RowsBacked` |
| `AssignmentFiles_proofs!DeletedForGood` | `Spec => []DeletionIsFinal` |
| `AssignmentFiles_proofs!NotebooksOfOneVersion` | `Spec => []NotebooksMatch` |
| `AssignmentFiles_proofs!SequentialUpdatesKept` | `Spec => []SequentialUpdatesAgree` |
| `EmbeddedEditor_proofs!EditorTypeCorrect` | `Spec => []TypeOK` |
| `EmbeddedEditor_proofs!EditorAlwaysHasNotebook` | `Spec => []EditorHasNotebook` |
| `EmbeddedEditor_proofs!EditorAlwaysShowsDraft` | `Spec => EditorShowsDraft` |
| `EmbeddedEditor_proofs!DraftsNeverGoBack` | `Spec => DraftNeverGoesBack` |
| `AuthTokens_proofs!TokensTypeCorrect` | `Spec => []TypeOK` |
| `AuthTokens_proofs!SessionsAreBounded` | `Spec => []SessionIsBounded` |
| `AuthTokens_proofs!LogoutsEndSessions` | `Spec => []LogoutEndsSessions` |
| `AuthTokens_proofs!OneRowUnlessLoginsOverlap` | `Spec => []OneTokenRow` |
| `AuthTokens_proofs!AnswersAgreeAlone` | `Spec => AnswersAgree` |
| `Evaluations_proofs!EvaluationsTypeCorrect` | `Spec => []TypeOK` |
| `Evaluations_proofs!ConnectionsKept` | `Spec => []NoConnectionLost` |
| `Evaluations_proofs!FewRequestsNeverBlock` | `Spec => []NoMutualWait` |
| `Evaluations_proofs!RunsCleanUp` | `Spec => []OnlyOrphansRemain` |
| `Registry_proofs!RegistryTypeCorrect` | `Spec => []TypeOK` (with the unique e-mails) |
| `Registry_proofs!NewGroupsHaveMembers` | `Spec => NewGroupHasMember` |
| `Registry_proofs!DisciplinesStayTaught` | `Spec => []DisciplinesTaught` |
| `Registry_proofs!DatesStayOrdered` | `Spec => []DatesOrdered` |
| `Notebooks_proofs!AnswersStayHidden` | `Spec => []HandoutHidesAnswers` |
| `Notebooks_proofs!ScoresAddUp` | `Spec => []PointsAddUp` |
| `Pages_proofs!NoRowMissed` | `Spec => []EveryRowShown` |

They rest on `SubmissionsAssumption` (scores are naturals with 0, the limit is
positive, `None` is no request or student), `AssignmentFilesAssumption`,
`EmbeddedEditorAssumption`, `AuthTokensAssumption` (the lives of the tokens are
positive), `EvaluationsAssumption` (requests and connections are finite),
`RegistryAssumption` (the two test users differ, `None` is no value),
`NotebooksAssumption` (`Cells` are cells, of any number and length) and
`PagesAssumption` (a page has at least one row). `LedgerAssumption`, `NoneIsNoRow`
and a part of `NotebooksAssumption` say that `None` is no ledger entry, row or
notebook. `~Overlap` and `~LowerLimit` are hypotheses where the table says so, and
nowhere else; `limit_exceeded` and `limit_lowered.cfg` show that the limit needs both.
`limit_raised.cfg` shows that `WithinLimit` needs its `torn`.

*Types.* `TypeOK` is not inductive: a row takes its user and its submission from
a request's locals. `LocalsOK` adds that a request in flight has a student and
that a file row belongs to a submission; in `AssignmentFiles`, `Consistent` ties
each program counter to the kind of the request and its locals.

*Limit.* `EndedAttempts` compares with `==` against a number read before the
grading, so a bound at the check is needed at the commit: `Admitted` says that an
evaluation past the check has `number < limit`, which a raised limit keeps. At the
check the limit is the one that was read a step earlier: while `~torn` it is still the
limit (`LimitInv`).

*Score and history.* `HistoryInv` says that ids are keys, that a committed row
was inserted by a request that has ended (`Settled`), that attempts refer to
submissions, and that a submission shows the score of its attempt. `Settled` is
what makes a new attempt new: the id of a running request is in no table.
`HistoryKept` is an action property proved from `HistoryHolds`.

*Integrity.* `Integrity` speaks of committed rows, and a commit shows rows made steps
earlier. `Works` says what each request holds for them: the row it works on is its
own or one of a request that ended (which no later commit brings back once it was
deleted), its own row has a notebook after the upload and a file row after the
insert, a file row it inserted belongs to its own submission, and what it grades or
deletes is its student's. `Twins` says that a file row has the name of its
submission, so an update never finds the request's own. Both theorems follow from
`IntegrityInv`, which TLC checked before it was proved.

*Waiting students.* `WaitingInv` adds to `IntegrityInv` that a student has one
request (`OneAtATime`), that the attempts of the only submission are numbered from 1
to its counter, each number once (`Gapless`), and what a request therefore knows of
its student across awaits (`Alone`): it inserts a submission only where there is
none, the counter it read is still the committed one, the notebook it downloaded is
still the stored one, and no grading came after the cooldown was checked. The limit
on gradings is then counting: they are as many as the counter, which stays within the
limit even when it is raised in the middle of a check, because nobody else moves the
counter meanwhile: the limit that was read is at least the counter and at most the
limit (`Fits`, `WaitingLimit`).

*Refinement.* A student's ledger entry is computed from committed rows
(`EntryOf`). Each action of the pipeline is a stutter but for the three that commit:
`CommitUpload` opens an entry or leaves it, `Grade` appends the next number, which
needs `Alone`, and `Delete` closes it. `UpdateLimit` is the ledger's. Each is shown
to leave the entries of other students alone.

*Rows and files.* `RowsBacked` speaks of committed rows, but a commit makes rows
visible that were inserted steps earlier. `BackedInv` therefore also says that
rows of open transactions are backed, and that a request between the upload of
the notebooks and its inserts (`Stored`) has both paths backed. That nothing
un-backs a path without its deletion being visible (`StaysBacked`) needs that a
started request keeps its errand (`Follows`) and that a step removes only files
of its own errand (`StoresOwn`). `Moves` is the interface between the two: it
says what a step may do to the request that takes it, and each action is shown
once to be such a step.

*Deletion.* `DeletionIsFinal` is inductive with three facts (`DeletionInv`): there is
no row, committed or not, without the assignment; an assignment is created once;
a request that has not begun holds nothing. What makes it true is that
`EraseAssignment` waits for whoever inserted a row, so nothing is pending when the
assignment goes.

*Versions.* `NotebooksMatch` needs of each step only that the two files of a version
are written together or the request is marked as failed. For
`SequentialUpdatesAgree`, `UpdatesInv` says of histories without overlap and failure
(`Quietly`) that one request runs, what it has done so far at each point (`Orderly`),
and that between requests each notebook has one row, of the version of the stored
files and the grade.

*Editor.* `EditorInv` has three parts. `TypeInv` ties the program counter to the
kind of the request and says that nothing is newer than the latest edit. `Achieved`
says what an opening has ensured at each point; it survives the steps of all other
requests because a draft, a copy and a user are never taken away (`Kept`).
`Undisturbed` holds for a student who does one thing at a time: one request runs,
the content it read is still the draft (or the copy), and the copy is not older
than the draft. The action properties are consequences of one lemma about a step
from such a state (`UndisturbedStep`).

*Tokens.* A cookie is set from what a request keeps over an await, so both bounds
must hold of requests, rows and cookies together (`LifeInv`). `Past`: what a
request made is no later than now, and no later than the latest login's refresh
token. `Ended`: while there is no row, what it made is no later than the latest
logout, unless it is a login about to insert one. Every step is a step that makes
no tokens (`Passes`), one that makes them now (`Issues`), a write of the rows, an
answer or a tick; each action is shown once to be of its class. `OneRowInv`: without
overlapping logins one runs, and when it is about to insert a row there is none.

*Answers.* `AnswersAgree` is about a request that met no other. `SoloInv`: as long as
nothing overlapped at most one request runs, and the row it found when it looked is
still there, and has not expired as it saw it, when it answers (`Settled`).

*Connections.* `Connected` is the shape of what a request holds at each point (none
before its session and after its end, at most two while it looks the user up, at
most one otherwise) together with `NoConnectionLost`. `NoMutualWait` is then counting: if the pool is empty and
nobody is reading, every request holds at most one connection, so the map from
connections to their holders is injective and there are at least as many requests
under way as connections. `CleanedUp` adds to `OnlyOrphansRemain` that a run
whose thread goes on while its container runs is an orphan.

*Registry.* `Locals` ties each program counter to the kind of the request and its
locals, `TestsApart` says that the e-mails of uncommitted test users are nobody
else's; together with `TypeOK` they are inductive (`TypeInv`). `Moves` says what any
step does to the record of the request that takes it. `ProfileInv`: a user whose
profile is being changed is still there, so the commit of a new group gives it a
member. `TaughtInv`: without overlapping deletions there is one deletion, and the
links of others that it has seen are still there when it keeps the discipline.
`DatesInv`: without overlapping edits the dates an edit was checked against are
those it changes, and its target is no row that is yet to be inserted.

*Notebooks.* Both cuts of `modify_notebook` remove a run of lines; `Spliced` says so
without indices, and the lemmas on `Spliced` say which lines go, which stay and in
which order. From them follow what a well marked cell still has after each cut
(`AfterSolutionCut`, `AfterHiddenCut`), in either order of its blocks. `StoredInv`
relates what is stored: the handout is the cut of an accepted notebook, the grade is
counted where the endpoint counts it, and a student's work is the handout with some
cells solved and some added. The grade counts the cells with a header (`Counted`); the
cells of the tests passed (`Passed`) and of the headers without a dot (`Undotted`) are
apart and among them, and all of them when everything is solved. An earlier `Gradable` let a header stand between markers, for
which the equality is false in a replaced notebook; the proof did not go through, and
TLC has the cell now.

*Pages.* `PassedInv`: a row that was there from the beginning and was not shown yet
has a rank beyond the pages read. Ranks of such rows only grow while none leaves the
list, and the number is counted after the rows were read, so a rank beyond the last
page is a row that was counted, and there is a next page.

Every invariant and action property of the passing runs is stated by a theorem. Only
model-checked are the four `RequestsEnd` (liveness, under fairness and with ENABLED,
is out of this prover's reach). The models have no recursive definitions, so nothing
that the prover cannot induct over is left to TLC. The refinement is of the safety
part, which is all that `LedgerSpec` states.

## 6. Findings

One is a run that TLC must find violated; `PROJECT.json` quotes what the code and
the page say.

* `limit_exceeded`: two overlapping evaluations read the same counter and both
  are graded and recorded with the same number, so there are more gradings than
  the page's maximum number of attempts.

Eight further configurations check a property that the code does not keep. TLC
finds each violated in seconds (`tlc -config limit_lowered.cfg MCSubmissions.tla`).

* `limit_lowered.cfg` (`MCSubmissions`, `AdmittedBelowLimit`): the limit is compared
  by `==`; lowered below a counter it admits every further evaluation, while the page
  tests `>=`.
* `limit_raised.cfg` (`MCSubmissions`, `CountersWithinLimit`):
  `check_date_and_attempts_submission` awaits the assignment
  (`submissions/services/notebook_service.py:40`), then the submission (`:51`), and
  compares them (`:57`). With counter and limit 1, one evaluation reads the limit, the
  tutor raises it to 2, another evaluation commits attempt 2, and the first finds
  `2 == 1` false and commits attempt 3 of 2; from then on `==` refuses nothing. The
  page shows the counter as a part of the limit (`student-home.html:69`).
* `undotted_header.cfg` (`MCNotebooks`, `GradeReachable`): `get_total_points`
  (`assignment/services/notebook_service.py:144`) counts a header without the dot,
  while `check_notebook` (`:65`) and the sandbox (`sandbox_runner.py:272`) ask for
  ` points.`. A notebook with headers of both kinds is accepted, and who solves
  everything gets less than the grade. `instruction.html:37` gives the format as
  `# Tests 10 points`, and line 51 as `# Tests N points`. A notebook with such
  headers alone is refused as one without tests.
* `header_cut.cfg` (`MCNotebooks`, `ScoreWithinGrade`): `update_file` counts the points
  of the notebook that `modify_notebook` has changed in place
  (`assignment_manager_service.py:225`), so a header that was cut with a block counts
  nothing in the grade and its points in the sandbox: the score is above the
  "Максимальное количество баллов" (maximum of points,
  `assignment-for-student.html:32`).
* `attempt_file.cfg` (`MCSubmissions`, `AttemptFileIsGraded`): the path in an attempt
  is overwritten by the next upload, so the file of an earlier attempt is the notebook
  uploaded last.
* `notebook_rows.cfg` (`MCAssignmentFiles`, `OneRowEach`): the background finalisation
  inserts the notebook rows without looking; with a replacement in between (or two
  replacements) there are two of each, and every later lookup raises.
* `resource_lost.cfg` (`MCAssignmentFiles`, `ResourcesKept`): the index in a resource's
  path restarts at 1 with each upload; two resources of one name share a file, and
  deleting one loses both.
* `test_line_cut.cfg` (`MCNotebooks`, `OnlyMarkedLinesGo`): `modify_notebook` removes the
  line after `### END HIDDEN TESTS` too, since `end_index` is past the marker already
  and the slice adds one (`notebook_service.py:123-125`); its docstring (line 85) speaks
  of what is between the markers.

Seen while modelling, and in the models or hazards: two disciplines of one name make
every lookup by that name raise; two teachers who delete a shared discipline at once
leave it without one; overlapping `PATCH`es of an assignment can leave it beginning
after it ends; `GET /submissions` counts before it reads, so a row added in between can
be on no page; the form of a list keeps the number of the page when the search changes
(`tutor-home.html:32`); the statistics page reads only its first page; a notebook is
created with the start and the due date equal, which no edit accepts; any string is a
role when a Google profile is completed.

## 7. Abstractions and what is not modelled

* One assignment; its students' pipeline and its files are separate modules:
  `Submissions` has an assignment that stays, and what its deletion does to
  submissions in flight is not modelled.
* A path stands for the string it is formatted from: `{user}_{assignment}.ipynb`
  is the student, a resource path its index and name. A notebook is the request
  that brought it. Contents, decoding and trial execution change no state;
  their errors are `Fail`.
* The sandbox reports any score of `Scores` or fails.
* A request refused before its first statement (rate limit, missing
  notebook, missing role) is no step.
* The UPDATE, INSERT and COMMIT at the end of an evaluation are one action: row
  locks taken there are released in it, and no other statement of the module
  reads between them what they change. Lookups that follow each other and lead
  to the same answer are one action: both records in `update_file`, assignment
  and files in `delete_assignment`, where the action offers every result that
  separate lookups could give, by failure or by the set of removed files; and link
  and assignments in `delete_discipline` (`CheckDeletion`), where a refusal changes
  nothing and a link that goes in between is looked up again (`Unlink`). The two
  reads of an evaluation's check are two actions: they are compared with each other.
* KEY SHARE locks that an inserted file row takes on its submission are not in
  `Submissions`: a file row is inserted only for a submission inserted by the
  same transaction, which no other one sees (`Works` proves it). A committed
  submission has a file row (`Integrity`), and when both were deleted meanwhile the
  insert fails.
* Reads (lists, downloads, statistics, pages) change nothing and have no action.
* `EmbeddedEditor` is of one student and one assignment and leaves out the dates:
  a refusal is a `Fail`. Its resources are not state: `SyncResources` succeeds or
  fails. A call of JupyterHub whose answer is lost has had its effect or not
  before the request fails; one that takes effect only after the request has
  failed is not modelled. The start notebook is one content, as if it were not
  replaced while students work.
* `AuthTokens` is of one user. An INSERT or DELETE and the commit at the end of its
  request are one action: nothing is awaited in between but the commit itself.
  A page authorises as the API does, but returns a response of its own, which
  drops the renewed cookie; it is no action. A request without a cookie is
  refused and leaves no trace. Passwords, signatures and what Google answers are
  `Fail` or not.
* `Evaluations` leaves out what requests read and write, which is in `Submissions`. A
  downloaded file and the next one are one `fetch`. Which error a failed run is mapped
  to (exit codes 124, 137 and others) changes no state and is left out.
* `Registry` has one date for a date and a time, and dates of a few values. A deletion
  of an assignment is one step (its files are in `AssignmentFiles`). Passwords, names
  and what Google answers about an account are left out.
* `Notebooks` has one point for each test, passing when all solutions before it were
  run. Contents of lines, outputs and cell metadata are left out.
* `Pages` orders rows by creation, without ties; search and discipline are one
  filter. Rows come and go one at a time.

Not modelled: the generated admin panel, which can add, edit and delete rows of
all its tables (`admin/views.py`), but for the one thing that nothing else can do,
`ShareDiscipline`;
configuration, logging, exceptions, the entry point, migrations, the proxy, container
files, tests and the examples. They keep no state of these protocols, or none that
changes while the program runs.

## 8. Plan

Next, most important first: one composition, the pipeline with the deletion of its
assignment (`assignment/router.py:498`, where rows of submissions go for any caller
and the assignment only for its owner); the names of JupyterHub's volumes, for more
than one student; the statistics pages of a tutor while students work.
