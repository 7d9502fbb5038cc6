---- MODULE AssignmentFiles ----
(***************************************************************************)
(* The files of one assignment: the tutor's notebook (original) and the    *)
(* students' copy without solutions (modified), and additional resource    *)
(* files, each a row of assignment_file and a Dropbox file.  A tutor       *)
(* creates the assignment, whose files are stored by background tasks      *)
(* after the commit, replaces the notebook, adds and removes resources and *)
(* deletes the assignment.                                                 *)
(*                                                                         *)
(* The Dropbox calls of these handlers are made inside the event loop and  *)
(* block it; only the database calls are awaited.  So consecutive uploads  *)
(* are one step, and the steps of two requests interleave at the database. *)
(* files and assignment are committed rows; req[r].added and req[r].locked *)
(* are the rows that r inserted, and updated or deleted, in a transaction  *)
(* that has not ended.  A notebook is known by the request that brought it.*)
(* Definitions named ...Mutant are plausible bugs, as in Submissions.       *)
(***************************************************************************)
EXTENDS Integers, Sequences, FiniteSets

CONSTANTS
    Requests,   \* requests to the assignment's endpoints, each made once
    Names,      \* names of resource files
    MaxFiles,   \* bound on the resource files of one request
    None        \* no row, no file

ASSUME AssignmentFilesAssumption ==
    /\ MaxFiles \in Nat \ {0}
    /\ None \notin Requests
    /\ None \notin Names

VARIABLES
    assignment,  \* None, or the request whose notebook its grade is computed of
    files,       \* committed rows of assignment_file
    blob,        \* the Dropbox file of each path: the request that wrote it
    req,         \* the requests: program counter, locals, uncommitted writes
    alone        \* has no request begun while another was running? (history)

vars == <<assignment, files, blob, req, alone>>

Notebooks == {"original", "modified"}

NotebookPath(t) == [type |-> t, index |-> 0, name |-> None]

ZeroIndexMutant(k, n) == [type |-> "resource", index |-> k - 1, name |-> n]

\* {assignment_id}_resource_{index}_{name}: index counts within one upload.
ResourcePath(k, n) == [type |-> "resource", index |-> k, name |-> n]

Paths == [type: Notebooks, index: {0}, name: {None}]
           \cup [type: {"resource"}, index: 1..MaxFiles, name: Names]

AssignmentFile == [by: Requests, path: Paths]

\* No row is the absent row.
ASSUME NoneIsNoRow == None \notin AssignmentFile

Row(r, p) == [by |-> r, path |-> p]

Payloads == UNION {[1..k -> Names] : k \in 0..MaxFiles}

Kinds == {"create", "replace", "attach", "detach", "delete"}

Steps == {"store", "record", "commit", "attach", "commitResources", "replace",
          "locate", "write", "grade", "unlink", "remove", "list", "clear", "erase"}

Request == [pc: Steps \cup {"idle", "closed"}, kind: Kinds \cup {"none"},
            names: Payloads, next: 1..MaxFiles + 1, type: Notebooks,
            row: AssignmentFile \cup {None}, owner: BOOLEAN,
            added: SUBSET AssignmentFile, locked: SUBSET AssignmentFile,
            failed: BOOLEAN]

Idle == [pc |-> "idle", kind |-> "none", names |-> <<>>, next |-> 1,
         type |-> "original", row |-> None, owner |-> TRUE,
         added |-> {}, locked |-> {}, failed |-> FALSE]

----
Goto(r, pc) == req' = [req EXCEPT ![r].pc = pc]

\* The session is closed: what it wrote is committed by the caller of Close, or
\* rolled back.  What the request was for stays, for the properties.
Ended(request, failed) ==
    [Idle EXCEPT !.pc = "closed", !.kind = request.kind, !.owner = request.owner,
                 !.row = IF request.kind = "detach" THEN request.row ELSE None,
                 !.failed = request.failed \/ failed]

Close(r) == req' = [req EXCEPT ![r] = Ended(@, FALSE)]

LeakMutant(r) == req' = [req EXCEPT ![r].pc = "closed", ![r].failed = TRUE]

Abort(r) == req' = [req EXCEPT ![r] = Ended(@, TRUE)]

\* A statement of transaction r sees the committed rows and its own.
FilesSeenBy(r) == files \cup req[r].added

OfType(rows, t) == {f \in rows : f.path.type = t}

\* Transaction q holds what the next statement of r needs: the lock of a file
\* row, or, by a row that q inserted, a KEY SHARE lock on the assignment.
WaitsFor(r, q) ==
    /\ r # q
    /\ \/ req[r].pc \in {"write", "remove"} /\ req[r].row \in req[q].locked
       \/ req[r].pc = "clear" /\ files \cap req[q].locked # {}
       \/ req[r].pc = "erase" /\ req[r].owner /\ req[q].added # {}

Waiting(r) == \E q \in Requests : WaitsFor(r, q)

\* Both notebooks are stored in one turn of the event loop.
BothStored(r) == [p \in Paths |-> IF p.type \in Notebooks THEN r ELSE blob[p]]

\* What is stored when one of the two uploads, or its shared link, fails.
PartlyStored(r) ==
    {blob, [blob EXCEPT ![NotebookPath("original")] = r], BothStored(r)}

----
(***************************************************************************)
(* The endpoints begin.                                                    *)
(***************************************************************************)

Begin(r, request) ==
    /\ req[r].pc = "idle"
    /\ req' = [req EXCEPT ![r] = request]
    /\ alone' = (alone /\ \A q \in Requests : req[q].pc \in {"idle", "closed"})
    /\ UNCHANGED <<files, blob>>

\* POST /assignments/: check the notebook, insert the assignment, commit; its
\* files are left to the background tasks.
AddAssignment(r, names) ==
    /\ \A q \in Requests : req[q].kind # "create"
    /\ Begin(r, [Idle EXCEPT !.pc = "store", !.kind = "create", !.names = names])
    /\ assignment' = r

\* PATCH /assignments/{id}/file with a notebook that passes its checks.  The
\* handler does not look whether the assignment exists.
UpdateFilesOfAssignment(r) ==
    /\ \E q \in Requests : req[q].kind = "create"
    /\ Begin(r, [Idle EXCEPT !.pc = "replace", !.kind = "replace"])
    /\ UNCHANGED assignment

\* POST /assignments/{id}/resources
UploadAssignmentResources(r, names) ==
    /\ assignment # None /\ names # <<>>
    /\ Begin(r, [Idle EXCEPT !.pc = "attach", !.kind = "attach", !.names = names])
    /\ UNCHANGED assignment

\* DELETE /assignments/{id}/resources/{f}
DeleteAssignmentResource(r, f) ==
    /\ f \in OfType(files, "resource")
    /\ Begin(r, [Idle EXCEPT !.pc = "unlink", !.kind = "detach", !.row = f])
    /\ UNCHANGED assignment

\* DELETE /assignments/{id} by its owner or by another user
DeleteAssignment(r, owner) ==
    /\ assignment # None
    /\ Begin(r, [Idle EXCEPT !.pc = "list", !.kind = "delete", !.owner = owner])
    /\ UNCHANGED assignment

----
(***************************************************************************)
(* The background tasks of add_assignment                                  *)
(***************************************************************************)

\* The resources are the next task, also after an error in the first one.
NextTask(r, failed) ==
    req' = [req EXCEPT ![r] =
              IF @.names = <<>> THEN Ended(@, failed)
              ELSE [@ EXCEPT !.pc = "attach", !.added = {},
                             !.failed = req[r].failed \/ failed]]

RecordAnywayMutant(r) ==
    /\ req[r].pc = "store"
    /\ \/ blob' = BothStored(r) /\ Goto(r, "record")
       \/ blob' \in PartlyStored(r) /\ Goto(r, "record")
    /\ UNCHANGED <<assignment, files, alone>>

\* upload_to_dropbox_and_finalize stores the notebooks; errors are swallowed.
StoreNotebooks(r) ==
    /\ req[r].pc = "store"
    /\ \/ blob' = BothStored(r) /\ Goto(r, "record")
       \/ blob' \in PartlyStored(r) /\ NextTask(r, TRUE)
    /\ UNCHANGED <<assignment, files, alone>>

\* Both rows are inserted, without a look at the rows there are; the foreign
\* key fails when the assignment was deleted meanwhile.
RecordNotebooks(r) ==
    /\ req[r].pc = "record"
    /\ \/ /\ assignment # None
          /\ req' = [req EXCEPT ![r].pc = "commit",
                                ![r].added = {Row(r, NotebookPath(t)) : t \in Notebooks}]
       \/ NextTask(r, TRUE)
    /\ UNCHANGED <<assignment, files, blob, alone>>

CommitNotebooks(r) ==
    /\ req[r].pc = "commit"
    /\ \/ files' = FilesSeenBy(r) /\ NextTask(r, FALSE)
       \/ UNCHANGED files /\ NextTask(r, TRUE)
    /\ UNCHANGED <<assignment, blob, alone>>

----
\* upload_resource_files: store file number next and insert its row.
AttachResource(r) ==
    /\ req[r].pc = "attach"
    /\ LET k    == req[r].next
           path == ResourcePath(k, req[r].names[k])
       IN  /\ blob' = [blob EXCEPT ![path] = r]
           /\ \/ /\ assignment # None
                 /\ req' = [req EXCEPT
                      ![r].pc = IF k = Len(req[r].names) THEN "commitResources" ELSE "attach",
                      ![r].next = k + 1,
                      ![r].added = @ \cup {Row(r, path)}]
              \/ Abort(r)
    /\ UNCHANGED <<assignment, files, alone>>

CommitResources(r) ==
    /\ req[r].pc = "commitResources"
    /\ files' = FilesSeenBy(r)
    /\ Close(r)
    /\ UNCHANGED <<assignment, blob, alone>>

----
(***************************************************************************)
(* update_file                                                             *)
(***************************************************************************)

ReplaceInTwoStepsMutant(r) ==
    /\ req[r].pc = "replace"
    /\ blob' = [blob EXCEPT ![NotebookPath(req[r].type)] = r]
    /\ IF req[r].type = "original"
         THEN req' = [req EXCEPT ![r].type = "modified"]
         ELSE req' = [req EXCEPT ![r].type = "original", ![r].pc = "locate"]
    /\ UNCHANGED <<assignment, files, alone>>

\* Find the records, which fails on two of a type, and store both notebooks.
ReplaceNotebooks(r) ==
    /\ req[r].pc = "replace"
    /\ \/ /\ \A t \in Notebooks : Cardinality(OfType(files, t)) <= 1
          /\ \/ blob' = BothStored(r) /\ Goto(r, "locate")
             \/ blob' \in PartlyStored(r) /\ Abort(r)
       \/ UNCHANGED blob /\ Abort(r)
    /\ UNCHANGED <<assignment, files, alone>>

\* update_or_create looks for the row of a notebook ...
LocateFile(r) ==
    /\ req[r].pc = "locate"
    /\ LET found == OfType(FilesSeenBy(r), req[r].type)
       IN  IF Cardinality(found) <= 1
             THEN req' = [req EXCEPT ![r].pc = "write",
                            ![r].row = IF found = {} THEN None
                                       ELSE CHOOSE f \in found : TRUE]
             ELSE Abort(r)
    /\ UNCHANGED <<assignment, files, blob, alone>>

\* The next notebook, and after both the grade.
NextNotebook(request) ==
    IF request.type = "original"
      THEN [request EXCEPT !.type = "modified", !.pc = "locate", !.row = None]
      ELSE [request EXCEPT !.pc = "grade", !.row = None]

\* ... and updates it, behind its row lock, with the path it has, ...
UpdateFile(r) ==
    /\ req[r].pc = "write" /\ req[r].row # None
    /\ ~Waiting(r)
    /\ req' = [req EXCEPT ![r] =
                 [NextNotebook(@) EXCEPT
                    !.locked = req[r].locked \cup ({req[r].row} \cap files)]]
    /\ UNCHANGED <<assignment, files, blob, alone>>

\* ... or inserts one, which needs the assignment.
InsertFile(r) ==
    /\ req[r].pc = "write" /\ req[r].row = None
    /\ IF assignment # None
         THEN req' = [req EXCEPT ![r] =
                [NextNotebook(@) EXCEPT
                   !.added = req[r].added \cup {Row(r, NotebookPath(req[r].type))}]]
         ELSE Abort(r)
    /\ UNCHANGED <<assignment, files, blob, alone>>

KeepGradeMutant(r) ==
    /\ req[r].pc = "grade"
    /\ files' = FilesSeenBy(r)
    /\ Close(r)
    /\ UNCHANGED <<assignment, blob, alone>>

\* UPDATE assignment SET grade, no row when it is gone, and commit.
UpdateGrade(r) ==
    /\ req[r].pc = "grade"
    /\ assignment' = IF assignment = None THEN None ELSE r
    /\ files' = FilesSeenBy(r)
    /\ Close(r)
    /\ UNCHANGED <<blob, alone>>

----
\* delete_assignment_resource: find the row and remove its Dropbox file, which
\* is an error when there is none.
UnlinkResource(r) ==
    /\ req[r].pc = "unlink"
    /\ LET path == req[r].row.path
       IN  \/ /\ req[r].row \in files /\ blob[path] # None
              /\ blob' = [blob EXCEPT ![path] = None]
              /\ Goto(r, "remove") \/ Abort(r)
           \/ UNCHANGED blob /\ Abort(r)
    /\ UNCHANGED <<assignment, files, alone>>

\* DELETE assignment_file and commit
RemoveResource(r) ==
    /\ req[r].pc = "remove"
    /\ ~Waiting(r)
    /\ files' = files \ {req[r].row}
    /\ Close(r)
    /\ UNCHANGED <<assignment, blob, alone>>

----
(***************************************************************************)
(* delete_assignment                                                       *)
(***************************************************************************)

\* Find the assignment and its rows, and remove the Dropbox files of the rows;
\* errors of a removal are ignored.
ListFiles(r) ==
    /\ req[r].pc = "list"
    /\ IF assignment # None
         THEN /\ \E gone \in SUBSET {f.path : f \in files} :
                   blob' = [p \in Paths |-> IF p \in gone THEN None ELSE blob[p]]
              /\ Goto(r, "clear")
         ELSE UNCHANGED blob /\ Abort(r)
    /\ UNCHANGED <<assignment, files, alone>>

\* DELETE assignment_file of the assignment waits for locked rows.
ClearFiles(r) ==
    /\ req[r].pc = "clear"
    /\ ~Waiting(r)
    /\ req' = [req EXCEPT ![r].pc = "erase", ![r].locked = files]
    /\ UNCHANGED <<assignment, files, blob, alone>>

EraseAnywayMutant(r) ==
    /\ req[r].pc = "erase"
    /\ assignment' = IF req[r].owner THEN None ELSE assignment
    /\ files' = files \ req[r].locked
    /\ Close(r)
    /\ UNCHANGED <<blob, alone>>

\* DELETE assignment, of its owner only, and commit: it waits for transactions
\* that reference the row and fails on rows committed since.
EraseAssignment(r) ==
    /\ req[r].pc = "erase"
    /\ ~Waiting(r)
    /\ IF req[r].owner /\ files # req[r].locked
         THEN Abort(r) /\ UNCHANGED <<assignment, files>>
         ELSE /\ assignment' = IF req[r].owner THEN None ELSE assignment
              /\ files' = files \ req[r].locked
              /\ Close(r)
    /\ UNCHANGED <<blob, alone>>

\* Any error before the commit, or the end of the process, which also loses the
\* background tasks.
Fail(r) ==
    /\ req[r].pc \in Steps
    /\ Abort(r)
    /\ UNCHANGED <<assignment, files, blob, alone>>

\* The database aborts a transaction of a cycle of waiting ones.
BreakDeadlock(r) ==
    /\ \E cycle \in SUBSET Requests :
         r \in cycle /\ \A x \in cycle : \E y \in cycle : WaitsFor(x, y)
    /\ Abort(r)
    /\ UNCHANGED <<assignment, files, blob, alone>>

Init ==
    /\ assignment = None
    /\ files = {}
    /\ blob = [p \in Paths |-> None]
    /\ req = [r \in Requests |-> Idle]
    /\ alone = TRUE

Arrive(r) ==
    \/ \E names \in Payloads :
         AddAssignment(r, names) \/ UploadAssignmentResources(r, names)
    \/ UpdateFilesOfAssignment(r)
    \/ \E f \in files : DeleteAssignmentResource(r, f)
    \/ \E owner \in BOOLEAN : DeleteAssignment(r, owner)

Advance(r) ==
    \/ StoreNotebooks(r) \/ RecordNotebooks(r) \/ CommitNotebooks(r)
    \/ AttachResource(r) \/ CommitResources(r)
    \/ ReplaceNotebooks(r) \/ LocateFile(r) \/ UpdateFile(r) \/ InsertFile(r)
    \/ UpdateGrade(r)
    \/ UnlinkResource(r) \/ RemoveResource(r)
    \/ ListFiles(r) \/ ClearFiles(r) \/ EraseAssignment(r)

\* The requests of a behaviour are over.
Finished == (\A r \in Requests : req[r].pc = "closed") /\ UNCHANGED vars

Next ==
    \/ \E r \in Requests : Arrive(r) \/ Advance(r) \/ Fail(r) \/ BreakDeadlock(r)
    \/ Finished

Spec == Init /\ [][Next]_vars

\* The event loop goes on with a started request, its calls have timeouts, and
\* the database looks for deadlocks.
FairSpec ==
    /\ Spec
    /\ \A r \in Requests : WF_vars(Advance(r)) /\ WF_vars(BreakDeadlock(r))

----
\* Every variable holds rows, paths and requests of its declared shape.
TypeOK ==
    /\ assignment \in Requests \cup {None}
    /\ files \subseteq AssignmentFile
    /\ blob \in [Paths -> Requests \cup {None}]
    /\ req \in [Requests -> Request]
    /\ alone \in BOOLEAN

Started(kind) == {r \in Requests : req[r].kind = kind}

\* However requests overlap and fail, a committed row has its Dropbox file until
\* a deletion of the assignment, or of a resource with the same path, begins
\* (assignment_manager_service.py:81-146: files are stored before their rows).
RowsBacked ==
    \A f \in files :
        \/ blob[f.path] # None
        \/ Started("delete") # {}
        \/ \E r \in Started("detach") : req[r].row.path = f.path

\* The stored original and modified notebook are of one version unless an
\* upload failed: their two uploads do not yield to another request
\* (assignment_manager_service.py:113-123, 189-198).
NotebooksMatch ==
    LET stored(t) == blob[NotebookPath(t)]
    IN  \/ stored("original") = stored("modified")
        \/ None \in {stored(t) : t \in Notebooks}
        \/ \E r \in Requests : req[r].failed

\* Once a deletion by the owner has committed, no request that was under way
\* brings back the assignment or leaves a row of it (assignment/router.py:483-498).
DeletionIsFinal ==
    (\E r \in Started("delete") :
        req[r].owner /\ req[r].pc = "closed" /\ ~req[r].failed)
      => assignment = None /\ files = {}

\* Requests that were made one after another and did not fail leave an
\* assignment with one original and one modified row, whose files are the
\* notebook its grade was computed of (assignment_manager_service.py:107-231).
SequentialUpdatesAgree ==
    \/ ~alone \/ assignment = None \/ Started("delete") # {}
    \/ \E r \in Requests : req[r].failed \/ req[r].pc \in Steps
    \/ \A t \in Notebooks :
         /\ Cardinality(OfType(files, t)) = 1
         /\ blob[NotebookPath(t)] = assignment

\* update_or_create updates the record of a notebook or creates it
\* (dao_service.py:86-87), so there is at most one of each.
OneRowEach == \A t \in Notebooks : Cardinality(OfType(files, t)) <= 1

\* Every request that was started ends, though an update that inserted a row and
\* waits for a deletion, which waits for it, can only be aborted.
RequestsEnd == \A r \in Requests : req[r].pc \in Steps ~> req[r].pc = "closed"

\* Adding and removing resources one after another leaves every remaining
\* resource with its file (assignment/router.py:220, 255).
ResourcesKept ==
    \/ ~alone \/ Started("delete") # {}
    \/ \E r \in Requests : req[r].failed \/ req[r].pc \in Steps
    \/ \A f \in OfType(files, "resource") : blob[f.path] # None

====
