---- MODULE EmbeddedEditor ----
(***************************************************************************)
(* The embedded editor of one student and one assignment.  The page opens  *)
(* it (create_session): the draft in Dropbox is found or seeded with the   *)
(* start notebook, the student's JupyterHub user and server are brought    *)
(* up, and the draft is put over the working copy on that server.  The     *)
(* student edits the working copy; saving reads it and stores it as the    *)
(* draft, and an embedded evaluation begins with the same save.            *)
(*                                                                         *)
(* JupyterHub is called over the network, so requests interleave at every  *)
(* call; the Dropbox calls block the event loop.  A content of the         *)
(* notebook is the number of the edit that made it, 0 the start notebook.  *)
(* Definitions named ...Mutant are plausible bugs, as in Submissions.      *)
(***************************************************************************)
EXTENDS Integers

CONSTANTS
    Requests,   \* requests of the student's pages, each made once
    MaxEdits,   \* bound on the edits of a behaviour
    MaxPolls,   \* how often the server's state is asked for (40 in the code)
    None        \* no file

ASSUME EmbeddedEditorAssumption ==
    /\ MaxEdits \in Nat
    /\ MaxPolls \in Nat \ {0}
    /\ None \notin Nat

VARIABLES
    draft,    \* the student's draft in Dropbox
    copy,     \* the working copy, on a volume that outlives the server
    known,    \* has JupyterHub a user for the student?
    server,   \* the student's server for the assignment
    edits,    \* edits made so far
    req,      \* the requests: program counter and locals
    alone     \* has the student done one thing at a time? (history)

vars == <<draft, copy, known, server, edits, req, alone>>

Contents == 0..MaxEdits

Steps == {"find", "seed", "user", "create", "start", "poll", "token", "put",
          "sync", "read", "store"}

Request == [pc: Steps \cup {"idle", "closed"}, kind: {"none", "open", "save"},
            content: Contents \cup {None}, polls: 0..MaxPolls, failed: BOOLEAN]

Idle == [pc |-> "idle", kind |-> "none", content |-> None, polls |-> 0,
         failed |-> FALSE]

Running(r) == req[r].pc \in Steps

\* An opening that succeeded: its page has a token and shows the editor.
Opened(r) == req[r].kind = "open" /\ req[r].pc = "closed" /\ ~req[r].failed

Goto(r, pc) == req' = [req EXCEPT ![r].pc = pc]

Close(r, failed) == req' = [req EXCEPT ![r].pc = "closed", ![r].failed = failed]

----
Begin(r, kind, pc) ==
    /\ req[r].pc = "idle"
    /\ req' = [req EXCEPT ![r].pc = pc, ![r].kind = kind]
    /\ alone' = (alone /\ \A q \in Requests : ~Running(q))
    /\ UNCHANGED <<draft, copy, known, server, edits>>

\* POST /assignments/{id}/notebook/session
CreateSession(r) == Begin(r, "open", "find")

\* POST /assignments/{id}/notebook/save, and the beginning of /evaluate, with
\* the token of a page that opened the editor
SaveDraft(r) == (\E q \in Requests : Opened(q)) /\ Begin(r, "save", "read")

----
(***************************************************************************)
(* create_session                                                          *)
(***************************************************************************)

SeedAnywayMutant(r) ==
    /\ req[r].pc = "find"
    /\ Goto(r, "seed")
    /\ UNCHANGED <<draft, copy, known, server, edits, alone>>

\* The draft is looked for and downloaded at once ...
FindDraft(r) ==
    /\ req[r].pc = "find"
    /\ IF draft # None
         THEN req' = [req EXCEPT ![r].pc = "user", ![r].content = draft]
         ELSE Goto(r, "seed")
    /\ UNCHANGED <<draft, copy, known, server, edits, alone>>

NoDraftMutant(r) ==
    /\ req[r].pc = "seed"
    /\ req' = [req EXCEPT ![r].pc = "user", ![r].content = 0]
    /\ UNCHANGED <<draft, copy, known, server, edits, alone>>

\* ... but the start notebook, whose row is looked up in between, is stored
\* over a draft that has been stored meanwhile.
SeedDraft(r) ==
    /\ req[r].pc = "seed"
    /\ draft' = 0
    /\ req' = [req EXCEPT ![r].pc = "user", ![r].content = 0]
    /\ UNCHANGED <<copy, known, server, edits, alone>>

\* ensure_user: GET the user ...
FindUser(r) ==
    /\ req[r].pc = "user"
    /\ Goto(r, IF known THEN "start" ELSE "create")
    /\ UNCHANGED <<draft, copy, known, server, edits, alone>>

\* ... and POST one, which must answer 201: it fails when there is one by now.
CreateUser(r) ==
    /\ req[r].pc = "create"
    /\ known' = TRUE
    /\ IF known THEN Close(r, TRUE) ELSE Goto(r, "start")
    /\ UNCHANGED <<draft, copy, server, edits, alone>>

\* ensure_server_ready: start the server, if it is not up or starting, ...
StartServer(r) ==
    /\ req[r].pc = "start"
    /\ server' = IF server = "stopped" THEN "starting" ELSE server
    /\ Goto(r, "poll")
    /\ UNCHANGED <<draft, copy, known, edits, alone>>

EndlessPollMutant(r) ==
    /\ req[r].pc = "poll"
    /\ Goto(r, IF server = "ready" THEN "token" ELSE "poll")
    /\ UNCHANGED <<draft, copy, known, server, edits, alone>>

LatePollMutant(r) ==
    /\ req[r].pc = "poll"
    /\ IF server = "ready" THEN Goto(r, "token")
       ELSE IF req[r].polls > MaxPolls THEN Close(r, TRUE)
       ELSE req' = [req EXCEPT ![r].polls = @ + 1]
    /\ UNCHANGED <<draft, copy, known, server, edits, alone>>

\* ... and ask for its state MaxPolls times.
Poll(r) ==
    /\ req[r].pc = "poll"
    /\ IF req[r].polls = MaxPolls THEN Close(r, TRUE)
       ELSE IF server = "ready" THEN Goto(r, "token")
       ELSE req' = [req EXCEPT ![r].polls = @ + 1]
    /\ UNCHANGED <<draft, copy, known, server, edits, alone>>

CreateToken(r) ==
    /\ req[r].pc = "token"
    /\ Goto(r, "put")
    /\ UNCHANGED <<draft, copy, known, server, edits, alone>>

KeepCopyMutant(r) ==
    /\ req[r].pc = "put"
    /\ IF server = "ready"
         THEN copy' = (IF copy = None THEN req[r].content ELSE copy) /\ Goto(r, "sync")
         ELSE Close(r, TRUE) /\ UNCHANGED copy
    /\ UNCHANGED <<draft, known, server, edits, alone>>

\* put_notebook writes what was downloaded at the beginning, over whatever the
\* working copy holds; a server that is gone answers with an error.
PutNotebook(r) ==
    /\ req[r].pc = "put"
    /\ IF server = "ready"
         THEN copy' = req[r].content /\ Goto(r, "sync")
         ELSE Close(r, TRUE) /\ UNCHANGED copy
    /\ UNCHANGED <<draft, known, server, edits, alone>>

\* _sync_resource_files puts the resources beside it, if there are any (Fail
\* when one cannot be put); the page gets the URL of the editor.
SyncResources(r) ==
    /\ req[r].pc = "sync"
    /\ Close(r, FALSE)
    /\ UNCHANGED <<draft, copy, known, server, edits, alone>>

----
(***************************************************************************)
(* save_draft                                                              *)
(***************************************************************************)

GetNotebook(r) ==
    /\ req[r].pc = "read"
    /\ IF server = "ready" /\ copy # None
         THEN req' = [req EXCEPT ![r].pc = "store", ![r].content = copy]
         ELSE Close(r, TRUE)
    /\ UNCHANGED <<draft, copy, known, server, edits, alone>>

\* The draft may be stored and the request fail all the same: Dropbox's answer
\* is lost, or the rest of an evaluation fails.
StoreDraft(r) ==
    /\ req[r].pc = "store"
    /\ draft' = req[r].content
    /\ \E failed \in BOOLEAN : Close(r, failed)
    /\ UNCHANGED <<copy, known, server, edits, alone>>

\* Any error: the dates, a missing row, Dropbox, JupyterHub, a timeout of the
\* HTTP client, a crash.
Fail(r) ==
    /\ Running(r)
    /\ Close(r, TRUE)
    /\ UNCHANGED <<draft, copy, known, server, edits, alone>>

----
(***************************************************************************)
(* JupyterHub and the student                                              *)
(***************************************************************************)

ServerStarts ==
    /\ server = "starting"
    /\ server' = "ready"
    /\ UNCHANGED <<draft, copy, known, edits, req, alone>>

\* The server fails to start, or is stopped; its container is removed.
ServerStops ==
    /\ server # "stopped"
    /\ server' = "stopped"
    /\ UNCHANGED <<draft, copy, known, edits, req, alone>>

\* The student edits, and JupyterLab writes the working copy.
Edit ==
    /\ \E q \in Requests : Opened(q)
    /\ server = "ready" /\ edits < MaxEdits
    /\ edits' = edits + 1
    /\ copy' = edits + 1
    /\ alone' = (alone /\ \A q \in Requests : ~Running(q))
    /\ UNCHANGED <<draft, known, server, req>>

Init ==
    /\ draft = None
    /\ copy = None
    /\ known = FALSE
    /\ server = "stopped"
    /\ edits = 0
    /\ req = [r \in Requests |-> Idle]
    /\ alone = TRUE

Advance(r) ==
    \/ FindDraft(r) \/ SeedDraft(r) \/ FindUser(r) \/ CreateUser(r)
    \/ StartServer(r) \/ Poll(r) \/ CreateToken(r) \/ PutNotebook(r)
    \/ SyncResources(r) \/ GetNotebook(r) \/ StoreDraft(r)

\* The requests of a behaviour are over.
Finished == (\A r \in Requests : req[r].pc = "closed") /\ UNCHANGED vars

Next ==
    \/ \E r \in Requests : CreateSession(r) \/ SaveDraft(r) \/ Advance(r) \/ Fail(r)
    \/ ServerStarts \/ ServerStops \/ Edit
    \/ Finished

Spec == Init /\ [][Next]_vars

\* The event loop goes on with a started request, and every call of the HTTP
\* client has a timeout; nothing is assumed of JupyterHub.
FairSpec == Spec /\ \A r \in Requests : WF_vars(Advance(r))

----
\* Every variable has its declared shape, and the polls their bound.
TypeOK ==
    /\ draft \in Contents \cup {None}
    /\ copy \in Contents \cup {None}
    /\ known \in BOOLEAN
    /\ server \in {"stopped", "starting", "ready"}
    /\ edits \in 0..MaxEdits
    /\ req \in [Requests -> Request]
    /\ alone \in BOOLEAN

\* However openings overlap and fail, behind an editor that opened there is a
\* draft to come back to, a working copy and a JupyterHub user
\* (embedded_notebook_service.py:393-451).
EditorHasNotebook ==
    (\E r \in Requests : Opened(r)) => draft # None /\ copy # None /\ known

\* For a student who does one thing at a time, each opening and each save ends
\* with the same notebook in the editor and in the draft, also after requests
\* that failed and a server that was stopped (embedded_notebook_service.py:414-481).
EditorShowsDraft ==
    [][\A r \in Requests :
         alone' /\ Running(r) /\ req'[r].pc = "closed" /\ ~req'[r].failed
           => draft' = copy']_vars

\* For that student no older content replaces a draft: the openings seed it only
\* once, and the saves store later edits (embedded_notebook_service.py:392-411).
DraftNeverGoesBack ==
    [][alone' /\ draft # None => draft' # None /\ draft' >= draft]_vars

\* Every opening and every save ends, also when the server never gets ready.
RequestsEnd == \A r \in Requests : Running(r) ~> req[r].pc = "closed"

====
