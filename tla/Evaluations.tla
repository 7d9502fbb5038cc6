---- MODULE Evaluations ----
(***************************************************************************)
(* What requests hold while they run: connections of the pool, threads of  *)
(* the default executor, and a container with its workspace for each run   *)
(* of the sandbox.  Every request that knows its user keeps the connection *)
(* of its session from its first statement to its end, and asks the pool   *)
(* for a second one to look the user up (dependencies.py:76; logins do so  *)
(* to update the token, user/service.py:66).  Uploads and evaluations keep *)
(* theirs through the downloads and the sandbox run, which are jobs of the *)
(* thread pool.                                                            *)
(*                                                                         *)
(* A request has at most one run at a time, and a run that leaves anything *)
(* behind is the last one of its request: containers and workspaces are    *)
(* named by their requests.  Consecutive downloads are one "fetch".  What  *)
(* the requests read and write is in Submissions.                          *)
(* Definitions named ...Mutant are plausible bugs, as in Submissions.      *)
(***************************************************************************)
EXTENDS Integers, Sequences, FiniteSets

CONSTANTS
    Requests,      \* requests, each made once
    Connections,   \* of the pool: pool_size + max_overflow
    Threads,       \* threads of the default executor
    MaxCrashes     \* bound on the crashes of the process

ASSUME EvaluationsAssumption ==
    /\ IsFiniteSet(Requests)
    /\ IsFiniteSet(Connections)
    /\ Threads \in Nat \ {0}
    /\ MaxCrashes \in Nat

VARIABLES
    req,         \* the requests: program counter, connections, jobs left
    pool,        \* connections checked in
    queue,       \* requests whose job waits for a thread, first come first
    containers,  \* runs whose container is running
    workspaces,  \* runs whose temporary directory exists
    orphans,     \* runs whose docker client went before the container (history)
    crashes      \* how often the process has crashed

vars == <<req, pool, queue, containers, workspaces, orphans, crashes>>
sandbox == <<containers, workspaces, orphans>>

Kinds == {"api", "upload", "evaluate", "embedded"}

Jobs == {"fetch", "execute", "store", "grade"}

Runs == {"execute", "grade"}

\* The jobs of a request, in their order.
Plan(kind) ==
    CASE kind = "api" -> <<>>
      [] kind = "upload" -> <<"fetch", "execute", "store">>
      [] kind = "evaluate" -> <<"fetch", "grade">>
      [] kind = "embedded" -> <<"fetch", "execute", "store", "fetch", "grade">>

Steps == {"session", "user", "reading", "handler", "queued", "working", "exited"}

Request == [pc: Steps \cup {"idle", "closed"}, conns: SUBSET Connections,
            jobs: Seq(Jobs), done: BOOLEAN]

Idle == [pc |-> "idle", conns |-> {}, jobs |-> <<>>, done |-> FALSE]

Running(r) == req[r].pc \in Steps

UnderWay == {r \in Requests : Running(r)}

Working == {r \in Requests : req[r].pc \in {"working", "exited"}}

\* A thread is in _run_in_container for r, or about to leave its workspace.
InRun(r) == r \in Working /\ Head(req[r].jobs) \in Runs

Goto(r, pc) == req' = [req EXCEPT ![r].pc = pc]

KeepMutant(r) ==
    /\ req' = [req EXCEPT ![r].pc = "closed"]
    /\ UNCHANGED pool

\* The answer or the error: the sessions end and give their connections back.
Close(r) ==
    /\ req' = [req EXCEPT ![r] = [Idle EXCEPT !.pc = "closed"]]
    /\ pool' = pool \cup req[r].conns

----
(***************************************************************************)
(* The dependencies of an endpoint.                                        *)
(***************************************************************************)

Arrive(r, kind) ==
    /\ req[r].pc = "idle"
    /\ req' = [req EXCEPT ![r] = [Idle EXCEPT !.pc = "session", !.jobs = Plan(kind)]]
    /\ UNCHANGED <<pool, queue, sandbox, crashes>>

\* The first statement of a session takes a connection out of the pool.
\* Which one does not matter.
Take(r, pc) ==
    /\ pool # {}
    /\ LET c == CHOOSE c \in pool : TRUE
       IN  /\ req' = [req EXCEPT ![r].pc = pc, ![r].conns = @ \cup {c}]
           /\ pool' = pool \ {c}

\* get_refresh_token looks for the token in the session of the request.
TakeSession(r) ==
    /\ req[r].pc = "session"
    /\ Take(r, "user")
    /\ UNCHANGED <<queue, sandbox, crashes>>

\* The token is absent or expired.
RefuseToken(r) ==
    /\ req[r].pc = "user"
    /\ Close(r)
    /\ UNCHANGED <<queue, sandbox, crashes>>

\* get_current_user opens a session of its own.
TakeUser(r) ==
    /\ req[r].pc = "user"
    /\ Take(r, "reading")
    /\ UNCHANGED <<queue, sandbox, crashes>>

KeepUserMutant(r) ==
    /\ req[r].pc = "reading"
    /\ Goto(r, "handler")
    /\ UNCHANGED <<pool, queue, sandbox, crashes>>

\* The user is found: the second session ends ...
ReadUser(r) ==
    /\ req[r].pc = "reading"
    /\ LET c == CHOOSE c \in req[r].conns : TRUE
       IN  /\ req' = [req EXCEPT ![r].pc = "handler", ![r].conns = @ \ {c}]
           /\ pool' = pool \cup {c}
    /\ UNCHANGED <<queue, sandbox, crashes>>

\* ... or is not, or has the wrong role: both end.
RefuseUser(r) ==
    /\ req[r].pc = "reading"
    /\ Close(r)
    /\ UNCHANGED <<queue, sandbox, crashes>>

\* No connection is given back for pool_timeout seconds.
PoolTimeout(r) ==
    /\ req[r].pc \in {"session", "user"} /\ pool = {}
    /\ Close(r)
    /\ UNCHANGED <<queue, sandbox, crashes>>

----
(***************************************************************************)
(* The handlers, and their jobs in the thread pool.                        *)
(***************************************************************************)

\* asyncio.to_thread with the next job.
Enqueue(r) == Goto(r, "queued") /\ queue' = Append(queue, r)

\* The handler goes on to its first job, ...
Submit(r) ==
    /\ req[r].pc = "handler" /\ req[r].jobs # <<>>
    /\ Enqueue(r)
    /\ UNCHANGED <<pool, sandbox, crashes>>

\* ... or it has none, or refuses or fails before.
Finish(r) ==
    /\ req[r].pc = "handler"
    /\ Close(r)
    /\ UNCHANGED <<queue, sandbox, crashes>>

\* A thread takes the first job that waits.
Dequeue(r) ==
    /\ queue # <<>> /\ r = Head(queue)
    /\ Cardinality(Working) < Threads
    /\ queue' = Tail(queue)

StartTransfer(r) ==
    /\ Dequeue(r) /\ Head(req[r].jobs) \notin Runs
    /\ Goto(r, "working")
    /\ UNCHANGED <<pool, sandbox, crashes>>

\* A Dropbox call returns, or raises.
EndTransfer(r) ==
    /\ req[r].pc = "working" /\ ~InRun(r)
    /\ \E done \in BOOLEAN :
         req' = [req EXCEPT ![r].pc = "exited", ![r].done = done]
    /\ UNCHANGED <<pool, queue, sandbox, crashes>>

\* The workspace is made and filled and the container started.
StartRun(r) ==
    /\ Dequeue(r) /\ Head(req[r].jobs) \in Runs
    /\ Goto(r, "working")
    /\ workspaces' = workspaces \cup {r}
    /\ containers' = containers \cup {r}
    /\ UNCHANGED <<pool, orphans, crashes>>

\* The scan of the cells rejects the notebook before there is a workspace.
RejectNotebook(r) ==
    /\ Dequeue(r) /\ Head(req[r].jobs) \in Runs
    /\ req' = [req EXCEPT ![r].pc = "exited", ![r].done = FALSE]
    /\ UNCHANGED <<pool, sandbox, crashes>>

\* The container exits, by itself or killed for its memory, and docker removes
\* it; the docker client ends with it, if there still is one.
ContainerExits(r) ==
    /\ r \in containers
    /\ containers' = containers \ {r}
    /\ IF req[r].pc = "working"
         THEN \E done \in BOOLEAN :
                req' = [req EXCEPT ![r].pc = "exited", ![r].done = done]
         ELSE UNCHANGED req
    /\ UNCHANGED <<pool, queue, workspaces, orphans, crashes>>

NoTimeoutMutant(r) == FALSE /\ UNCHANGED vars

\* subprocess.run kills the docker client when execution_timeout_seconds and
\* the grace have passed; the container goes on.
RunTimesOut(r) ==
    /\ req[r].pc = "working" /\ InRun(r)
    /\ req' = [req EXCEPT ![r].pc = "exited", ![r].done = FALSE]
    /\ orphans' = orphans \cup {r}
    /\ UNCHANGED <<pool, queue, containers, workspaces, crashes>>

LeaveWhenFailedMutant(r) ==
    IF req[r].done THEN workspaces' = workspaces \ {r} ELSE UNCHANGED workspaces

\* The end of _workspace_context; removing the directory fails when an orphan
\* makes a file in it meanwhile.
LeaveWorkspace(r) ==
    \/ workspaces' = workspaces \ {r}
    \/ r \in containers /\ UNCHANGED workspaces

\* A job failed: the error of the run, or of the workspace's removal.
JobFails(r) ==
    /\ req[r].pc = "exited" /\ ~req[r].done
    /\ LeaveWorkspace(r)
    /\ Close(r)
    /\ UNCHANGED <<queue, containers, orphans, crashes>>

OneTooManyMutant(r) ==
    /\ req[r].pc = "exited" /\ req[r].done
    /\ LeaveWorkspace(r)
    /\ req' = [req EXCEPT ![r].pc = "queued", ![r].jobs = Tail(@), ![r].done = FALSE]
    /\ queue' = Append(queue, r)
    /\ UNCHANGED <<pool, containers, orphans, crashes>>

\* A job is done: the handler submits the next one, ...
NextJob(r) ==
    /\ req[r].pc = "exited" /\ req[r].done /\ Len(req[r].jobs) > 1
    /\ LeaveWorkspace(r)
    /\ req' = [req EXCEPT ![r].pc = "queued", ![r].jobs = Tail(@), ![r].done = FALSE]
    /\ queue' = Append(queue, r)
    /\ UNCHANGED <<pool, containers, orphans, crashes>>

\* ... or records the result, or refuses or fails in between.
Record(r) ==
    /\ req[r].pc = "exited" /\ req[r].done
    /\ LeaveWorkspace(r)
    /\ Close(r)
    /\ UNCHANGED <<queue, containers, orphans, crashes>>

\* The process dies and is started again: sessions, threads and docker clients
\* are gone, containers and workspaces are not.
Crash ==
    /\ crashes < MaxCrashes
    /\ crashes' = crashes + 1
    /\ req' = [r \in Requests |->
                 IF Running(r) THEN [Idle EXCEPT !.pc = "closed"] ELSE req[r]]
    /\ pool' = Connections
    /\ queue' = <<>>
    /\ orphans' = orphans \cup {r \in Requests : InRun(r)}
    /\ UNCHANGED <<containers, workspaces>>

Init ==
    /\ req = [r \in Requests |-> Idle]
    /\ pool = Connections
    /\ queue = <<>>
    /\ containers = {} /\ workspaces = {} /\ orphans = {}
    /\ crashes = 0

\* The steps of r that its coroutine and its thread take.
Advance(r) ==
    \/ TakeSession(r) \/ TakeUser(r) \/ PoolTimeout(r)
    \/ RefuseToken(r) \/ ReadUser(r) \/ RefuseUser(r)
    \/ Submit(r) \/ Finish(r)
    \/ StartTransfer(r) \/ EndTransfer(r)
    \/ StartRun(r) \/ RejectNotebook(r) \/ RunTimesOut(r)
    \/ JobFails(r) \/ NextJob(r) \/ Record(r)

Next ==
    \/ \E r \in Requests, kind \in Kinds : Arrive(r, kind)
    \/ \E r \in Requests : Advance(r) \/ ContainerExits(r)
    \/ Crash

Spec == Init /\ [][Next]_vars

\* The coroutine and the thread of r go on whenever they can: a statement, a
\* Dropbox call and a docker client end or time out.  A container need not end.
FairSpec == Spec /\ \A r \in Requests : WF_vars(Advance(r))

----
\* Every variable has its declared shape, and only requests with a job to do are
\* in the queue or in a thread.
TypeOK ==
    /\ req \in [Requests -> Request]
    /\ \A r \in Requests :
         req[r].pc \in {"queued", "working", "exited"} => req[r].jobs # <<>>
    /\ pool \subseteq Connections
    /\ queue \in Seq(Requests)
    /\ containers \subseteq Requests
    /\ workspaces \subseteq Requests
    /\ orphans \subseteq Requests
    /\ crashes \in 0..MaxCrashes

\* However requests overlap, are refused, time out or crash, every connection is
\* in the pool or held by one running request: none is lost and none is shared
\* (db.py:28-31, dependencies.py:76-81).
NoConnectionLost ==
    /\ pool \cup UNION {req[r].conns : r \in Requests} = Connections
    /\ \A r \in Requests :
         /\ req[r].conns \cap pool = {}
         /\ req[r].conns # {} => Running(r)
         /\ \A q \in Requests \ {r} : req[r].conns \cap req[q].conns = {}

\* Requests that each hold a connection and ask for a second one block each
\* other only if at least as many are under way as the pool has connections:
\* with fewer, a connection is free or about to be given back (db.py:12-17,
\* dependencies.py:76).
NoMutualWait ==
    Cardinality(UnderWay) < Cardinality(Connections) =>
      pool # {} \/ \E r \in Requests : req[r].pc = "reading"

\* A container or a workspace that no thread waits for was left by a run that
\* timed out or by a crash: all other runs clean up, however they end
\* (sandbox_runner.py:63-69, 156-186).
OnlyOrphansRemain ==
    \A r \in containers \cup workspaces : InRun(r) \/ r \in orphans

\* Every request ends, though requests block each other in the pool and in the
\* queue of the threads, and containers may run for ever.
RequestsEnd == \A r \in Requests : Running(r) ~> req[r].pc = "closed"

====
