---- MODULE Evaluations_proofs ----
(***************************************************************************)
(* Theorems about Evaluations.  The inductive invariant adds to TypeOK     *)
(* that the queue holds each queued request once, so that a thread takes a *)
(* request that waits, and to the properties how many connections a        *)
(* request has at each of its steps.                                       *)
(***************************************************************************)
EXTENDS Evaluations, FiniteSetTheorems, TLAPS

\* The queue holds requests that wait for a thread, each once.
QueueWaits ==
    /\ \A i \in 1..Len(queue) : req[queue[i]].pc = "queued"
    /\ \A i, j \in 1..Len(queue) : queue[i] = queue[j] => i = j

TypeInv == TypeOK /\ QueueWaits

\* How many connections a request has: none before its first statement and after
\* its end, two while it reads its user, at most one otherwise.
Held(x) ==
    /\ x.pc \in {"idle", "session", "closed"} => x.conns = {}
    /\ x.pc = "reading" => \E c, d \in x.conns : x.conns = {c, d}
    /\ x.pc # "reading" => \A c, d \in x.conns : c = d

Shape == \A r \in Requests : Held(req[r])

LEMMA InitTypeInv == Init => TypeInv
BY EvaluationsAssumption
   DEF Init, TypeInv, TypeOK, QueueWaits, Request, Idle, Steps

\* The head of the queue waits, and the rest of the queue does not hold it.
LEMMA DequeueHead ==
    ASSUME TypeInv, NEW r \in Requests, Dequeue(r)
    PROVE  /\ req[r].pc = "queued"
           /\ queue' \in Seq(Requests)
           /\ \A i \in 1..Len(queue') :
                i + 1 \in 1..Len(queue) /\ queue'[i] = queue[i + 1] /\ queue'[i] # r
           /\ \A i, j \in 1..Len(queue') : queue'[i] = queue'[j] => i = j
<1>1. queue \in Seq(Requests) /\ queue # <<>> /\ r = queue[1] /\ queue' = Tail(queue)
  BY DEF Dequeue, TypeInv, TypeOK
<1>2. Len(queue) \in Nat /\ Len(queue) > 0
  BY <1>1
<1>3. req[r].pc = "queued"
  BY <1>1, <1>2 DEF TypeInv, QueueWaits
<1>4. Tail(queue) \in Seq(Requests) /\ Len(Tail(queue)) = Len(queue) - 1
  BY <1>1
<1>5. ASSUME NEW i \in 1..Len(queue')
      PROVE  i + 1 \in 1..Len(queue) /\ queue'[i] = queue[i + 1]
  BY <1>1, <1>2, <1>4
<1>6. ASSUME NEW i \in 1..Len(queue') PROVE queue'[i] # r
  <2>1. i + 1 \in 1..Len(queue) /\ queue'[i] = queue[i + 1] /\ i + 1 # 1
    BY <1>5, <1>2, <1>1, <1>4
  <2>2. 1 \in 1..Len(queue)
    BY <1>2
  <2> QED
    BY <2>1, <2>2, <1>1 DEF TypeInv, QueueWaits
<1>7. ASSUME NEW i \in 1..Len(queue'), NEW j \in 1..Len(queue'), queue'[i] = queue'[j]
      PROVE  i = j
  <2>1. i + 1 = j + 1
    BY <1>5, <1>7 DEF TypeInv, QueueWaits
  <2> QED
    BY <2>1, <1>1, <1>4, <1>2
<1> QED
  BY <1>1, <1>3, <1>4, <1>5, <1>6, <1>7

\* A step of r that leaves the queue alone and does not take r out of "queued".
LEMMA QueueKept ==
    ASSUME TypeInv, NEW r \in Requests, UNCHANGED queue,
           req[r].pc # "queued",
           \A q \in Requests \ {r} : req'[q] = req[q]
    PROVE  QueueWaits'
<1>1. \A i \in 1..Len(queue) : queue[i] \in Requests
  BY DEF TypeInv, TypeOK
<1> QED
  BY <1>1 DEF TypeInv, QueueWaits

\* A step that takes r out of the queue.
LEMMA QueueShortened ==
    ASSUME TypeInv, NEW r \in Requests, Dequeue(r),
           \A q \in Requests \ {r} : req'[q] = req[q]
    PROVE  QueueWaits'
<1>1. \A i \in 1..Len(queue') : queue'[i] \in Requests \ {r} /\ req[queue'[i]].pc = "queued"
  BY DequeueHead DEF TypeInv, QueueWaits
<1> QED
  BY <1>1, DequeueHead DEF QueueWaits

\* A step that puts r into the queue.
LEMMA QueueLengthened ==
    ASSUME TypeInv, NEW r \in Requests, queue' = Append(queue, r),
           req[r].pc # "queued", req'[r].pc = "queued",
           \A q \in Requests \ {r} : req'[q] = req[q]
    PROVE  QueueWaits' /\ queue' \in Seq(Requests)
<1>1. queue \in Seq(Requests) /\ Len(queue) \in Nat
  BY DEF TypeInv, TypeOK
<1>2. /\ queue' \in Seq(Requests)
      /\ Len(queue') = Len(queue) + 1
      /\ queue'[Len(queue) + 1] = r
      /\ \A i \in 1..Len(queue) : queue'[i] = queue[i]
  BY <1>1
<1>3. \A i \in 1..Len(queue) : queue[i] \in Requests \ {r}
  BY <1>1 DEF TypeInv, QueueWaits
<1>4. \A i \in 1..Len(queue') : i \in 1..Len(queue) \/ i = Len(queue) + 1
  BY <1>1, <1>2
<1>5. \A i \in 1..Len(queue') : req'[queue'[i]].pc = "queued"
  BY <1>2, <1>3, <1>4 DEF TypeInv, QueueWaits
<1>6. \A i, j \in 1..Len(queue') : queue'[i] = queue'[j] => i = j
  BY <1>2, <1>3, <1>4 DEF TypeInv, QueueWaits
<1> QED
  BY <1>2, <1>5, <1>6 DEF QueueWaits

\* How Close, Goto and Take change the request's record.
LEMMA CloseEffect ==
    ASSUME TypeOK, NEW r \in Requests, Close(r)
    PROVE  /\ req' \in [Requests -> Request]
           /\ req'[r] = [Idle EXCEPT !.pc = "closed"]
           /\ \A q \in Requests \ {r} : req'[q] = req[q]
           /\ pool' \subseteq Connections
<1>1. req[r].conns \subseteq Connections /\ pool \subseteq Connections
  BY DEF TypeOK, Request
<1>2. [Idle EXCEPT !.pc = "closed"] \in Request
  <2>1. <<>> \in Seq(Jobs)
    OBVIOUS
  <2>2. Idle \in Request
    BY <2>1 DEF Idle, Request
  <2> QED
    BY <2>2 DEF Request
<1> QED
  BY <1>1, <1>2 DEF TypeOK, Close

LEMMA GotoEffect ==
    ASSUME TypeOK, NEW r \in Requests, NEW pc \in Steps, Goto(r, pc)
    PROVE  /\ req' \in [Requests -> Request]
           /\ req'[r] = [req[r] EXCEPT !.pc = pc]
           /\ \A q \in Requests \ {r} : req'[q] = req[q]
BY DEF TypeOK, Goto, Request, Steps

LEMMA TakeEffect ==
    ASSUME TypeOK, NEW r \in Requests, NEW pc \in Steps, Take(r, pc)
    PROVE  \E c \in pool :
             /\ req' \in [Requests -> Request]
             /\ req'[r] = [req[r] EXCEPT !.pc = pc, !.conns = req[r].conns \cup {c}]
             /\ \A q \in Requests \ {r} : req'[q] = req[q]
             /\ pool' = pool \ {c}
<1> DEFINE c == CHOOSE c \in pool : TRUE
<1>1. c \in pool /\ c \in Connections
  BY DEF Take, TypeOK
<1>2. /\ req' = [req EXCEPT ![r].pc = pc, ![r].conns = @ \cup {c}]
      /\ pool' = pool \ {c}
  BY DEF Take
<1>3. req[r] \in Request /\ req[r].conns \cup {c} \in SUBSET Connections
  BY <1>1 DEF TypeOK, Request
<1> HIDE DEF c
<1> QED
  BY <1>1, <1>2, <1>3 DEF TypeOK, Request, Steps

\* The plans of the requests are sequences of jobs.
LEMMA PlanType == \A kind \in Kinds : Plan(kind) \in Seq(Jobs)
<1>1. /\ <<>> \in Seq(Jobs)
      /\ <<"fetch", "execute", "store">> \in Seq(Jobs)
      /\ <<"fetch", "grade">> \in Seq(Jobs)
      /\ <<"fetch", "execute", "store", "fetch", "grade">> \in Seq(Jobs)
  BY DEF Jobs
<1>2. /\ Plan("api") = <<>>
      /\ Plan("upload") = <<"fetch", "execute", "store">>
      /\ Plan("evaluate") = <<"fetch", "grade">>
      /\ Plan("embedded") = <<"fetch", "execute", "store", "fetch", "grade">>
  BY DEF Plan
<1> QED
  BY <1>1, <1>2 DEF Kinds

\* The conjuncts of the types that the steps of requests disturb.
LEMMA TypeKept ==
    ASSUME TypeInv,
           req' \in [Requests -> Request],
           \A q \in Requests :
             req'[q].pc \in {"queued", "working", "exited"} => req'[q].jobs # <<>>,
           pool' \subseteq Connections, queue' \in Seq(Requests), QueueWaits',
           containers' \subseteq Requests, workspaces' \subseteq Requests,
           orphans' \subseteq Requests, crashes' \in 0..MaxCrashes
    PROVE  TypeInv'
BY DEF TypeInv, TypeOK

\* Every step of a request keeps the types and the queue.
LEMMA AdvanceTypeInv ==
    ASSUME TypeInv, Shape, NEW r \in Requests, Advance(r) \/ ContainerExits(r)
    PROVE  TypeInv'
<1> USE DEF sandbox
<1>0. /\ req \in [Requests -> Request] /\ req[r] \in Request
      /\ pool \subseteq Connections /\ queue \in Seq(Requests)
      /\ containers \subseteq Requests /\ workspaces \subseteq Requests
      /\ orphans \subseteq Requests /\ crashes \in 0..MaxCrashes
      /\ \A q \in Requests :
           req[q].pc \in {"queued", "working", "exited"} => req[q].jobs # <<>>
  BY DEF TypeInv, TypeOK
<1>c. ASSUME Close(r), UNCHANGED <<queue, crashes>>, req[r].pc # "queued",
             containers' \subseteq Requests, workspaces' \subseteq Requests,
             orphans' \subseteq Requests
      PROVE  TypeInv'
  <2>1. QueueWaits'
    BY <1>c, QueueKept, CloseEffect DEF TypeInv
  <2>2. req'[r].pc = "closed"
    BY <1>c, CloseEffect DEF TypeInv, Idle
  <2> QED
    BY <1>0, <1>c, <2>1, <2>2, CloseEffect, TypeKept DEF TypeInv
<1>t. ASSUME NEW pc \in {"user", "reading"}, Take(r, pc),
             UNCHANGED <<queue, sandbox, crashes>>, req[r].pc # "queued"
      PROVE  TypeInv'
  <2>1. pc \in Steps
    BY DEF Steps
  <2>2. /\ req' \in [Requests -> Request] /\ req'[r].pc = pc
        /\ \A q \in Requests \ {r} : req'[q] = req[q]
        /\ pool' \subseteq Connections
    <3>1. PICK c \in pool :
            /\ req' \in [Requests -> Request]
            /\ req'[r] = [req[r] EXCEPT !.pc = pc, !.conns = req[r].conns \cup {c}]
            /\ \A q \in Requests \ {r} : req'[q] = req[q]
            /\ pool' = pool \ {c}
      BY <1>t, <2>1, TakeEffect DEF TypeInv
    <3>2. req'[r].pc = pc
      BY <1>0, <3>1 DEF Request
    <3> QED
      BY <1>0, <3>1, <3>2
  <2>3. QueueWaits'
    BY <1>t, <2>2, QueueKept
  <2> QED
    BY <1>0, <1>t, <2>2, <2>3, TypeKept
<1>d. ASSUME Dequeue(r), NEW done \in BOOLEAN, NEW pc \in {"working", "exited"},
             req' = [req EXCEPT ![r].pc = pc, ![r].done = done],
             pool' \subseteq Connections, UNCHANGED crashes,
             containers' \subseteq Requests, workspaces' \subseteq Requests,
             orphans' \subseteq Requests
      PROVE  TypeInv'
  <2>1. /\ req' \in [Requests -> Request] /\ req'[r].jobs = req[r].jobs
        /\ \A q \in Requests \ {r} : req'[q] = req[q]
    BY <1>0, <1>d DEF Request, Steps
  <2>2. req[r].jobs # <<>> /\ queue' \in Seq(Requests)
    BY <1>0, <1>d, DequeueHead
  <2>3. QueueWaits'
    BY <1>d, <2>1, QueueShortened
  <2> QED
    BY <1>0, <1>d, <2>1, <2>2, <2>3, TypeKept
<1>e. ASSUME req[r].pc = "working", NEW done \in BOOLEAN,
             req' = [req EXCEPT ![r].pc = "exited", ![r].done = done],
             UNCHANGED <<pool, queue, crashes>>,
             containers' \subseteq Requests, workspaces' \subseteq Requests,
             orphans' \subseteq Requests
      PROVE  TypeInv'
  <2>1. /\ req' \in [Requests -> Request] /\ req'[r].jobs = req[r].jobs
        /\ \A q \in Requests \ {r} : req'[q] = req[q]
    BY <1>0, <1>e DEF Request, Steps
  <2>2. QueueWaits'
    BY <1>e, <2>1, QueueKept
  <2> QED
    BY <1>0, <1>e, <2>1, <2>2, TypeKept
<1>q. ASSUME NEW jobs \in Seq(Jobs), NEW done \in BOOLEAN, jobs # <<>>,
             req[r].pc # "queued",
             req' = [req EXCEPT ![r].pc = "queued", ![r].jobs = jobs, ![r].done = done],
             queue' = Append(queue, r), pool' \subseteq Connections, UNCHANGED crashes,
             containers' \subseteq Requests, workspaces' \subseteq Requests,
             orphans' \subseteq Requests
      PROVE  TypeInv'
  <2>1. /\ req' \in [Requests -> Request] /\ req'[r].jobs = jobs
        /\ req'[r].pc = "queued"
        /\ \A q \in Requests \ {r} : req'[q] = req[q]
    BY <1>0, <1>q DEF Request, Steps
  <2>2. QueueWaits' /\ queue' \in Seq(Requests)
    BY <1>q, <2>1, QueueLengthened
  <2> QED
    BY <1>0, <1>q, <2>1, <2>2, TypeKept
<1>1. CASE TakeSession(r)
  BY <1>t, <1>1 DEF TakeSession
<1>2. CASE TakeUser(r)
  BY <1>t, <1>2 DEF TakeUser
<1>3. CASE PoolTimeout(r) \/ RefuseToken(r) \/ RefuseUser(r) \/ Finish(r)
  BY <1>0, <1>c, <1>3 DEF PoolTimeout, RefuseToken, RefuseUser, Finish
<1>4. CASE JobFails(r) \/ Record(r)
  BY <1>0, <1>c, <1>4 DEF JobFails, Record, LeaveWorkspace
<1>5. CASE ReadUser(r)
  <2> DEFINE c == CHOOSE c \in req[r].conns : TRUE
  <2>1. req' = [req EXCEPT ![r].pc = "handler", ![r].conns = req[r].conns \ {c}]
        /\ pool' = pool \cup {c} /\ c \in req[r].conns
        /\ req[r].pc = "reading" /\ UNCHANGED <<queue, sandbox, crashes>>
    BY <1>5 DEF ReadUser, Shape, Held
  <2> HIDE DEF c
  <2>2. /\ req' \in [Requests -> Request] /\ req'[r].pc = "handler"
        /\ \A q \in Requests \ {r} : req'[q] = req[q]
        /\ pool' \subseteq Connections
    BY <1>0, <2>1 DEF Request, Steps
  <2>3. QueueWaits'
    BY <2>1, <2>2, QueueKept
  <2> QED
    BY <1>0, <2>1, <2>2, <2>3, TypeKept
<1>6. CASE Submit(r)
  <2>1. req' = [req EXCEPT ![r].pc = "queued", ![r].jobs = req[r].jobs,
                           ![r].done = req[r].done]
    BY <1>0, <1>6 DEF Submit, Enqueue, Goto, Request
  <2>2. req[r].jobs \in Seq(Jobs) /\ req[r].done \in BOOLEAN /\ req[r].jobs # <<>>
    BY <1>0, <1>6 DEF Submit, Request
  <2> QED
    BY <1>0, <1>q, <1>6, <2>1, <2>2 DEF Submit, Enqueue
<1>7. CASE NextJob(r)
  <2>1. /\ req' = [req EXCEPT ![r].pc = "queued", ![r].jobs = Tail(req[r].jobs),
                              ![r].done = FALSE]
        /\ queue' = Append(queue, r) /\ req[r].pc = "exited" /\ Len(req[r].jobs) > 1
        /\ workspaces' \subseteq Requests /\ UNCHANGED <<pool, containers, orphans, crashes>>
    BY <1>0, <1>7 DEF NextJob, LeaveWorkspace
  <2>2. Tail(req[r].jobs) \in Seq(Jobs) /\ Tail(req[r].jobs) # <<>>
    <3>1. req[r].jobs \in Seq(Jobs)
      BY <1>0 DEF Request
    <3> QED
      BY <2>1, <3>1
  <2> QED
    BY <1>0, <1>q, <2>1, <2>2
<1>8. CASE StartTransfer(r) \/ StartRun(r)
  <2>1. req' = [req EXCEPT ![r].pc = "working", ![r].done = req[r].done]
    BY <1>0, <1>8 DEF StartTransfer, StartRun, Goto, Request
  <2>2. req[r].done \in BOOLEAN
    BY <1>0 DEF Request
  <2> QED
    BY <1>0, <1>d, <1>8, <2>1, <2>2 DEF StartTransfer, StartRun
<1>9. CASE RejectNotebook(r)
  BY <1>0, <1>d, <1>9 DEF RejectNotebook
<1>10. CASE EndTransfer(r)
  BY <1>0, <1>e, <1>10 DEF EndTransfer
<1>11. CASE RunTimesOut(r)
  BY <1>0, <1>e, <1>11 DEF RunTimesOut
<1>12. CASE ContainerExits(r)
  <2>1. CASE req[r].pc = "working"
    BY <1>0, <1>e, <1>12, <2>1 DEF ContainerExits
  <2>2. CASE req[r].pc # "working"
    BY <1>0, <1>12, <2>2, TypeKept DEF ContainerExits, TypeInv, QueueWaits
  <2> QED
    BY <2>1, <2>2
<1> QED
  BY <1>1, <1>2, <1>3, <1>4, <1>5, <1>6, <1>7, <1>8, <1>9, <1>10, <1>11, <1>12
     DEF Advance

----
(***************************************************************************)
(* Connections.                                                            *)
(***************************************************************************)

Connected == Shape /\ NoConnectionLost

\* The steps by which a request changes what it holds, seen from NoConnectionLost.
LEMMA CloseConnected ==
    ASSUME TypeInv, Connected, NEW r \in Requests, Close(r)
    PROVE  Connected'
<1>1. /\ req' \in [Requests -> Request] /\ req'[r].pc = "closed" /\ req'[r].conns = {}
      /\ \A q \in Requests \ {r} : req'[q] = req[q]
      /\ pool' = pool \cup req[r].conns
  BY CloseEffect DEF TypeInv, Close, Idle
<1>2. Shape'
  BY <1>1 DEF Connected, Shape, Held
<1>3. NoConnectionLost'
  <2>1. \A q \in Requests : req'[q].conns \cap pool' = {}
    BY <1>1 DEF Connected, NoConnectionLost
  <2>2. \A q \in Requests : req'[q].conns # {} => Running(q)'
    BY <1>1 DEF Connected, NoConnectionLost, Running
  <2>3. \A q, p \in Requests : p # q => req'[q].conns \cap req'[p].conns = {}
    BY <1>1 DEF Connected, NoConnectionLost
  <2>4. pool' \cup UNION {req'[q].conns : q \in Requests} = Connections
    BY <1>1 DEF Connected, NoConnectionLost
  <2> QED
    BY <2>1, <2>2, <2>3, <2>4 DEF NoConnectionLost
<1> QED
  BY <1>2, <1>3 DEF Connected

LEMMA TakeConnected ==
    ASSUME TypeInv, Connected, NEW r \in Requests, NEW pc \in {"user", "reading"},
           Take(r, pc),
           \/ req[r].pc = "session" /\ pc = "user"
           \/ req[r].pc = "user" /\ pc = "reading"
    PROVE  Connected'
<1>0. pc \in Steps
  BY DEF Steps
<1>1. PICK c \in pool :
        /\ req' \in [Requests -> Request]
        /\ req'[r] = [req[r] EXCEPT !.pc = pc, !.conns = req[r].conns \cup {c}]
        /\ \A q \in Requests \ {r} : req'[q] = req[q]
        /\ pool' = pool \ {c}
  BY <1>0, TakeEffect DEF TypeInv
<1>2. req[r] \in Request
  BY DEF TypeInv, TypeOK
<1>3. req'[r].pc = pc /\ req'[r].conns = req[r].conns \cup {c}
  BY <1>1, <1>2 DEF Request
<1>4. Shape'
  <2>1. Held(req'[r])
    BY <1>3 DEF Connected, Shape, Held
  <2> QED
    BY <1>1, <2>1 DEF Connected, Shape
<1>5. NoConnectionLost'
  <2>1. \A q \in Requests : req'[q].conns \cap pool' = {}
    BY <1>1, <1>3 DEF Connected, NoConnectionLost
  <2>2. \A q \in Requests : req'[q].conns # {} => Running(q)'
    BY <1>0, <1>1, <1>3 DEF Connected, NoConnectionLost, Running
  <2>0. /\ \A q \in Requests : req[q].conns \cap pool = {} /\ req[q].conns \subseteq Connections
        /\ \A q, p \in Requests : p # q => req[q].conns \cap req[p].conns = {}
        /\ \A x \in Connections : x \in pool \/ \E q \in Requests : x \in req[q].conns
        /\ pool \subseteq Connections
    BY DEF Connected, NoConnectionLost
  <2>3. \A q, p \in Requests : p # q => req'[q].conns \cap req'[p].conns = {}
    <3>1. ASSUME NEW q \in Requests \ {r} PROVE req'[q].conns \cap req'[r].conns = {}
      BY <1>1, <1>3, <2>0
    <3>2. ASSUME NEW q \in Requests \ {r}, NEW p \in Requests \ {r}, p # q
          PROVE  req'[q].conns \cap req'[p].conns = {}
      BY <1>1, <1>3, <2>0, <3>2
    <3> QED
      BY <3>1, <3>2
  <2>4. pool' \cup UNION {req'[q].conns : q \in Requests} = Connections
    <3>1. \A x \in Connections : x \in pool' \/ \E q \in Requests : x \in req'[q].conns
      BY <1>1, <1>3, <2>0
    <3>2. pool' \subseteq Connections /\ \A q \in Requests : req'[q].conns \subseteq Connections
      BY <1>1, <1>3, <2>0
    <3> QED
      BY <3>1, <3>2
  <2> QED
    BY <2>1, <2>2, <2>3, <2>4 DEF NoConnectionLost
<1> QED
  BY <1>4, <1>5 DEF Connected

LEMMA ReadConnected ==
    ASSUME TypeInv, Connected, NEW r \in Requests, ReadUser(r)
    PROVE  Connected'
<1> DEFINE c == CHOOSE c \in req[r].conns : TRUE
<1>1. req' = [req EXCEPT ![r].pc = "handler", ![r].conns = req[r].conns \ {c}]
      /\ pool' = pool \cup {c} /\ c \in req[r].conns /\ req[r].pc = "reading"
  BY DEF ReadUser, Connected, Shape, Held
<1> HIDE DEF c
<1>2. req \in [Requests -> Request] /\ req[r] \in Request
  BY DEF TypeInv, TypeOK
<1>3. /\ req'[r].pc = "handler" /\ req'[r].conns = req[r].conns \ {c}
      /\ \A q \in Requests \ {r} : req'[q] = req[q]
  BY <1>1, <1>2 DEF Request
<1>4. Shape'
  <2>1. PICK a, b \in req[r].conns : req[r].conns = {a, b}
    BY <1>1 DEF Connected, Shape, Held
  <2>2. Held(req'[r])
    BY <1>1, <1>3, <2>1 DEF Held
  <2> QED
    BY <1>3, <2>2 DEF Connected, Shape
<1>5. NoConnectionLost'
  <2>1. \A q \in Requests : req'[q].conns \cap pool' = {}
    BY <1>1, <1>3 DEF Connected, NoConnectionLost
  <2>2. \A q \in Requests : req'[q].conns # {} => Running(q)'
    BY <1>3 DEF Connected, NoConnectionLost, Running, Steps
  <2>0. /\ \A q \in Requests : req[q].conns \cap pool = {} /\ req[q].conns \subseteq Connections
        /\ \A q, p \in Requests : p # q => req[q].conns \cap req[p].conns = {}
        /\ \A x \in Connections : x \in pool \/ \E q \in Requests : x \in req[q].conns
        /\ pool \subseteq Connections
    BY DEF Connected, NoConnectionLost
  <2>3. \A q, p \in Requests : p # q => req'[q].conns \cap req'[p].conns = {}
    <3>1. ASSUME NEW q \in Requests \ {r} PROVE req'[q].conns \cap req'[r].conns = {}
      BY <1>1, <1>3, <2>0
    <3>2. ASSUME NEW q \in Requests \ {r}, NEW p \in Requests \ {r}, p # q
          PROVE  req'[q].conns \cap req'[p].conns = {}
      BY <1>3, <2>0, <3>2
    <3> QED
      BY <3>1, <3>2
  <2>4. pool' \cup UNION {req'[q].conns : q \in Requests} = Connections
    <3>1. ASSUME NEW x \in Connections, x \notin pool'
          PROVE  \E q \in Requests : x \in req'[q].conns
      <4>1. PICK q \in Requests : x \in req[q].conns
        BY <1>1, <2>0, <3>1
      <4>2. x \in req'[q].conns
        BY <1>1, <1>3, <3>1, <4>1
      <4> QED
        BY <4>2
    <3>2. pool' \subseteq Connections /\ \A q \in Requests : req'[q].conns \subseteq Connections
      BY <1>1, <1>3, <2>0
    <3> QED
      BY <3>1, <3>2
  <2> QED
    BY <2>1, <2>2, <2>3, <2>4 DEF NoConnectionLost
<1> QED
  BY <1>4, <1>5 DEF Connected

\* All other steps of a request keep its connections.
LEMMA KeepConnected ==
    ASSUME Connected, NEW r \in Requests, UNCHANGED pool,
           \A q \in Requests \ {r} : req'[q] = req[q],
           req'[r].conns = req[r].conns,
           req'[r].pc \in Steps, req[r].pc # "reading" /\ req'[r].pc # "reading",
           req'[r].pc = "session" => req[r].pc = "idle"
    PROVE  Connected'
<1>1. Shape'
  BY DEF Connected, Shape, Held, Steps
<1>2. NoConnectionLost'
  <2>1. \A q \in Requests : req'[q].conns = req[q].conns
    OBVIOUS
  <2>2. \A q \in Requests : Running(q) => Running(q)'
    BY DEF Running
  <2> QED
    BY <2>1, <2>2 DEF Connected, NoConnectionLost
<1> QED
  BY <1>1, <1>2 DEF Connected

\* Every step of a request keeps the connections accounted for.
LEMMA AdvanceConnected ==
    ASSUME TypeInv, Connected, NEW r \in Requests, Advance(r) \/ ContainerExits(r)
    PROVE  Connected'
<1>0. req \in [Requests -> Request] /\ req[r] \in Request
  BY DEF TypeInv, TypeOK
<1>1. CASE TakeSession(r) \/ TakeUser(r)
  BY <1>1, TakeConnected DEF TakeSession, TakeUser
<1>2. CASE PoolTimeout(r) \/ RefuseToken(r) \/ RefuseUser(r) \/ Finish(r)
           \/ JobFails(r) \/ Record(r)
  BY <1>2, CloseConnected
     DEF PoolTimeout, RefuseToken, RefuseUser, Finish, JobFails, Record
<1>3. CASE ReadUser(r)
  BY <1>3, ReadConnected
<1>4. CASE Submit(r) \/ NextJob(r)
  <2>1. /\ req'[r].pc = "queued" /\ req'[r].conns = req[r].conns
        /\ \A q \in Requests \ {r} : req'[q] = req[q]
    BY <1>0, <1>4 DEF Submit, NextJob, Enqueue, Goto, Request
  <2> QED
    BY <1>4, <2>1, KeepConnected DEF Submit, NextJob, Steps
<1>5. CASE StartTransfer(r) \/ StartRun(r) \/ RejectNotebook(r)
  <2>1. /\ req'[r].pc \in {"working", "exited"} /\ req'[r].conns = req[r].conns
        /\ \A q \in Requests \ {r} : req'[q] = req[q]
    BY <1>0, <1>5 DEF StartTransfer, StartRun, RejectNotebook, Goto, Request
  <2>2. req[r].pc = "queued"
    BY <1>5, DequeueHead DEF StartTransfer, StartRun, RejectNotebook
  <2> QED
    BY <1>5, <2>1, <2>2, KeepConnected DEF StartTransfer, StartRun, RejectNotebook, Steps
<1>6. CASE EndTransfer(r) \/ RunTimesOut(r) \/ (ContainerExits(r) /\ req[r].pc = "working")
  <2>1. /\ req'[r].pc = "exited" /\ req'[r].conns = req[r].conns /\ req[r].pc = "working"
        /\ \A q \in Requests \ {r} : req'[q] = req[q]
    BY <1>0, <1>6 DEF EndTransfer, RunTimesOut, ContainerExits, Request
  <2> QED
    BY <1>6, <2>1, KeepConnected DEF EndTransfer, RunTimesOut, ContainerExits, Steps
<1>7. CASE ContainerExits(r) /\ req[r].pc # "working"
  BY <1>7 DEF ContainerExits, Connected, Shape, NoConnectionLost, Running
<1> QED
  BY <1>1, <1>2, <1>3, <1>4, <1>5, <1>6, <1>7 DEF Advance

----
(***************************************************************************)
(* Containers and workspaces.                                              *)
(***************************************************************************)

\* Once its docker client has gone, the container of a run is an orphan or gone.
CleanedUp ==
    /\ OnlyOrphansRemain
    /\ \A r \in Requests : req[r].pc = "exited" /\ r \in containers => r \in orphans

LEMMA AdvanceCleanedUp ==
    ASSUME TypeInv, CleanedUp, NEW r \in Requests, Advance(r) \/ ContainerExits(r)
    PROVE  CleanedUp'
<1> USE DEF sandbox
<1>0. /\ req \in [Requests -> Request] /\ req[r] \in Request
      /\ containers \subseteq Requests /\ workspaces \subseteq Requests
  BY DEF TypeInv, TypeOK
<1>k. ASSUME UNCHANGED sandbox, ~InRun(r),
             \A q \in Requests \ {r} : req'[q] = req[q]
      PROVE  CleanedUp'
  <2>1. r \in containers \cup workspaces => r \in orphans
    BY <1>k DEF CleanedUp, OnlyOrphansRemain
  <2>2. \A q \in Requests \ {r} : InRun(q) => InRun(q)'
    BY <1>k DEF InRun, Working
  <2> QED
    BY <1>0, <1>k, <2>1, <2>2 DEF CleanedUp, OnlyOrphansRemain
<1>1. CASE TakeSession(r) \/ TakeUser(r) \/ PoolTimeout(r) \/ RefuseToken(r)
           \/ ReadUser(r) \/ RefuseUser(r) \/ Submit(r) \/ Finish(r)
  <2>1. ~InRun(r) /\ UNCHANGED sandbox
    BY <1>1 DEF TakeSession, TakeUser, PoolTimeout, RefuseToken, ReadUser, RefuseUser,
                Submit, Finish, InRun, Working
  <2>2. \A q \in Requests \ {r} : req'[q] = req[q]
    BY <1>0, <1>1 DEF TakeSession, TakeUser, Take, PoolTimeout, RefuseToken, ReadUser,
                      RefuseUser, Submit, Enqueue, Goto, Finish, Close
  <2> QED
    BY <1>k, <2>1, <2>2
<1>2. CASE JobFails(r) \/ Record(r) \/ NextJob(r)
  <2>1. /\ req[r].pc = "exited" /\ containers' = containers /\ orphans' = orphans
        /\ \/ workspaces' = workspaces \ {r}
           \/ r \in containers /\ workspaces' = workspaces
        /\ req'[r].pc # "exited"
        /\ \A q \in Requests \ {r} : req'[q] = req[q]
    BY <1>0, <1>2 DEF JobFails, Record, NextJob, LeaveWorkspace, Close, Idle, Request
  <2>2. r \in containers \cup workspaces' => r \in orphans
    BY <2>1 DEF CleanedUp
  <2>3. \A q \in Requests \ {r} : InRun(q) => InRun(q)'
    BY <2>1 DEF InRun, Working
  <2> QED
    BY <1>0, <2>1, <2>2, <2>3 DEF CleanedUp, OnlyOrphansRemain
<1>3. CASE StartTransfer(r) \/ RejectNotebook(r)
  <2>1. req[r].pc = "queued"
    BY <1>3, DequeueHead DEF StartTransfer, RejectNotebook
  <2>2. ~InRun(r)
    BY <2>1 DEF InRun, Working
  <2> QED
    BY <1>0, <1>3, <1>k, <2>2 DEF StartTransfer, RejectNotebook, Goto
<1>4. CASE StartRun(r)
  <2>1. /\ req'[r].pc = "working" /\ req'[r].jobs = req[r].jobs
        /\ \A q \in Requests \ {r} : req'[q] = req[q]
        /\ Head(req[r].jobs) \in Runs
        /\ containers' = containers \cup {r} /\ workspaces' = workspaces \cup {r}
        /\ orphans' = orphans
    BY <1>0, <1>4 DEF StartRun, Goto, Request
  <2>2. InRun(r)' /\ \A q \in Requests \ {r} : InRun(q) => InRun(q)'
    BY <2>1 DEF InRun, Working
  <2> QED
    BY <1>0, <2>1, <2>2 DEF CleanedUp, OnlyOrphansRemain
<1>5. CASE EndTransfer(r)
  BY <1>0, <1>5, <1>k DEF EndTransfer
<1>6. CASE RunTimesOut(r)
  <2>1. /\ \A q \in Requests \ {r} : req'[q] = req[q]
        /\ containers' = containers /\ workspaces' = workspaces
        /\ orphans' = orphans \cup {r}
    BY <1>0, <1>6 DEF RunTimesOut
  <2>2. \A q \in Requests \ {r} : InRun(q) => InRun(q)'
    BY <2>1 DEF InRun, Working
  <2> QED
    BY <1>0, <2>1, <2>2 DEF CleanedUp, OnlyOrphansRemain
<1>7. CASE ContainerExits(r)
  <2>1. /\ \A q \in Requests \ {r} : req'[q] = req[q]
        /\ req'[r].jobs = req[r].jobs
        /\ req[r].pc = "working" => req'[r].pc = "exited"
        /\ req[r].pc # "working" => req'[r].pc = req[r].pc
        /\ containers' = containers \ {r} /\ workspaces' = workspaces
        /\ orphans' = orphans
    BY <1>0, <1>7 DEF ContainerExits, Request
  <2>2. \A q \in Requests : InRun(q) => InRun(q)'
    BY <2>1 DEF InRun, Working
  <2> QED
    BY <1>0, <2>1, <2>2 DEF CleanedUp, OnlyOrphansRemain
<1> QED
  BY <1>1, <1>2, <1>3, <1>4, <1>5, <1>6, <1>7 DEF Advance

----
(***************************************************************************)
(* The theorems.                                                           *)
(***************************************************************************)

IInv == TypeInv /\ Connected /\ CleanedUp

LEMMA InitIInv == Init => IInv
<1> SUFFICES ASSUME Init PROVE IInv
  OBVIOUS
<1>1. TypeInv
  BY InitTypeInv
<1>2. \A r \in Requests : req[r].pc = "idle" /\ req[r].conns = {}
  BY DEF Init, Idle
<1>3. Connected
  BY <1>2 DEF Init, Connected, Shape, Held, NoConnectionLost
<1>4. CleanedUp
  BY <1>2 DEF Init, CleanedUp, OnlyOrphansRemain
<1> QED
  BY <1>1, <1>3, <1>4 DEF IInv

LEMMA ArriveIInv ==
    ASSUME IInv, NEW r \in Requests, NEW kind \in Kinds, Arrive(r, kind)
    PROVE  IInv'
<1> USE DEF sandbox
<1>1. req \in [Requests -> Request] /\ req[r].pc = "idle"
  BY DEF IInv, TypeInv, TypeOK, Arrive
<1>2. /\ Idle \in Request /\ Idle.conns = {}
      /\ Plan(kind) \in Seq(Jobs)
  <2>1. <<>> \in Seq(Jobs)
    OBVIOUS
  <2> QED
    BY <2>1, PlanType DEF Idle, Request
<1>3. /\ req' \in [Requests -> Request]
      /\ req'[r].pc = "session" /\ req'[r].conns = {}
      /\ \A q \in Requests \ {r} : req'[q] = req[q]
  BY <1>1, <1>2 DEF Arrive, Request, Steps
<1>4. TypeInv'
  <2>1. QueueWaits'
    BY <1>1, <1>3, QueueKept DEF Arrive, IInv
  <2> QED
    BY <1>3, <2>1 DEF Arrive, IInv, TypeInv, TypeOK
<1>5. Connected'
  <2>1. req[r].conns = {}
    BY <1>1 DEF IInv, Connected, Shape, Held
  <2> QED
    BY <1>1, <1>3, <2>1, KeepConnected DEF Arrive, IInv, Steps
<1>6. CleanedUp'
  <2>1. ~InRun(r) /\ \A q \in Requests \ {r} : InRun(q) => InRun(q)'
    BY <1>1, <1>3 DEF InRun, Working
  <2>2. containers \subseteq Requests /\ workspaces \subseteq Requests
    BY DEF IInv, TypeInv, TypeOK
  <2> QED
    BY <1>3, <2>1, <2>2 DEF Arrive, IInv, CleanedUp, OnlyOrphansRemain
<1> QED
  BY <1>4, <1>5, <1>6 DEF IInv

LEMMA CrashIInv == IInv /\ Crash => IInv'
<1> SUFFICES ASSUME IInv, Crash PROVE IInv'
  OBVIOUS
<1>1. /\ req \in [Requests -> Request] /\ containers \subseteq Requests
      /\ workspaces \subseteq Requests /\ orphans \subseteq Requests
      /\ crashes \in 0..MaxCrashes
  BY DEF IInv, TypeInv, TypeOK
<1>2. \A r \in Requests : ~Running(r) => req[r].pc \in {"idle", "closed"} /\ req[r].conns = {}
  <2>1. \A r \in Requests : req[r].pc \in Steps \cup {"idle", "closed"}
    BY <1>1 DEF Request
  <2> QED
    BY <2>1 DEF IInv, Connected, Shape, Held, Running
<1>3. [Idle EXCEPT !.pc = "closed"] \in Request
  <2>1. <<>> \in Seq(Jobs)
    OBVIOUS
  <2>2. Idle \in Request
    BY <2>1 DEF Idle, Request
  <2> QED
    BY <2>2 DEF Request
<1>4. [Idle EXCEPT !.pc = "closed"].pc = "closed" /\ [Idle EXCEPT !.pc = "closed"].conns = {}
  BY DEF Idle
<1>5. /\ req' \in [Requests -> Request]
      /\ \A r \in Requests : req'[r].pc \in {"idle", "closed"} /\ req'[r].conns = {}
      /\ pool' = Connections /\ queue' = <<>> /\ crashes' \in 0..MaxCrashes
      /\ containers' = containers /\ workspaces' = workspaces
      /\ orphans' = orphans \cup {r \in Requests : InRun(r)}
  BY <1>1, <1>2, <1>3, <1>4, EvaluationsAssumption DEF Crash
<1>6. TypeInv'
  BY <1>1, <1>5 DEF TypeInv, TypeOK, QueueWaits
<1>7. Connected'
  BY <1>5 DEF Connected, Shape, Held, NoConnectionLost
<1>8. CleanedUp'
  <2>1. \A r \in containers \cup workspaces : InRun(r) \/ r \in orphans
    BY DEF IInv, CleanedUp, OnlyOrphansRemain
  <2> QED
    BY <1>1, <1>5, <2>1 DEF CleanedUp, OnlyOrphansRemain
<1> QED
  BY <1>6, <1>7, <1>8 DEF IInv

LEMMA StutterIInv == IInv /\ UNCHANGED vars => IInv'
BY DEF vars, IInv, TypeInv, TypeOK, QueueWaits, Connected, Shape, NoConnectionLost,
       CleanedUp, OnlyOrphansRemain, InRun, Working, Running

LEMMA NextIInv == IInv /\ [Next]_vars => IInv'
<1> SUFFICES ASSUME IInv, [Next]_vars PROVE IInv'
  OBVIOUS
<1>1. ASSUME NEW r \in Requests, Advance(r) \/ ContainerExits(r) PROVE IInv'
  BY <1>1, AdvanceTypeInv, AdvanceConnected, AdvanceCleanedUp DEF IInv, Connected
<1> QED
  BY <1>1, ArriveIInv, CrashIInv, StutterIInv DEF Next

\* The inductive invariant holds in every reachable state.
LEMMA AlwaysIInv == Spec => []IInv
BY InitIInv, NextIInv, PTL DEF Spec

\* Every reachable state has the declared types, whatever the numbers of
\* requests, connections and threads and however often the process crashes.
THEOREM EvaluationsTypeCorrect == Spec => []TypeOK
<1>1. IInv => TypeOK
  BY DEF IInv, TypeInv
<1> QED
  BY <1>1, AlwaysIInv, PTL

\* No connection of the pool is ever lost or shared (db.py:28-31).
THEOREM ConnectionsKept == Spec => []NoConnectionLost
<1>1. IInv => NoConnectionLost
  BY DEF IInv, Connected
<1> QED
  BY <1>1, AlwaysIInv, PTL

\* When the pool is empty and nobody is about to give a connection back, each
\* connection belongs to a request of its own, so there are as many requests.
LEMMA EmptyPoolIsFull == IInv => NoMutualWait
<1> SUFFICES ASSUME IInv, pool = {}, \A r \in Requests : req[r].pc # "reading"
             PROVE  Cardinality(Connections) <= Cardinality(UnderWay)
  <2>1. IsFiniteSet(UnderWay)
    BY EvaluationsAssumption, FS_Subset DEF UnderWay
  <2>2. Cardinality(UnderWay) \in Nat /\ Cardinality(Connections) \in Nat
    BY <2>1, EvaluationsAssumption, FS_CardinalityType
  <2> QED
    BY <2>2 DEF NoMutualWait
<1> DEFINE holder == [c \in Connections |-> CHOOSE r \in UnderWay : c \in req[r].conns]
<1>1. \A c \in Connections : \E r \in UnderWay : c \in req[r].conns
  BY DEF IInv, Connected, NoConnectionLost, UnderWay
<1>2. \A c \in Connections : holder[c] \in UnderWay /\ c \in req[holder[c]].conns
  BY <1>1
<1>3. \A r \in UnderWay : \A c, d \in req[r].conns : c = d
  BY DEF IInv, Connected, Shape, Held, UnderWay
<1> HIDE DEF holder
<1>4. holder \in [Connections -> UnderWay]
  BY <1>2 DEF holder
<1>5. \A c, d \in Connections : holder[c] = holder[d] => c = d
  BY <1>2, <1>3
<1>6. IsFiniteSet(UnderWay)
  BY EvaluationsAssumption, FS_Subset DEF UnderWay
<1>7. holder \in Injection(Connections, UnderWay)
  BY <1>4, <1>5 DEF Injection, IsInjective
<1> QED
  BY <1>6, <1>7, FS_Injection

\* Requests block each other in the pool only when there are at least as many
\* of them as connections (db.py:12-17, dependencies.py:76).
THEOREM FewRequestsNeverBlock == Spec => []NoMutualWait
BY AlwaysIInv, EmptyPoolIsFull, PTL

\* Whatever fails, only runs that timed out or crashed leave a container or a
\* workspace behind (sandbox_runner.py:63-69).
THEOREM RunsCleanUp == Spec => []OnlyOrphansRemain
<1>1. IInv => OnlyOrphansRemain
  BY DEF IInv, CleanedUp
<1> QED
  BY <1>1, AlwaysIInv, PTL

====
