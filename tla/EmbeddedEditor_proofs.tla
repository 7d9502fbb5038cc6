---- MODULE EmbeddedEditor_proofs ----
(***************************************************************************)
(* Proofs about EmbeddedEditor, for any number of requests, edits and      *)
(* polls.                                                                  *)
(***************************************************************************)
EXTENDS EmbeddedEditor, TLAPS

\* The steps of an opening that has the content it will put, those after it
\* has made sure of the user, and those of a save.
Seeded == {"user", "create", "start", "poll", "token", "put", "sync"}
Welcome == {"start", "poll", "token", "put", "sync"}

\* What the program counter tells of the locals, and nothing is newer than the
\* latest edit.
Consistent(request) ==
    /\ request.pc = "idle" => request.kind = "none" /\ request.polls = 0
    /\ request.pc \in Seeded \cup {"find", "seed"} => request.kind = "open"
    /\ request.pc \in {"read", "store"} => request.kind = "save"
    /\ request.pc \in Seeded \cup {"store"} => request.content \in 0..edits

TypeInv ==
    /\ TypeOK
    /\ draft \in 0..edits \cup {None}
    /\ copy \in 0..edits \cup {None}
    /\ \A r \in Requests : Consistent(req[r])

\* What an opening has achieved so far.
Achieved(request) ==
    /\ request.pc \in Seeded => draft # None
    /\ request.pc \in Welcome => known
    /\ request.pc = "sync" => copy # None
    /\ request.pc = "closed" /\ request.kind = "open" /\ ~request.failed =>
         draft # None /\ copy # None /\ known

\* While the student does one thing at a time, a request works on the draft and
\* the copy as they are.
Undisturbed ==
    /\ \A r, q \in Requests : Running(r) /\ Running(q) => r = q
    /\ copy # None => draft # None /\ copy >= draft
    /\ \A r \in Requests :
         /\ req[r].pc = "seed" => draft = None
         /\ req[r].pc \in Seeded => draft # None /\ req[r].content = draft
         /\ req[r].pc = "sync" => copy = draft
         /\ req[r].pc = "store" => copy # None /\ req[r].content = copy

EditorInv ==
    /\ TypeInv
    /\ \A r \in Requests : Achieved(req[r])
    /\ alone => Undisturbed

\* Only r's request changes.
Only(r) == req' = [req EXCEPT ![r] = req'[r]]

LEMMA EditorInit == Init => EditorInv
<1> SUFFICES ASSUME Init PROVE EditorInv
  OBVIOUS
<1>1. Idle \in Request
  BY EmbeddedEditorAssumption DEF Idle, Request
<1>2. req \in [Requests -> Request]
  BY <1>1 DEF Init
<1>3. TypeOK
  <2>1. edits \in 0..MaxEdits
    BY EmbeddedEditorAssumption DEF Init
  <2> QED BY <1>2, <2>1, Zenon DEF Init, TypeOK
<1>4. ASSUME NEW r \in Requests
      PROVE  Consistent(req[r]) /\ Achieved(req[r])
  <2>1. req[r] = Idle
    BY DEF Init
  <2>2. req[r].pc = "idle" /\ req[r].kind = "none" /\ req[r].polls = 0
    BY <2>1 DEF Idle
  <2> QED BY <2>2 DEF Consistent, Achieved, Seeded, Welcome
<1>5. TypeInv
  BY <1>3, <1>4 DEF Init, TypeInv
<1>6. ASSUME NEW r \in Requests PROVE req[r].pc = "idle"
  BY DEF Init, Idle
<1>7. Undisturbed
  BY <1>6 DEF Init, Undisturbed, Running, Steps, Seeded
<1> QED BY <1>4, <1>5, <1>7 DEF EditorInv

----
(***************************************************************************)
(* Types.                                                                  *)
(***************************************************************************)

LEMMA TypeStep ==
    ASSUME TypeInv, NEW r \in Requests, Only(r), edits' = edits,
           req'[r] \in Request, Consistent(req[r])',
           draft' \in 0..edits \cup {None}, copy' \in 0..edits \cup {None},
           known' \in BOOLEAN, server' \in {"stopped", "starting", "ready"},
           alone' \in BOOLEAN
    PROVE  TypeInv'
<1>1. req' \in [Requests -> Request]
  BY DEF TypeInv, TypeOK, Only
<1>2. TypeOK'
  BY <1>1, EmbeddedEditorAssumption DEF TypeInv, TypeOK, Contents
<1>3. ASSUME NEW q \in Requests PROVE Consistent(req[q])'
  <2>1. CASE q = r
    BY <2>1
  <2>2. CASE q # r
    <3>1. req'[q] = req[q]
      BY <2>2 DEF Only, TypeInv, TypeOK
    <3> QED BY <3>1 DEF TypeInv, Consistent
  <2> QED BY <2>1, <2>2
<1> QED BY <1>2, <1>3 DEF TypeInv

LEMMA TypeRequests ==
    ASSUME TypeInv, NEW r \in Requests,
           CreateSession(r) \/ SaveDraft(r) \/ Advance(r) \/ Fail(r)
    PROVE  TypeInv' /\ Only(r) /\ edits' = edits
<1> USE EmbeddedEditorAssumption
<1>a. /\ req \in [Requests -> Request] /\ req[r] \in Request
      /\ Consistent(req[r])
      /\ edits \in 0..MaxEdits
      /\ draft \in 0..edits \cup {None} /\ copy \in 0..edits \cup {None}
      /\ known \in BOOLEAN /\ alone \in BOOLEAN
      /\ server \in {"stopped", "starting", "ready"}
  BY DEF TypeInv, TypeOK
<1>b. SUFFICES
        /\ Only(r) /\ edits' = edits
        /\ req'[r] \in Request /\ Consistent(req[r])'
        /\ draft' \in 0..edits \cup {None} /\ copy' \in 0..edits \cup {None}
        /\ known' \in BOOLEAN /\ alone' \in BOOLEAN
        /\ server' \in {"stopped", "starting", "ready"}
  BY TypeStep
<1> USE DEF Request, Consistent, Steps, Seeded, Only
<1>1. CASE CreateSession(r) \/ SaveDraft(r)
  BY <1>1, <1>a DEF CreateSession, SaveDraft, Begin
<1>2. CASE FindDraft(r)
  BY <1>2, <1>a DEF FindDraft, Goto, Contents
<1>3. CASE SeedDraft(r)
  <2>1. 0 \in 0..edits /\ 0 \in Contents
    BY <1>a DEF Contents
  <2>2. req'[r] = [req[r] EXCEPT !.pc = "user", !.content = 0]
    BY <1>3, <1>a DEF SeedDraft
  <2>3. Only(r)
    BY <1>3, <1>a DEF SeedDraft
  <2>4. UNCHANGED <<copy, known, server, edits, alone>> /\ draft' = 0
    BY <1>3 DEF SeedDraft
  <2>5. req'[r] \in Request
    BY <2>1, <2>2, <1>a
  <2>6. Consistent(req[r])'
    BY <2>1, <2>2, <2>4, <1>a, <1>3 DEF SeedDraft
  <2> QED BY <2>1, <2>3, <2>4, <2>5, <2>6, <1>a
<1>4. CASE FindUser(r)
  BY <1>4, <1>a DEF FindUser, Goto
<1>5. CASE CreateUser(r)
  BY <1>5, <1>a DEF CreateUser, Goto, Close
<1>6. CASE StartServer(r)
  BY <1>6, <1>a DEF StartServer, Goto
<1>7. CASE CreateToken(r)
  BY <1>7, <1>a DEF CreateToken, Goto
<1>8. CASE Poll(r)
  BY <1>8, <1>a DEF Poll, Goto, Close
<1>9. CASE PutNotebook(r)
  BY <1>9, <1>a DEF PutNotebook, Goto, Close
<1>10. CASE SyncResources(r)
  BY <1>10, <1>a DEF SyncResources, Close
<1>11. CASE Fail(r)
  BY <1>11, <1>a DEF Fail, Close, Running
<1>12. CASE GetNotebook(r)
  BY <1>12, <1>a DEF GetNotebook, Close, Contents
<1>13. CASE StoreDraft(r)
  <2>1. PICK failed \in BOOLEAN : Close(r, failed)
    BY <1>13 DEF StoreDraft
  <2>2. req[r].content \in 0..edits
    BY <1>13, <1>a DEF StoreDraft
  <2> QED BY <1>13, <2>1, <2>2, <1>a DEF StoreDraft, Close
<1> QED BY <1>1, <1>2, <1>3, <1>4, <1>5, <1>6, <1>7, <1>8, <1>9, <1>10, <1>11,
           <1>12, <1>13 DEF Advance

LEMMA TypeNext == TypeInv /\ [Next]_vars => TypeInv'
<1> SUFFICES ASSUME TypeInv, [Next]_vars PROVE TypeInv'
  OBVIOUS
<1>1. CASE \E r \in Requests : CreateSession(r) \/ SaveDraft(r) \/ Advance(r) \/ Fail(r)
  BY <1>1, TypeRequests
<1>2. CASE ServerStarts \/ ServerStops
  BY <1>2 DEF ServerStarts, ServerStops, TypeInv, TypeOK, Consistent
<1>3. CASE Edit
  <2>1. edits' \in 0..MaxEdits /\ copy' \in 0..edits' /\ edits \in 0..edits'
    BY <1>3, EmbeddedEditorAssumption DEF Edit, TypeInv, TypeOK
  <2>2. TypeOK'
    BY <1>3, <2>1 DEF Edit, TypeInv, TypeOK, Contents
  <2>3. 0..edits \subseteq 0..edits'
    BY <2>1, EmbeddedEditorAssumption DEF TypeInv, TypeOK
  <2>4. ASSUME NEW r \in Requests PROVE Consistent(req[r])'
    BY <1>3, <2>3 DEF Edit, TypeInv, Consistent
  <2> QED BY <1>3, <2>1, <2>2, <2>3, <2>4 DEF Edit, TypeInv
<1>4. CASE UNCHANGED vars
  BY <1>4 DEF vars, TypeInv, TypeOK, Consistent, Contents
<1> QED BY <1>1, <1>2, <1>3, <1>4 DEF Next, Finished

----
(***************************************************************************)
(* What the openings achieve stays: a draft, a copy and a user are never   *)
(* taken away.                                                             *)
(***************************************************************************)

Kept ==
    /\ draft # None => draft' # None
    /\ copy # None => copy' # None
    /\ known => known'

LEMMA KeptStep == TypeInv /\ [Next]_vars => Kept
<1> SUFFICES ASSUME TypeInv, [Next]_vars PROVE Kept
  OBVIOUS
<1>0. draft' = draft /\ copy' = copy /\ known' = known => Kept
  BY DEF Kept, TypeInv, TypeOK
<1>1. ASSUME NEW r \in Requests,
             CreateSession(r) \/ SaveDraft(r) \/ Fail(r)
      PROVE  Kept
  <2>1. UNCHANGED <<draft, copy, known, server, edits>>
    BY <1>1, Zenon DEF CreateSession, SaveDraft, Begin, Fail
  <2> QED BY <1>0, <2>1
<1>2. ASSUME NEW r \in Requests, Advance(r) PROVE Kept
  <2>0. req[r].pc \in {"put", "store"} => req[r].content # None
    BY EmbeddedEditorAssumption DEF TypeInv, TypeOK, Consistent, Seeded
  <2>a. None # 0
    BY EmbeddedEditorAssumption
  <2>1. CASE FindDraft(r) \/ FindUser(r) \/ CreateToken(r) \/ SyncResources(r)
             \/ StartServer(r) \/ Poll(r) \/ GetNotebook(r)
    <3>1. UNCHANGED <<draft, copy, known>>
      BY <2>1 DEF FindDraft, FindUser, CreateToken, SyncResources, StartServer,
                  Poll, GetNotebook
    <3> QED BY <1>0, <3>1
  <2>2. CASE SeedDraft(r)
    BY <2>a, <2>2, Zenon DEF SeedDraft, Kept
  <2>3. CASE CreateUser(r)
    BY <2>3, Zenon DEF CreateUser, Kept
  <2>4. CASE PutNotebook(r)
    <3>1. req[r].content # None /\ UNCHANGED <<draft, known>>
      BY <2>0, <2>4 DEF PutNotebook
    <3>2. copy' = req[r].content \/ copy' = copy
      BY <2>4, Zenon DEF PutNotebook
    <3> QED BY <3>1, <3>2, Zenon DEF Kept
  <2>5. CASE StoreDraft(r)
    <3>1. req[r].content # None
      BY <2>0, <2>5 DEF StoreDraft
    <3> QED BY <3>1, <2>5, Zenon DEF StoreDraft, Kept
  <2> QED BY <1>2, <2>1, <2>2, <2>3, <2>4, <2>5 DEF Advance
<1>3. CASE ServerStarts \/ ServerStops
  <2>1. UNCHANGED <<draft, copy, known>>
    BY <1>3 DEF ServerStarts, ServerStops
  <2> QED BY <1>0, <2>1
<1>4. CASE Edit
  <2>1. edits + 1 # None
    BY EmbeddedEditorAssumption DEF TypeInv, TypeOK
  <2> QED BY <1>4, <2>1, Zenon DEF Edit, Kept
<1>5. CASE UNCHANGED vars
  BY <1>0, <1>5 DEF vars
<1> QED BY <1>1, <1>2, <1>3, <1>4, <1>5 DEF Next, Finished

LEMMA AchievedRequests ==
    ASSUME TypeInv, NEW r \in Requests, Achieved(req[r]), Kept,
           CreateSession(r) \/ SaveDraft(r) \/ Advance(r) \/ Fail(r)
    PROVE  Achieved(req[r])'
<1> USE EmbeddedEditorAssumption DEF Achieved, Seeded, Welcome
<1>a. /\ req \in [Requests -> Request] /\ req[r] \in Request
      /\ Consistent(req[r])
      /\ edits \in Nat
  BY DEF TypeInv, TypeOK
<1> USE DEF Request
<1>1. CASE CreateSession(r) \/ SaveDraft(r)
  BY <1>1, <1>a DEF CreateSession, SaveDraft, Begin
<1>2. CASE Fail(r)
  BY <1>2, <1>a DEF Fail, Close
<1>3. CASE FindDraft(r)
  BY <1>3, <1>a DEF FindDraft, Goto
<1>4. CASE SeedDraft(r)
  <2>1. req'[r].pc = "user"
    BY <1>4, <1>a DEF SeedDraft
  <2>2. draft' # None
    BY <1>4 DEF SeedDraft
  <2> QED BY <2>1, <2>2
<1>5. CASE FindUser(r)
  BY <1>5, <1>a DEF FindUser, Goto, Kept
<1>6. CASE CreateUser(r)
  BY <1>6, <1>a DEF CreateUser, Goto, Close, Kept
<1>7. CASE StartServer(r) \/ CreateToken(r)
  BY <1>7, <1>a DEF StartServer, CreateToken, Goto, Kept
<1>8. CASE Poll(r)
  BY <1>8, <1>a DEF Poll, Goto, Close, Kept
<1>9. CASE PutNotebook(r)
  BY <1>9, <1>a DEF PutNotebook, Goto, Close, Kept, Consistent
<1>10. CASE SyncResources(r)
  BY <1>10, <1>a DEF SyncResources, Close, Kept
<1>11. CASE GetNotebook(r)
  BY <1>11, <1>a DEF GetNotebook, Close
<1>12. CASE StoreDraft(r)
  <2>1. req'[r].kind = "save" /\ req'[r].pc = "closed"
    BY <1>12, <1>a DEF StoreDraft, Close, Consistent
  <2> QED BY <2>1
<1> QED BY <1>1, <1>2, <1>3, <1>4, <1>5, <1>6, <1>7, <1>8, <1>9, <1>10, <1>11,
           <1>12 DEF Advance

LEMMA AchievedStep ==
    TypeInv /\ (\A r \in Requests : Achieved(req[r])) /\ [Next]_vars
      => (\A r \in Requests : Achieved(req[r]))'
<1> SUFFICES ASSUME TypeInv, \A r \in Requests : Achieved(req[r]), [Next]_vars,
                    NEW q \in Requests
             PROVE  Achieved(req[q])'
  OBVIOUS
<1>1. Kept
  BY KeptStep
<1>2. CASE req'[q] = req[q]
  <2> Achieved(req[q])
    OBVIOUS
  <2> QED BY <1>1, <1>2 DEF Achieved, Kept
<1>3. CASE req'[q] # req[q]
  <2>1. PICK r \in Requests : CreateSession(r) \/ SaveDraft(r) \/ Advance(r) \/ Fail(r)
    BY <1>3 DEF Next, vars, ServerStarts, ServerStops, Edit, Finished
  <2>2. q = r
    BY <2>1, <1>3, TypeRequests DEF Only, TypeInv, TypeOK
  <2> QED BY <1>1, <2>1, <2>2, AchievedRequests
<1> QED BY <1>2, <1>3

----
(***************************************************************************)
(* A student who does one thing at a time: a step of a running request is  *)
(* the only thing that happens, and a request begins when none is running. *)
(***************************************************************************)

\* The conditions of Undisturbed on one request.
Current(r) ==
    /\ req[r].pc = "seed" => draft = None
    /\ req[r].pc \in Seeded => draft # None /\ req[r].content = draft
    /\ req[r].pc = "sync" => copy = draft
    /\ req[r].pc = "store" => copy # None /\ req[r].content = copy

CopyAhead == copy # None => draft # None /\ copy >= draft

LEMMA CurrentAdvance ==
    ASSUME TypeInv, NEW r \in Requests, Current(r), CopyAhead,
           Advance(r) \/ Fail(r)
    PROVE  /\ Current(r)' /\ CopyAhead'
           /\ Running(r)
           /\ draft # None => draft' # None /\ draft' >= draft
           /\ req'[r].pc = "closed" /\ ~req'[r].failed => draft' = copy'
<1> USE EmbeddedEditorAssumption DEF Current, CopyAhead, Seeded, Request, Running, Steps
<1>a. /\ req \in [Requests -> Request] /\ req[r] \in Request
      /\ edits \in Nat
      /\ draft \in 0..edits \cup {None} /\ copy \in 0..edits \cup {None}
  BY DEF TypeInv, TypeOK
<1>2. CASE Fail(r)
  BY <1>2, <1>a DEF Fail, Close
<1>3. CASE FindDraft(r)
  BY <1>3, <1>a DEF FindDraft, Goto
<1>4. CASE SeedDraft(r)
  <2>1. req'[r].pc = "user" /\ req'[r].content = 0 /\ req[r].pc = "seed"
    BY <1>4, <1>a DEF SeedDraft
  <2>2. draft' = 0 /\ copy' = copy
    BY <1>4 DEF SeedDraft
  <2>3. 0 # None /\ draft = None /\ copy = None
    BY <2>1
  <2> QED BY <2>1, <2>2, <2>3
<1>5. CASE FindUser(r)
  BY <1>5, <1>a DEF FindUser, Goto
<1>6. CASE CreateUser(r)
  BY <1>6, <1>a DEF CreateUser, Goto, Close
<1>7. CASE StartServer(r) \/ CreateToken(r)
  BY <1>7, <1>a DEF StartServer, CreateToken, Goto
<1>8. CASE Poll(r)
  BY <1>8, <1>a DEF Poll, Goto, Close
<1>9. CASE PutNotebook(r)
  BY <1>9, <1>a DEF PutNotebook, Goto, Close
<1>10. CASE SyncResources(r)
  BY <1>10, <1>a DEF SyncResources, Close
<1>11. CASE GetNotebook(r)
  BY <1>11, <1>a DEF GetNotebook, Close
<1>12. CASE StoreDraft(r)
  <2>1. draft' = copy /\ copy' = copy /\ copy # None
    BY <1>12 DEF StoreDraft
  <2>2. req[r].pc = "store" /\ req'[r].pc = "closed"
    BY <1>12, <1>a DEF StoreDraft, Close
  <2> QED BY <2>1, <2>2, <1>a
<1> QED BY <1>2, <1>3, <1>4, <1>5, <1>6, <1>7, <1>8, <1>9, <1>10, <1>11,
           <1>12 DEF Advance

LEMMA CurrentBegin ==
    ASSUME TypeInv, NEW r \in Requests, CreateSession(r) \/ SaveDraft(r)
    PROVE  /\ alone' => alone /\ \A q \in Requests : ~Running(q)
           /\ UNCHANGED <<draft, copy>>
           /\ req'[r].pc \in {"find", "read"}
<1>1. PICK kind \in {"open", "save"}, pc \in {"find", "read"} : Begin(r, kind, pc)
  BY DEF CreateSession, SaveDraft
<1>2. alone' => alone /\ \A q \in Requests : ~Running(q)
  BY <1>1, Zenon DEF Begin
<1>3. UNCHANGED <<draft, copy>>
  BY <1>1, Zenon DEF Begin
<1>4. req'[r].pc = pc
  BY <1>1 DEF Begin, TypeInv, TypeOK, Request
<1> QED BY <1>2, <1>3, <1>4

LEMMA UndisturbedStep ==
    ASSUME EditorInv, [Next]_vars, alone'
    PROVE  /\ alone /\ Undisturbed'
           /\ draft # None => draft' # None /\ draft' >= draft
           /\ \A r \in Requests :
                Running(r) /\ req'[r].pc = "closed" /\ ~req'[r].failed
                  => draft' = copy'
<1>a. TypeInv /\ (alone => Undisturbed)
  BY DEF EditorInv
<1>b. edits \in Nat /\ draft \in 0..edits \cup {None} /\ req \in [Requests -> Request]
  BY <1>a, EmbeddedEditorAssumption DEF TypeInv, TypeOK
<1>1. ASSUME NEW r \in Requests, CreateSession(r) \/ SaveDraft(r)
      PROVE  /\ alone /\ Undisturbed'
             /\ draft # None => draft' # None /\ draft' >= draft
             /\ \A q \in Requests : ~Running(q)
  <2>1. alone /\ (\A q \in Requests : ~Running(q)) /\ UNCHANGED <<draft, copy>>
    BY <1>a, <1>1, CurrentBegin
  <2>2. \A q \in Requests : q # r => req'[q] = req[q]
    BY <1>a, <1>1, TypeRequests DEF Only, TypeInv, TypeOK
  <2>3. req'[r].pc \in {"find", "read"}
    BY <1>a, <1>1, CurrentBegin
  <2>4. Undisturbed'
    BY <1>a, <2>1, <2>2, <2>3 DEF Undisturbed, Running, Steps, Seeded
  <2> QED BY <1>b, <2>1, <2>4
<1>2. ASSUME NEW r \in Requests, Advance(r) \/ Fail(r)
      PROVE  /\ alone /\ Undisturbed'
             /\ draft # None => draft' # None /\ draft' >= draft
             /\ \A q \in Requests : Running(q) => q = r
             /\ req'[r].pc = "closed" /\ ~req'[r].failed => draft' = copy'
  <2>1. alone
    BY <1>2 DEF Advance, Fail, FindDraft, SeedDraft, FindUser, CreateUser, StartServer,
                Poll, CreateToken, PutNotebook, SyncResources, GetNotebook, StoreDraft
  <2>2. Current(r) /\ CopyAhead
    BY <1>a, <2>1 DEF Undisturbed, Current, CopyAhead
  <2>3. /\ Current(r)' /\ CopyAhead' /\ Running(r)
        /\ draft # None => draft' # None /\ draft' >= draft
        /\ req'[r].pc = "closed" /\ ~req'[r].failed => draft' = copy'
    BY <1>a, <1>2, <2>2, CurrentAdvance
  <2>4. \A q \in Requests : Running(q) => q = r
    BY <1>a, <2>1, <2>3 DEF Undisturbed
  <2>5. \A q \in Requests : q # r => req'[q] = req[q]
    BY <1>a, <1>2, TypeRequests DEF Only, TypeInv, TypeOK
  <2>6. \A q \in Requests : q # r => req'[q].pc \notin Steps
    BY <2>4, <2>5 DEF Running
  <2>7. Undisturbed'
    BY <2>3, <2>6 DEF Undisturbed, Current, CopyAhead, Running, Steps, Seeded
  <2> QED BY <2>1, <2>3, <2>4, <2>7
<1>3. ASSUME ServerStarts \/ ServerStops \/ UNCHANGED vars
      PROVE  /\ alone /\ Undisturbed'
             /\ UNCHANGED <<draft, copy, req>>
  <2>1. UNCHANGED <<draft, copy, req>>
    BY <1>3 DEF ServerStarts, ServerStops, vars
  <2>2. alone
    BY <1>3 DEF ServerStarts, ServerStops, vars
  <2> QED BY <1>a, <2>1, <2>2 DEF Undisturbed, Running
<1>4. ASSUME Edit
      PROVE  alone /\ Undisturbed' /\ UNCHANGED <<draft, req>>
  <2>1. alone /\ \A q \in Requests : ~Running(q)
    BY <1>4, Zenon DEF Edit
  <2>2. UNCHANGED <<draft, req>> /\ copy' = edits + 1
    BY <1>4, Zenon DEF Edit
  <2>3. draft # None
    BY <1>4 DEF Edit, Opened, EditorInv, Achieved
  <2>4. draft' # None /\ copy' >= draft'
    BY <1>b, <2>2, <2>3
  <2> QED BY <2>1, <2>2, <2>4 DEF Undisturbed, Running, Steps, Seeded
<1>5. CASE \E r \in Requests : CreateSession(r) \/ SaveDraft(r)
  BY <1>1, <1>5
<1>6. CASE \E r \in Requests : Advance(r) \/ Fail(r)
  BY <1>2, <1>6
<1>7. CASE ServerStarts \/ ServerStops \/ UNCHANGED vars
  BY <1>3, <1>7, <1>b DEF Running, Steps
<1>8. CASE Edit
  BY <1>4, <1>8, <1>b DEF Running, Steps
<1> QED BY <1>5, <1>6, <1>7, <1>8 DEF Next, Finished

----
LEMMA EditorInvariant == Spec => []EditorInv
<1>1. EditorInv /\ [Next]_vars => EditorInv'
  <2> SUFFICES ASSUME EditorInv, [Next]_vars PROVE EditorInv'
    OBVIOUS
  <2>1. TypeInv'
    BY TypeNext DEF EditorInv
  <2>2. (\A r \in Requests : Achieved(req[r]))'
    BY AchievedStep DEF EditorInv
  <2>3. (alone => Undisturbed)'
    BY UndisturbedStep
  <2> QED BY <2>1, <2>2, <2>3 DEF EditorInv
<1> QED BY <1>1, EditorInit, PTL DEF Spec

\* Every variable keeps its shape and a poll its bound, for any number of
\* requests, edits and polls.
THEOREM EditorTypeCorrect == Spec => []TypeOK
<1>1. EditorInv => TypeOK
  BY DEF EditorInv, TypeInv
<1> QED BY <1>1, EditorInvariant, PTL

\* However openings, saves, failures and stops of the server interleave, behind
\* an editor that opened there is a draft, a working copy and a user
\* (embedded_notebook_service.py:393-451).
THEOREM EditorAlwaysHasNotebook == Spec => []EditorHasNotebook
<1>1. EditorInv => EditorHasNotebook
  BY DEF EditorInv, Achieved, EditorHasNotebook, Opened
<1> QED BY <1>1, EditorInvariant, PTL

\* For a student who does one thing at a time, a successful opening or save ends
\* with the editor showing the draft (embedded_notebook_service.py:414-481).
THEOREM EditorAlwaysShowsDraft == Spec => EditorShowsDraft
<1>1. EditorInv /\ [Next]_vars =>
        [\A r \in Requests :
           alone' /\ Running(r) /\ req'[r].pc = "closed" /\ ~req'[r].failed
             => draft' = copy']_vars
  BY UndisturbedStep
<1> QED BY <1>1, EditorInvariant, PTL DEF Spec, EditorShowsDraft

\* For that student no older content replaces a draft
\* (embedded_notebook_service.py:392-411).
THEOREM DraftsNeverGoBack == Spec => DraftNeverGoesBack
<1>1. EditorInv /\ [Next]_vars =>
        [alone' /\ draft # None => draft' # None /\ draft' >= draft]_vars
  BY UndisturbedStep
<1> QED BY <1>1, EditorInvariant, PTL DEF Spec, DraftNeverGoesBack

====
