---- MODULE AssignmentFiles_proofs ----
(***************************************************************************)
(* Proofs about AssignmentFiles, for every set of requests and file names  *)
(* and any number of files in a request.                                   *)
(***************************************************************************)
EXTENDS AssignmentFiles, FiniteSetTheorems, SequenceTheorems, TLAPS

\* What the program counter of a request tells of its locals.
Consistent(request) ==
    /\ request.pc = "idle" => request.kind = "none"
    /\ request.pc \in {"store", "record", "commit"} =>
         request.kind = "create" /\ request.next = 1
    /\ request.pc = "attach" => request.next \in DOMAIN request.names
    /\ request.pc \in {"replace", "locate", "write", "grade"} =>
         request.kind = "replace"
    /\ request.pc \in {"unlink", "remove"} => request.kind = "detach"
    /\ request.pc \in {"list", "clear", "erase"} => request.kind = "delete"
    /\ request.kind = "detach" => request.row \in OfType(AssignmentFile, "resource")

TypeInv == TypeOK /\ \A r \in Requests : Consistent(req[r])

\* Once started, a request keeps its errand.
Follows(old, new) ==
    old.pc # "idle" =>
      /\ new.kind = old.kind
      /\ old.kind = "detach" => new.row = old.row

LEMMA PayloadLength ==
    ASSUME NEW names \in Payloads
    PROVE  /\ names \in Seq(Names)
           /\ Len(names) \in 0..MaxFiles
           /\ DOMAIN names = 1..Len(names)
           /\ names # <<>> => 1 \in DOMAIN names
<1> PICK k \in 0..MaxFiles : names \in [1..k -> Names]
  BY DEF Payloads
<1>1. k \in Nat /\ names \in Seq(Names) /\ Len(names) = k
  BY AssignmentFilesAssumption
<1>2. names # <<>> => Len(names) # 0
  BY <1>1, EmptySeq
<1> QED BY <1>1, <1>2

LEMMA IdleRequest == Idle \in Request /\ Consistent(Idle)
<1>1. <<>> \in Payloads
  BY AssignmentFilesAssumption DEF Payloads
<1>2. 1 \in 1..MaxFiles + 1
  BY AssignmentFilesAssumption
<1>3. Idle \in Request
  BY <1>1, <1>2 DEF Idle, Request, Steps, Notebooks
<1>4. Consistent(Idle)
  BY DEF Idle, Consistent
<1> QED BY <1>3, <1>4

LEMMA EndedRequest ==
    ASSUME NEW old \in Request, Consistent(old), NEW failed \in BOOLEAN
    PROVE  /\ Ended(old, failed) \in Request
           /\ Ended(old, failed).pc = "closed"
           /\ Ended(old, failed).added = {}
           /\ Consistent(Ended(old, failed))
           /\ Follows(old, Ended(old, failed))
<1> DEFINE row == IF old.kind = "detach" THEN old.row ELSE None
<1>1. row \in AssignmentFile \cup {None}
  BY DEF Consistent, OfType
<1>2. Idle \in Request
  BY IdleRequest
<1>3. Ended(old, failed) =
        [Idle EXCEPT !.pc = "closed", !.kind = old.kind, !.owner = old.owner,
                     !.row = row, !.failed = old.failed \/ failed]
  BY DEF Ended
<1>4. /\ Ended(old, failed).pc = "closed" /\ Ended(old, failed).added = {}
      /\ Ended(old, failed).kind = old.kind
      /\ Ended(old, failed).row = row
  BY <1>3 DEF Idle
<1>5. (old.failed \/ failed) \in BOOLEAN
  BY DEF Request
<1> HIDE DEF row
<1>6. Ended(old, failed) \in Request
  BY <1>1, <1>2, <1>3, <1>5 DEF Request
<1> QED BY <1>4, <1>6 DEF row, Consistent, Follows

LEMMA TypeInit == Init => TypeInv
BY IdleRequest DEF Init, TypeInv, TypeOK

\* The steps of a request whose notebooks have been stored.
Stored == {"record", "commit", "locate", "write", "grade"}

\* Rows are inserted after their file was stored.
StoresFirst(r, new) ==
    /\ new.pc \in Stored => req[r].pc \in Stored \/ blob' = BothStored(r)
    /\ \A f \in new.added \ req[r].added :
         \/ blob'[f.path] = r
         \/ req[r].pc \in Stored /\ f.path \in {NotebookPath(t) : t \in Notebooks}

\* What a request does to the records of the requests.
Moves(r) ==
    \E new \in Request :
        /\ req' = [req EXCEPT ![r] = new]
        /\ Consistent(new)
        /\ Follows(req[r], new)
        /\ StoresFirst(r, new)

LEMMA EndingMoves ==
    ASSUME TypeInv, NEW r \in Requests, Close(r) \/ Abort(r)
    PROVE  Moves(r)
<1>1. PICK failed \in BOOLEAN : req' = [req EXCEPT ![r] = Ended(req[r], failed)]
  BY DEF Close, Abort
<1>2. req[r] \in Request /\ Consistent(req[r])
  BY DEF TypeInv, TypeOK
<1> QED BY <1>1, <1>2, EndedRequest DEF Moves, StoresFirst, Stored

LEMMA GotoMoves ==
    ASSUME TypeInv, NEW r \in Requests, NEW pc \in Steps, Goto(r, pc),
           Consistent([req[r] EXCEPT !.pc = pc]),
           pc \in Stored => req[r].pc \in Stored \/ blob' = BothStored(r)
    PROVE  Moves(r)
<1> DEFINE new == [req[r] EXCEPT !.pc = pc]
<1>1. /\ new \in Request /\ new.kind = req[r].kind /\ new.row = req[r].row
      /\ new.pc = pc /\ new.added = req[r].added
  BY DEF TypeInv, TypeOK, Request
<1>2. req' = [req EXCEPT ![r] = new]
  BY DEF Goto
<1>3. Consistent(new)
  OBVIOUS
<1> HIDE DEF new
<1> QED BY <1>1, <1>2, <1>3 DEF Moves, Follows, StoresFirst

LEMMA NextTaskMoves ==
    ASSUME TypeInv, NEW r \in Requests, NEW failed \in BOOLEAN,
           NextTask(r, failed), req[r].pc \in {"store", "record", "commit"}
    PROVE  Moves(r)
<1>1. req[r] \in Request /\ Consistent(req[r])
  BY DEF TypeInv, TypeOK
<1>2. CASE req[r].names = <<>>
  BY <1>1, <1>2, EndedRequest DEF NextTask, Moves, StoresFirst, Stored
<1>3. CASE req[r].names # <<>>
  <2> DEFINE new == [req[r] EXCEPT !.pc = "attach", !.added = {},
                                   !.failed = req[r].failed \/ failed]
  <2>1. req' = [req EXCEPT ![r] = new]
    BY <1>3 DEF NextTask
  <2>2. (req[r].failed \/ failed) \in BOOLEAN
    BY <1>1 DEF Request
  <2>3. /\ new \in Request /\ new.kind = req[r].kind
        /\ new.row = req[r].row /\ new.pc = "attach" /\ new.added = {}
        /\ new.names = req[r].names /\ new.next = req[r].next
    BY <1>1, <2>2 DEF Request, Steps
  <2>4. req[r].next \in DOMAIN req[r].names
    BY <1>1, <1>3, PayloadLength DEF Consistent, Request
  <2>5. req[r].kind = "create"
    BY <1>1 DEF Consistent
  <2> HIDE DEF new
  <2> QED BY <2>1, <2>3, <2>4, <2>5
         DEF Moves, Follows, Consistent, StoresFirst, Stored
<1> QED BY <1>2, <1>3

LEMMA ArriveMoves ==
    ASSUME TypeInv, NEW r \in Requests, Arrive(r)
    PROVE  Moves(r)
<1>1. ASSUME NEW new \in Request, Consistent(new), Begin(r, new),
             new.pc \notin Stored, new.added = {}
      PROVE  Moves(r)
  <2>1. req[r].pc = "idle" /\ req' = [req EXCEPT ![r] = new]
    BY <1>1 DEF Begin
  <2> QED BY <1>1, <2>1 DEF Moves, Follows, StoresFirst
<1>2. Idle \in Request
  BY IdleRequest
<1>3. ASSUME NEW names \in Payloads, AddAssignment(r, names)
      PROVE  Moves(r)
  <2> DEFINE new == [Idle EXCEPT !.pc = "store", !.kind = "create", !.names = names]
  <2>1. new \in Request
    BY <1>2 DEF Request, Steps, Kinds
  <2>2. Consistent(new) /\ new.pc \notin Stored /\ new.added = {}
    BY DEF Idle, Consistent, Stored
  <2> QED BY <1>1, <1>3, <2>1, <2>2 DEF AddAssignment
<1>4. ASSUME NEW names \in Payloads, UploadAssignmentResources(r, names)
      PROVE  Moves(r)
  <2> DEFINE new == [Idle EXCEPT !.pc = "attach", !.kind = "attach", !.names = names]
  <2>1. new \in Request
    BY <1>2 DEF Request, Steps, Kinds
  <2>2. 1 \in DOMAIN names
    BY <1>4, PayloadLength DEF UploadAssignmentResources
  <2>3. Consistent(new) /\ new.pc \notin Stored /\ new.added = {}
    BY <2>2 DEF Idle, Consistent, Stored
  <2> QED BY <1>1, <1>4, <2>1, <2>3 DEF UploadAssignmentResources
<1>5. CASE UpdateFilesOfAssignment(r)
  <2> DEFINE new == [Idle EXCEPT !.pc = "replace", !.kind = "replace"]
  <2>1. new \in Request
    BY <1>2 DEF Request, Steps, Kinds
  <2>2. Consistent(new) /\ new.pc \notin Stored /\ new.added = {}
    BY DEF Idle, Consistent, Stored
  <2> QED BY <1>1, <1>5, <2>1, <2>2 DEF UpdateFilesOfAssignment
<1>6. ASSUME NEW f \in files, DeleteAssignmentResource(r, f)
      PROVE  Moves(r)
  <2> DEFINE new == [Idle EXCEPT !.pc = "unlink", !.kind = "detach", !.row = f]
  <2>1. f \in OfType(AssignmentFile, "resource") /\ f \in AssignmentFile
    BY <1>6 DEF DeleteAssignmentResource, OfType, TypeInv, TypeOK
  <2>2. new \in Request
    BY <1>2, <2>1 DEF Request, Steps, Kinds
  <2>3. Consistent(new) /\ new.pc \notin Stored /\ new.added = {}
    BY <2>1 DEF Idle, Consistent, Stored
  <2> QED BY <1>1, <1>6, <2>2, <2>3 DEF DeleteAssignmentResource
<1>7. ASSUME NEW owner \in BOOLEAN, DeleteAssignment(r, owner)
      PROVE  Moves(r)
  <2> DEFINE new == [Idle EXCEPT !.pc = "list", !.kind = "delete", !.owner = owner]
  <2>1. new \in Request
    BY <1>2 DEF Request, Steps, Kinds
  <2>2. Consistent(new) /\ new.pc \notin Stored /\ new.added = {}
    BY DEF Idle, Consistent, Stored
  <2> QED BY <1>1, <1>7, <2>1, <2>2 DEF DeleteAssignment
<1> QED BY <1>3, <1>4, <1>5, <1>6, <1>7 DEF Arrive

\* The steps that store or remove files, or commit rows.
LEMMA StorageMoves ==
    ASSUME TypeInv, NEW r \in Requests,
           \/ StoreNotebooks(r) \/ RecordNotebooks(r) \/ CommitNotebooks(r)
           \/ AttachResource(r) \/ CommitResources(r) \/ ReplaceNotebooks(r)
           \/ UnlinkResource(r) \/ RemoveResource(r) \/ UpdateGrade(r)
           \/ ListFiles(r) \/ ClearFiles(r) \/ EraseAssignment(r)
           \/ Fail(r) \/ BreakDeadlock(r)
    PROVE  Moves(r)
<1>1. req[r] \in Request /\ Consistent(req[r])
  BY DEF TypeInv, TypeOK
<1>2. Close(r) \/ Abort(r) => Moves(r)
  BY EndingMoves
<1>3. ASSUME NEW pc \in Steps, req' = [req EXCEPT ![r].pc = pc],
             pc \in Stored => blob' = BothStored(r),
             <<req[r].pc, pc>> \in {<<"store", "record">>, <<"replace", "locate">>,
                                   <<"unlink", "remove">>, <<"list", "clear">>}
      PROVE  Moves(r)
  <2> DEFINE new == [req[r] EXCEPT !.pc = pc]
  <2>1. /\ new.pc = pc /\ new.kind = req[r].kind /\ new.next = req[r].next
        /\ new.row = req[r].row
    BY <1>1 DEF Request
  <2> HIDE DEF new
  <2>2. Consistent(new)
    BY <1>1, <1>3, <2>1 DEF Consistent
  <2>3. Goto(r, pc)
    BY <1>3 DEF Goto
  <2> QED BY <1>3, <2>2, <2>3, GotoMoves DEF new
<1>4. CASE StoreNotebooks(r)
  <2>1. CASE blob' = BothStored(r) /\ Goto(r, "record")
    <3>1. req[r].pc = "store" /\ "record" \in Steps
      BY <1>4 DEF StoreNotebooks, Steps
    <3> QED BY <1>3, <2>1, <3>1 DEF Goto
  <2>2. CASE NextTask(r, TRUE)
    BY <1>4, <2>2, NextTaskMoves DEF StoreNotebooks
  <2> QED BY <1>4, <2>1, <2>2 DEF StoreNotebooks
<1>5. CASE RecordNotebooks(r)
  <2>1. CASE NextTask(r, TRUE)
    BY <1>5, <2>1, NextTaskMoves DEF RecordNotebooks
  <2>2. CASE ~NextTask(r, TRUE)
    <3> DEFINE rows == {Row(r, NotebookPath(t)) : t \in Notebooks}
               new == [req[r] EXCEPT !.pc = "commit", !.added = rows]
    <3>1. req' = [req EXCEPT ![r] = new] /\ req[r].pc = "record"
      BY <1>5, <2>2 DEF RecordNotebooks
    <3>2. rows \subseteq AssignmentFile
      BY DEF Row, AssignmentFile, Paths, NotebookPath
    <3>3. \A f \in rows : f.path \in {NotebookPath(t) : t \in Notebooks}
      BY DEF Row
    <3> HIDE DEF rows
    <3>4. /\ new \in Request /\ new.pc = "commit" /\ new.added = rows
          /\ new.kind = req[r].kind /\ new.next = req[r].next
          /\ new.row = req[r].row
      BY <1>1, <3>2 DEF Request, Steps
    <3> HIDE DEF new
    <3>5. Consistent(new)
      BY <1>1, <3>1, <3>4 DEF Consistent
    <3>6. Follows(req[r], new) /\ StoresFirst(r, new)
      BY <3>1, <3>3, <3>4 DEF Follows, StoresFirst, Stored
    <3> QED BY <3>1, <3>4, <3>5, <3>6 DEF Moves
  <2> QED BY <2>1, <2>2
<1>6. CASE CommitNotebooks(r)
  BY <1>6, NextTaskMoves DEF CommitNotebooks
<1>7. CASE AttachResource(r)
  <2>1. CASE Abort(r)
    BY <1>2, <2>1
  <2>2. CASE ~Abort(r)
    <3> DEFINE k == req[r].next
               path == ResourcePath(k, req[r].names[k])
               pc == IF k = Len(req[r].names) THEN "commitResources" ELSE "attach"
               rows == req[r].added \cup {Row(r, path)}
               new == [req[r] EXCEPT !.pc = pc, !.next = k + 1, !.added = rows]
    <3>1. /\ req' = [req EXCEPT ![r] = new] /\ req[r].pc = "attach"
          /\ blob' = [blob EXCEPT ![path] = r]
      BY <1>7, <2>2 DEF AttachResource
    <3>2. /\ req[r].names \in Seq(Names) /\ Len(req[r].names) \in 0..MaxFiles
          /\ k \in 1..Len(req[r].names)
      BY <1>1, <3>1, PayloadLength DEF Request, Consistent
    <3>3. k \in 1..MaxFiles /\ k + 1 \in 1..MaxFiles + 1 /\ req[r].names[k] \in Names
      BY <3>2, AssignmentFilesAssumption
    <3>4. path \in Paths /\ Row(r, path) \in AssignmentFile
      BY <3>3 DEF ResourcePath, Paths, Row, AssignmentFile
    <3>5. blob'[path] = r /\ Row(r, path).path = path
      BY <3>1, <3>4 DEF TypeInv, TypeOK, Row
    <3>6. rows \subseteq AssignmentFile /\ rows \ req[r].added \subseteq {Row(r, path)}
      BY <1>1, <3>4 DEF Request
    <3>7. pc \in {"attach", "commitResources"}
          /\ (pc = "attach" => k + 1 \in DOMAIN req[r].names)
      BY <3>2, <1>1, PayloadLength DEF Request
    <3> HIDE DEF rows, pc, k, path
    <3>8. /\ new \in Request /\ new.pc = pc /\ new.added = rows
          /\ new.kind = req[r].kind /\ new.next = k + 1
          /\ new.row = req[r].row /\ new.names = req[r].names
      BY <1>1, <3>3, <3>6, <3>7 DEF Request, Steps
    <3> HIDE DEF new
    <3>9. Consistent(new)
      BY <1>1, <3>7, <3>8 DEF Consistent
    <3>10. Follows(req[r], new) /\ StoresFirst(r, new)
      BY <3>5, <3>6, <3>7, <3>8 DEF Follows, StoresFirst, Stored
    <3> QED BY <3>1, <3>8, <3>9, <3>10 DEF Moves
  <2> QED BY <2>1, <2>2
<1>8. CASE ReplaceNotebooks(r)
  <2>1. \/ Abort(r)
        \/ /\ req[r].pc = "replace" /\ blob' = BothStored(r)
           /\ Goto(r, "locate")
    BY <1>8 DEF ReplaceNotebooks
  <2> QED BY <1>2, <1>3, <2>1 DEF Steps, Goto
<1>9. CASE UnlinkResource(r)
  <2>1. req[r].pc = "unlink" /\ (Abort(r) \/ Goto(r, "remove"))
    BY <1>9 DEF UnlinkResource
  <2>2. "remove" \in Steps /\ "remove" \notin Stored
    BY DEF Steps, Stored
  <2>3. CASE Goto(r, "remove")
    BY <1>3, <2>1, <2>2, <2>3 DEF Goto
  <2> QED BY <1>2, <2>1, <2>3
<1>10. CASE ListFiles(r)
  <2>1. req[r].pc = "list" /\ (Abort(r) \/ Goto(r, "clear"))
    BY <1>10 DEF ListFiles
  <2>2. "clear" \in Steps /\ "clear" \notin Stored
    BY DEF Steps, Stored
  <2>3. CASE Goto(r, "clear")
    BY <1>3, <2>1, <2>2, <2>3 DEF Goto
  <2> QED BY <1>2, <2>1, <2>3
<1>11. CASE ClearFiles(r)
  <2> DEFINE new == [req[r] EXCEPT !.pc = "erase", !.locked = files]
  <2>1. req' = [req EXCEPT ![r] = new] /\ req[r].pc = "clear"
    BY <1>11 DEF ClearFiles
  <2>2. /\ new \in Request /\ new.pc = "erase" /\ new.added = req[r].added
        /\ new.kind = req[r].kind /\ new.row = req[r].row
    BY <1>1 DEF Request, Steps, TypeInv, TypeOK
  <2> HIDE DEF new
  <2>3. Consistent(new)
    BY <1>1, <2>1, <2>2 DEF Consistent
  <2> QED BY <2>1, <2>2, <2>3 DEF Moves, Follows, StoresFirst, Stored
<1>12. CASE CommitResources(r) \/ RemoveResource(r) \/ UpdateGrade(r)
  BY <1>2, <1>12 DEF CommitResources, RemoveResource, UpdateGrade
<1>13. CASE EraseAssignment(r) \/ Fail(r) \/ BreakDeadlock(r)
  BY <1>2, <1>13 DEF EraseAssignment, Fail, BreakDeadlock
<1> QED BY <1>4, <1>5, <1>6, <1>7, <1>8, <1>9, <1>10, <1>11, <1>12, <1>13

LEMMA NextNotebookRequest ==
    ASSUME NEW old \in Request, Consistent(old), old.pc = "write"
    PROVE  /\ NextNotebook(old) \in Request
           /\ Consistent(NextNotebook(old))
           /\ NextNotebook(old).pc \in {"locate", "grade"}
           /\ NextNotebook(old).kind = "replace" /\ old.kind = "replace"
           /\ NextNotebook(old).added = old.added
<1> DEFINE new == NextNotebook(old)
<1>1. old.kind = "replace"
  BY DEF Consistent
<1>2. /\ new \in Request /\ new.pc \in {"locate", "grade"} /\ new.kind = old.kind
      /\ new.added = old.added
  BY DEF NextNotebook, Request, Steps, Notebooks
<1> HIDE DEF new
<1>3. Consistent(new)
  BY <1>1, <1>2 DEF Consistent
<1> QED BY <1>1, <1>2, <1>3 DEF new

\* The steps of update_file on the rows of the notebooks.
LEMMA RowMoves ==
    ASSUME TypeInv, NEW r \in Requests,
           LocateFile(r) \/ UpdateFile(r) \/ InsertFile(r)
    PROVE  Moves(r)
<1>1. req[r] \in Request /\ Consistent(req[r])
  BY DEF TypeInv, TypeOK
<1>2. Abort(r) => Moves(r)
  BY EndingMoves
<1>3. CASE LocateFile(r) /\ ~Abort(r)
  <2> DEFINE found == OfType(FilesSeenBy(r), req[r].type)
             row == IF found = {} THEN None ELSE CHOOSE f \in found : TRUE
             new == [req[r] EXCEPT !.pc = "write", !.row = row]
  <2>1. req' = [req EXCEPT ![r] = new] /\ req[r].pc = "locate"
    BY <1>3 DEF LocateFile
  <2>2. found \subseteq AssignmentFile
    BY <1>1 DEF OfType, FilesSeenBy, TypeInv, TypeOK, Request
  <2>3. row \in AssignmentFile \cup {None}
    BY <2>2
  <2> HIDE DEF row
  <2>4. /\ new \in Request /\ new.pc = "write" /\ new.kind = req[r].kind
        /\ new.added = req[r].added
    BY <1>1, <2>3 DEF Request, Steps
  <2>5. req[r].kind = "replace"
    BY <1>1, <2>1 DEF Consistent
  <2> HIDE DEF new
  <2> QED BY <2>1, <2>4, <2>5 DEF Moves, Consistent, Follows, StoresFirst, Stored
<1>4. CASE UpdateFile(r)
  <2> DEFINE next == NextNotebook(req[r])
             rows == req[r].locked \cup ({req[r].row} \cap files)
             new == [next EXCEPT !.locked = rows]
  <2>1. req[r].pc = "write"
    BY <1>4 DEF UpdateFile
  <2>2. NextNotebook(req[r]).locked = req[r].locked
    BY <1>1 DEF NextNotebook, Request
  <2>3. req' = [req EXCEPT ![r] = new]
    BY <1>4, <2>2 DEF UpdateFile
  <2>4. rows \subseteq AssignmentFile
    BY <1>1 DEF Request, TypeInv, TypeOK
  <2>5. /\ next \in Request /\ next.pc \in {"locate", "grade"}
        /\ next.kind = "replace" /\ req[r].kind = "replace"
        /\ next.added = req[r].added
    BY <1>1, <2>1, NextNotebookRequest
  <2> HIDE DEF next, rows
  <2>6. /\ new \in Request /\ new.pc = next.pc /\ new.kind = next.kind
        /\ new.added = next.added
    BY <2>4, <2>5 DEF Request
  <2> HIDE DEF new
  <2> QED BY <2>1, <2>3, <2>5, <2>6 DEF Moves, Consistent, Follows, StoresFirst, Stored
<1>5. CASE InsertFile(r) /\ ~Abort(r)
  <2> DEFINE next == NextNotebook(req[r])
             row == Row(r, NotebookPath(req[r].type))
             rows == req[r].added \cup {row}
             new == [next EXCEPT !.added = rows]
  <2>1. req[r].pc = "write"
    BY <1>5 DEF InsertFile
  <2>2. /\ next \in Request /\ next.pc \in {"locate", "grade"}
        /\ next.kind = "replace" /\ req[r].kind = "replace"
        /\ next.added = req[r].added
    BY <1>1, <2>1, NextNotebookRequest
  <2>3. req' = [req EXCEPT ![r] = new]
    BY <1>5, <2>2 DEF InsertFile
  <2>4. req[r].type \in Notebooks
    BY <1>1 DEF Request
  <2>5. row \in AssignmentFile /\ row.path \in {NotebookPath(t) : t \in Notebooks}
    BY <2>4 DEF Row, AssignmentFile, NotebookPath, Paths
  <2> HIDE DEF row
  <2>6. rows \subseteq AssignmentFile /\ rows \ req[r].added \subseteq {row}
    BY <1>1, <2>5 DEF Request
  <2> HIDE DEF next, rows
  <2>7. /\ new \in Request /\ new.pc = next.pc /\ new.kind = next.kind
        /\ new.added = rows
    BY <2>2, <2>6 DEF Request
  <2> HIDE DEF new
  <2> QED BY <2>1, <2>2, <2>3, <2>5, <2>6, <2>7
         DEF Moves, Consistent, Follows, StoresFirst, Stored
<1> QED BY <1>2, <1>3, <1>4, <1>5

LEMMA EveryMove ==
    ASSUME TypeInv, NEW r \in Requests,
           Arrive(r) \/ Advance(r) \/ Fail(r) \/ BreakDeadlock(r)
    PROVE  Moves(r)
BY ArriveMoves, StorageMoves, RowMoves DEF Advance

LEMMA MoveRecords ==
    ASSUME TypeInv, NEW r \in Requests, Moves(r)
    PROVE  /\ req' \in [Requests -> Request]
           /\ \A q \in Requests : Consistent(req[q])' /\ Follows(req[q], req'[q])
<1>1. PICK new \in Request :
        /\ req' = [req EXCEPT ![r] = new] /\ Consistent(new) /\ Follows(req[r], new)
  BY DEF Moves
<1>2. req \in [Requests -> Request] /\ \A q \in Requests : Consistent(req[q])
  BY DEF TypeInv, TypeOK
<1>3. req' \in [Requests -> Request]
  BY <1>1, <1>2
<1>4. \A q \in Requests : req'[q] = IF q = r THEN new ELSE req[q]
  BY <1>1, <1>2
<1>5. \A q \in Requests : Consistent(req'[q])
  BY <1>1, <1>2, <1>4
<1>6. \A q \in Requests : Follows(req[q], req'[q])
  BY <1>1, <1>4 DEF Follows
<1> QED BY <1>3, <1>5, <1>6 DEF Consistent

\* A step commits no rows but those its own transaction inserted.
CommitsOwn(r) == files' \subseteq files \cup req[r].added

LEMMA StepCommitsOwn ==
    ASSUME NEW r \in Requests,
           Arrive(r) \/ Advance(r) \/ Fail(r) \/ BreakDeadlock(r)
    PROVE  CommitsOwn(r)
<1>1. CASE Arrive(r)
  BY <1>1 DEF Arrive, AddAssignment, UploadAssignmentResources, Begin, CommitsOwn,
              UpdateFilesOfAssignment, DeleteAssignmentResource, DeleteAssignment
<1>2. CASE StoreNotebooks(r) \/ RecordNotebooks(r) \/ AttachResource(r)
           \/ ReplaceNotebooks(r) \/ LocateFile(r) \/ UpdateFile(r) \/ InsertFile(r)
  BY <1>2 DEF StoreNotebooks, RecordNotebooks, AttachResource, ReplaceNotebooks,
              LocateFile, UpdateFile, InsertFile, CommitsOwn
<1>3. CASE UnlinkResource(r) \/ ListFiles(r) \/ ClearFiles(r) \/ Fail(r)
           \/ BreakDeadlock(r)
  BY <1>3 DEF UnlinkResource, ListFiles, ClearFiles, Fail, BreakDeadlock, CommitsOwn
<1>4. CASE CommitNotebooks(r) \/ CommitResources(r) \/ UpdateGrade(r)
  BY <1>4 DEF CommitNotebooks, CommitResources, UpdateGrade, FilesSeenBy, CommitsOwn
<1>5. CASE RemoveResource(r) \/ EraseAssignment(r)
  BY <1>5 DEF RemoveResource, EraseAssignment, CommitsOwn
<1> QED BY <1>1, <1>2, <1>3, <1>4, <1>5 DEF Advance

\* A step stores files of its own, and removes only what it is meant to.
StoresOwn(r) ==
    /\ blob' \in [Paths -> Requests \cup {None}]
    /\ \A p \in Paths :
         blob'[p] = None => \/ blob[p] = None
                            \/ req[r].kind = "delete"
                            \/ req[r].kind = "detach" /\ req[r].row.path = p

LEMMA StepStoresOwn ==
    ASSUME TypeInv, NEW r \in Requests,
           Arrive(r) \/ Advance(r) \/ Fail(r) \/ BreakDeadlock(r)
    PROVE  StoresOwn(r)
<1>1. /\ req[r] \in Request /\ Consistent(req[r])
      /\ blob \in [Paths -> Requests \cup {None}] /\ r # None
  BY AssignmentFilesAssumption DEF TypeInv, TypeOK
<1>2. ASSUME blob' = blob PROVE StoresOwn(r)
  BY <1>1, <1>2 DEF StoresOwn
<1>3. ASSUME NEW path \in Paths, blob' = [blob EXCEPT ![path] = r]
      PROVE  StoresOwn(r)
  BY <1>1, <1>3 DEF StoresOwn
<1>4. ASSUME blob' = BothStored(r) PROVE StoresOwn(r)
  BY <1>1, <1>4 DEF BothStored, StoresOwn
<1>5. ASSUME blob' \in PartlyStored(r) PROVE StoresOwn(r)
  <2>1. NotebookPath("original") \in Paths
    BY DEF NotebookPath, Paths, Notebooks
  <2> QED BY <1>2, <1>3, <1>4, <1>5, <2>1 DEF PartlyStored
<1>6. CASE Arrive(r)
  BY <1>2, <1>6 DEF Arrive, AddAssignment, UploadAssignmentResources, Begin,
              UpdateFilesOfAssignment, DeleteAssignmentResource, DeleteAssignment
<1>7. CASE RecordNotebooks(r) \/ CommitNotebooks(r) \/ CommitResources(r)
           \/ LocateFile(r) \/ UpdateFile(r) \/ InsertFile(r) \/ UpdateGrade(r)
  BY <1>2, <1>7 DEF RecordNotebooks, CommitNotebooks, CommitResources,
                    LocateFile, UpdateFile, InsertFile, UpdateGrade
<1>8. CASE RemoveResource(r) \/ ClearFiles(r) \/ EraseAssignment(r) \/ Fail(r)
           \/ BreakDeadlock(r)
  BY <1>2, <1>8 DEF RemoveResource, ClearFiles, EraseAssignment, Fail, BreakDeadlock
<1>9. CASE StoreNotebooks(r)
  BY <1>4, <1>5, <1>9 DEF StoreNotebooks
<1>10. CASE ReplaceNotebooks(r)
  BY <1>2, <1>4, <1>5, <1>10 DEF ReplaceNotebooks
<1>11. CASE AttachResource(r)
  <2> DEFINE k == req[r].next
             path == ResourcePath(k, req[r].names[k])
  <2>1. k \in 1..Len(req[r].names) /\ req[r].names \in Seq(Names)
        /\ Len(req[r].names) \in 0..MaxFiles
    BY <1>1, <1>11, PayloadLength DEF AttachResource, Consistent, Request
  <2>2. k \in 1..MaxFiles /\ req[r].names[k] \in Names
    BY <2>1, AssignmentFilesAssumption
  <2>3. path \in Paths
    BY <2>2 DEF ResourcePath, Paths
  <2> QED BY <1>3, <1>11, <2>3 DEF AttachResource
<1>12. CASE UnlinkResource(r)
  <2>1. req[r].kind = "detach" /\ req[r].row \in AssignmentFile
    BY <1>1, <1>12 DEF UnlinkResource, Consistent, OfType
  <2> DEFINE path == req[r].row.path
  <2>2. path \in Paths
    BY <2>1 DEF AssignmentFile
  <2>3. blob' = blob \/ blob' = [blob EXCEPT ![path] = None]
    BY <1>12 DEF UnlinkResource
  <2> QED BY <1>1, <1>2, <2>1, <2>2, <2>3 DEF StoresOwn
<1>13. CASE ListFiles(r)
  <2>1. req[r].kind = "delete"
    BY <1>1, <1>13 DEF ListFiles, Consistent
  <2>2. blob' = blob
        \/ \E gone : blob' = [p \in Paths |-> IF p \in gone THEN None ELSE blob[p]]
    BY <1>13 DEF ListFiles
  <2> QED BY <1>1, <2>1, <2>2 DEF StoresOwn
<1> QED BY <1>6, <1>7, <1>8, <1>9, <1>10, <1>11, <1>12, <1>13 DEF Advance

LEMMA StepAssignment ==
    ASSUME TypeInv, NEW r \in Requests,
           Arrive(r) \/ Advance(r) \/ Fail(r) \/ BreakDeadlock(r)
    PROVE  assignment' \in Requests \cup {None} /\ alone' \in BOOLEAN
<1>1. assignment \in Requests \cup {None} /\ alone \in BOOLEAN
  BY DEF TypeInv, TypeOK
<1>2. CASE Arrive(r)
  <2>1. assignment' \in {assignment, r}
    BY <1>2 DEF Arrive, AddAssignment, UploadAssignmentResources,
       UpdateFilesOfAssignment, DeleteAssignmentResource, DeleteAssignment
  <2>2. alone' = (alone /\ \A q \in Requests : req[q].pc \in {"idle", "closed"})
    BY <1>2 DEF Arrive, AddAssignment, UploadAssignmentResources, Begin,
       UpdateFilesOfAssignment, DeleteAssignmentResource, DeleteAssignment
  <2> QED BY <1>1, <2>1, <2>2
<1>3. CASE StoreNotebooks(r) \/ RecordNotebooks(r) \/ CommitNotebooks(r)
           \/ AttachResource(r) \/ CommitResources(r) \/ ReplaceNotebooks(r)
           \/ LocateFile(r) \/ UpdateFile(r) \/ InsertFile(r)
  BY <1>1, <1>3 DEF StoreNotebooks, RecordNotebooks, CommitNotebooks, AttachResource,
     CommitResources, ReplaceNotebooks, LocateFile, UpdateFile, InsertFile
<1>4. CASE UnlinkResource(r) \/ RemoveResource(r) \/ ListFiles(r) \/ ClearFiles(r)
           \/ Fail(r) \/ BreakDeadlock(r)
  BY <1>1, <1>4 DEF UnlinkResource, RemoveResource, ListFiles, ClearFiles, Fail,
     BreakDeadlock
<1>5. CASE UpdateGrade(r) \/ EraseAssignment(r)
  <2>1. assignment' \in {assignment, r, None}
    BY <1>5 DEF UpdateGrade, EraseAssignment
  <2>2. alone' = alone
    BY <1>5 DEF UpdateGrade, EraseAssignment
  <2> QED BY <1>1, <2>1, <2>2
<1> QED BY <1>2, <1>3, <1>4, <1>5 DEF Advance

LEMMA TypeNext == TypeInv /\ [Next]_vars => TypeInv'
<1> SUFFICES ASSUME TypeInv, [Next]_vars PROVE TypeInv'
  OBVIOUS
<1>1. ASSUME NEW r \in Requests,
             Arrive(r) \/ Advance(r) \/ Fail(r) \/ BreakDeadlock(r)
      PROVE  TypeInv'
  <2>1. /\ req' \in [Requests -> Request]
        /\ \A q \in Requests : Consistent(req[q])'
    BY <1>1, EveryMove, MoveRecords
  <2>2. files' \subseteq AssignmentFile
    BY <1>1, StepCommitsOwn DEF CommitsOwn, TypeInv, TypeOK, Request
  <2>3. blob' \in [Paths -> Requests \cup {None}]
    BY <1>1, StepStoresOwn DEF StoresOwn
  <2>4. assignment' \in Requests \cup {None} /\ alone' \in BOOLEAN
    BY <1>1, StepAssignment
  <2> QED BY <2>1, <2>2, <2>3, <2>4 DEF TypeInv, TypeOK
<1>2. CASE UNCHANGED vars
  BY <1>2 DEF vars, TypeInv, TypeOK, Consistent
<1> QED BY <1>1, <1>2 DEF Next, Finished

\* Every variable keeps its declared shape, for any requests, names and MaxFiles.
THEOREM FilesTypeCorrect == Spec => []TypeOK
<1>1. TypeInv => TypeOK
  BY DEF TypeInv
<1> QED BY <1>1, TypeInit, TypeNext, PTL DEF Spec

----
\* A path has its file, or a removal that may take it has begun.
Backed(p) ==
    \/ blob[p] # None
    \/ Started("delete") # {}
    \/ \E r \in Started("detach") : req[r].row.path = p

\* Committed rows are backed, and so are those of open transactions and those
\* that a request which has stored both notebooks may still insert.
BackedInv ==
    /\ TypeInv
    /\ \A f \in files : Backed(f.path)
    /\ \A r \in Requests :
         /\ \A f \in req[r].added : Backed(f.path)
         /\ req[r].pc \in Stored => \A t \in Notebooks : Backed(NotebookPath(t))

LEMMA StaysBacked ==
    ASSUME TypeInv, NEW r \in Requests, Moves(r), StoresOwn(r),
           NEW p \in Paths, Backed(p)
    PROVE  Backed(p)'
<1>1. /\ req' \in [Requests -> Request]
      /\ \A q \in Requests : Follows(req[q], req'[q])
      /\ \A q \in Requests : Consistent(req[q])
  BY MoveRecords DEF TypeInv
<1>2. ASSUME NEW q \in Requests, req[q].kind \in {"delete", "detach"}
      PROVE  /\ req'[q].kind = req[q].kind
             /\ req[q].kind = "detach" => req'[q].row = req[q].row
  BY <1>1, <1>2 DEF Follows, Consistent
<1>3. ASSUME NEW q \in Requests, req[q].kind = "delete" PROVE Backed(p)'
  BY <1>2, <1>3 DEF Backed, Started
<1>4. ASSUME NEW q \in Requests, req[q].kind = "detach", req[q].row.path = p
      PROVE  Backed(p)'
  BY <1>2, <1>4 DEF Backed, Started
<1>5. CASE blob[p] # None
  <2>1. CASE blob'[p] # None
    BY <2>1 DEF Backed
  <2>2. CASE blob'[p] = None
    BY <1>3, <1>4, <1>5, <2>2 DEF StoresOwn
  <2> QED BY <2>1, <2>2
<1> QED BY <1>3, <1>4, <1>5 DEF Backed, Started

LEMMA BackedNext == BackedInv /\ [Next]_vars => BackedInv'
<1> SUFFICES ASSUME BackedInv, [Next]_vars PROVE BackedInv'
  OBVIOUS
<1>1. TypeInv /\ TypeInv'
  BY TypeNext DEF BackedInv
<1>2. ASSUME NEW r \in Requests,
             Arrive(r) \/ Advance(r) \/ Fail(r) \/ BreakDeadlock(r)
      PROVE  BackedInv'
  <2>1. Moves(r) /\ StoresOwn(r) /\ CommitsOwn(r)
    BY <1>1, <1>2, EveryMove, StepStoresOwn, StepCommitsOwn
  <2>2. \A p \in Paths : Backed(p) => Backed(p)'
    BY <1>1, <2>1, StaysBacked
  <2>3. /\ files \subseteq AssignmentFile
        /\ \A q \in Requests : req[q] \in Request
        /\ \A f \in AssignmentFile : f.path \in Paths
        /\ \A t \in Notebooks : NotebookPath(t) \in Paths
    BY <1>1 DEF TypeInv, TypeOK, AssignmentFile, NotebookPath, Paths
  <2>4. PICK new \in Request : req' = [req EXCEPT ![r] = new] /\ StoresFirst(r, new)
    BY <2>1 DEF Moves
  <2>5. \A q \in Requests : req'[q] = IF q = r THEN new ELSE req[q]
    BY <1>1, <2>4 DEF TypeInv, TypeOK
  <2>6. \A f \in files' : Backed(f.path)'
    <3>1. \A f \in files \cup req[r].added : f.path \in Paths /\ Backed(f.path)
      BY <2>3 DEF BackedInv, Request
    <3> QED BY <2>1, <2>2, <3>1 DEF CommitsOwn
  <2>7. ASSUME NEW t \in Notebooks, req[r].pc \in Stored \/ blob' = BothStored(r)
        PROVE  Backed(NotebookPath(t))'
    <3>1. CASE req[r].pc \in Stored
      BY <2>2, <2>3, <3>1 DEF BackedInv
    <3>2. CASE blob' = BothStored(r)
      <4>1. NotebookPath(t).type = t /\ r # None
        BY AssignmentFilesAssumption DEF NotebookPath
      <4>2. blob'[NotebookPath(t)] = r
        BY <2>3, <3>2, <4>1 DEF BothStored
      <4> QED BY <4>1, <4>2 DEF Backed
    <3> QED BY <2>7, <3>1, <3>2
  <2>8. ASSUME NEW f \in new.added PROVE Backed(f.path)'
    <3>1. CASE f \in req[r].added
      BY <2>2, <2>3, <3>1 DEF BackedInv, Request
    <3>2. CASE blob'[f.path] = r
      BY <3>2, AssignmentFilesAssumption DEF Backed
    <3>3. CASE req[r].pc \in Stored /\ f.path \in {NotebookPath(t) : t \in Notebooks}
      BY <2>7, <3>3
    <3> QED BY <2>4, <2>8, <3>1, <3>2, <3>3 DEF StoresFirst
  <2>9. ASSUME NEW q \in Requests, NEW f \in req'[q].added PROVE Backed(f.path)'
    <3>1. CASE q = r
      BY <2>5, <2>8, <2>9, <3>1
    <3>2. CASE q # r
      BY <2>2, <2>3, <2>5, <2>9, <3>2 DEF BackedInv, Request
    <3> QED BY <3>1, <3>2
  <2>10. ASSUME NEW q \in Requests, req'[q].pc \in Stored, NEW t \in Notebooks
         PROVE  Backed(NotebookPath(t))'
    <3>1. CASE q = r
      BY <2>4, <2>5, <2>7, <2>10, <3>1 DEF StoresFirst
    <3>2. CASE q # r
      BY <2>2, <2>3, <2>5, <2>10, <3>2 DEF BackedInv
    <3> QED BY <3>1, <3>2
  <2> QED BY <1>1, <2>6, <2>9, <2>10 DEF BackedInv
<1>3. CASE UNCHANGED vars
  BY <1>1, <1>3 DEF vars, BackedInv, Backed, Started
<1> QED BY <1>2, <1>3 DEF Next, Finished

\* A committed row has its Dropbox file until a deletion that may take it
\* begins, whatever requests overlap and fail and whatever they are given.
THEOREM RowsAlwaysBacked == Spec => []RowsBacked
<1>1. Init => BackedInv
  <2>1. Init => \A r \in Requests : req[r].added = {} /\ req[r].pc = "idle"
    BY DEF Init, Idle
  <2> QED BY <2>1, TypeInit DEF Init, BackedInv, Stored
<1>2. BackedInv => RowsBacked
  BY DEF BackedInv, Backed, RowsBacked
<1> QED BY <1>1, <1>2, BackedNext, PTL DEF Spec

----
(* The deletion of the assignment *)

\* A request that has not begun is blank; one that deletes inserts nothing.
Fresh(r) ==
    /\ req[r].pc = "idle" => req[r] = Idle
    /\ req[r].kind = "delete" =>
         /\ req[r].pc \in {"list", "clear", "erase", "closed"}
         /\ req[r].added = {}

\* Rows are inserted for an assignment, and its deletion waits for those who
\* insert them; an assignment is created once, and nobody deletes one before.
DeletionInv ==
    /\ TypeInv
    /\ \A r \in Requests : Fresh(r)
    /\ assignment # None \/ Started("delete") # {} => Started("create") # {}
    /\ assignment = None => files = {} /\ \A r \in Requests : req[r].added = {}
    /\ DeletionIsFinal


\* What a step leaves of what its request was for and what became of it; rows are
\* inserted for an assignment only, and a deletion ends well only by erasing it.
Remembers(r) ==
    LET old == req[r]
        new == req'[r]
    IN  /\ old.failed => new.failed
        /\ old.pc # "idle" => new.owner = old.owner
        /\ new.pc # "idle"
        /\ new.kind = "delete" =>
             /\ new.pc \in {"list", "clear", "erase", "closed"}
             /\ new.added = {}
        /\ new.added \subseteq old.added \/ assignment # None
        /\ new.kind = "delete" /\ new.pc = "closed" => new.failed \/ EraseAssignment(r)

LEMMA EndedFields ==
    ASSUME NEW old \in Request, NEW failed \in BOOLEAN
    PROVE  /\ Ended(old, failed).pc = "closed"
           /\ Ended(old, failed).kind = old.kind
           /\ Ended(old, failed).owner = old.owner
           /\ Ended(old, failed).added = {}
           /\ old.failed \/ failed => Ended(old, failed).failed
<1>1. Ended(old, failed).failed = (old.failed \/ failed)
  BY DEF Ended, Idle
<1>2. /\ Ended(old, failed).pc = "closed"
      /\ Ended(old, failed).kind = old.kind
      /\ Ended(old, failed).owner = old.owner
      /\ Ended(old, failed).added = {}
  BY DEF Ended, Idle
<1> QED BY <1>1, <1>2

LEMMA EndingRemembers ==
    ASSUME TypeInv, NEW r \in Requests, NEW failed \in BOOLEAN,
           req' = [req EXCEPT ![r] = Ended(req[r], failed)],
           req[r].kind = "delete" => failed \/ EraseAssignment(r)
    PROVE  Remembers(r)
<1>1. req[r] \in Request /\ req'[r] = Ended(req[r], failed)
  BY DEF TypeInv, TypeOK
<1> QED BY <1>1, EndedFields DEF Remembers

LEMMA AbortRemembers ==
    ASSUME TypeInv, NEW r \in Requests, Abort(r)
    PROVE  Remembers(r) /\ req'[r].failed
<1>1. req[r] \in Request /\ req' = [req EXCEPT ![r] = Ended(req[r], TRUE)]
  BY DEF TypeInv, TypeOK, Abort
<1>2. req'[r].failed
  BY <1>1, EndedFields DEF TypeInv, TypeOK
<1> QED BY <1>1, <1>2, EndingRemembers

LEMMA CloseRemembers ==
    ASSUME TypeInv, NEW r \in Requests, Close(r),
           req[r].kind = "delete" => EraseAssignment(r)
    PROVE  Remembers(r)
BY EndingRemembers DEF Close

LEMMA GotoRemembers ==
    ASSUME TypeInv, NEW r \in Requests, NEW pc \in Steps, Goto(r, pc), Fresh(r),
           req[r].kind = "delete" => pc \in {"list", "clear", "erase"}
    PROVE  Remembers(r)
<1>1. req'[r] = [req[r] EXCEPT !.pc = pc] /\ req[r] \in Request
  BY DEF Goto, TypeInv, TypeOK
<1>2. /\ req'[r].pc = pc /\ req'[r].failed = req[r].failed
      /\ req'[r].owner = req[r].owner /\ req'[r].added = req[r].added
      /\ req'[r].kind = req[r].kind
  BY <1>1 DEF Request
<1> HIDE DEF Goto
<1> QED BY <1>2 DEF Remembers, Steps, Fresh

LEMMA NextTaskRemembers ==
    ASSUME TypeInv, NEW r \in Requests, NEW failed \in BOOLEAN, NextTask(r, failed),
           req[r].kind # "delete"
    PROVE  Remembers(r)
<1>1. req[r] \in Request
  BY DEF TypeInv, TypeOK
<1>2. CASE req[r].names = <<>>
  BY <1>2, EndingRemembers DEF NextTask, TypeInv, TypeOK
<1>3. CASE req[r].names # <<>>
  <2>1. req'[r] = [req[r] EXCEPT !.pc = "attach", !.added = {},
                                 !.failed = req[r].failed \/ failed]
    BY <1>3 DEF NextTask, TypeInv, TypeOK
  <2> QED BY <1>1, <2>1 DEF Remembers, Request
<1> QED BY <1>2, <1>3

LEMMA ArriveRemembers ==
    ASSUME TypeInv, NEW r \in Requests, Fresh(r), Arrive(r)
    PROVE  Remembers(r)
<1>1. req[r].pc = "idle" => ~req[r].failed
  BY DEF Fresh, Idle
<1>2. /\ req[r].pc = "idle" /\ req'[r].added = {}
      /\ req'[r].pc \in {"store", "attach", "replace", "unlink", "list"}
      /\ req'[r].kind = "delete" => req'[r].pc = "list"
  <2> USE DEF Begin, Idle, TypeInv, TypeOK
  <2>1. CASE \E names \in Payloads : AddAssignment(r, names)
    BY <2>1 DEF AddAssignment
  <2>2. CASE \E names \in Payloads : UploadAssignmentResources(r, names)
    BY <2>2 DEF UploadAssignmentResources
  <2>3. CASE UpdateFilesOfAssignment(r)
    BY <2>3 DEF UpdateFilesOfAssignment
  <2>4. CASE \E f \in files : DeleteAssignmentResource(r, f)
    BY <2>4 DEF DeleteAssignmentResource
  <2>5. CASE \E owner \in BOOLEAN : DeleteAssignment(r, owner)
    BY <2>5 DEF DeleteAssignment
  <2> QED BY <2>1, <2>2, <2>3, <2>4, <2>5 DEF Arrive
<1> QED BY <1>1, <1>2 DEF Remembers

LEMMA StepRemembers ==
    ASSUME TypeInv, NEW r \in Requests, Fresh(r),
           Arrive(r) \/ Advance(r) \/ Fail(r) \/ BreakDeadlock(r)
    PROVE  Remembers(r)
<1>0. req[r] \in Request /\ Consistent(req[r])
  BY DEF TypeInv, TypeOK
<1>1. CASE Abort(r)
  BY <1>1, AbortRemembers
<1>2. req[r].pc \in Steps \ {"list", "clear", "erase"} => req[r].kind # "delete"
  BY DEF Fresh, Steps
<1>3. CASE StoreNotebooks(r) \/ CommitNotebooks(r)
  BY <1>2, <1>3, GotoRemembers, NextTaskRemembers
     DEF StoreNotebooks, CommitNotebooks, Steps
<1>4. ASSUME RecordNotebooks(r), ~NextTask(r, TRUE) PROVE Remembers(r)
  <2>1. /\ req[r].pc = "record" /\ assignment # None
        /\ req' = [req EXCEPT ![r].pc = "commit",
                     ![r].added = {Row(r, NotebookPath(t)) : t \in Notebooks}]
    BY <1>4 DEF RecordNotebooks
  <2> QED BY <1>0, <1>2, <2>1 DEF Remembers, TypeInv, TypeOK, Request, Steps
<1>5. ASSUME RecordNotebooks(r), NextTask(r, TRUE) PROVE Remembers(r)
  BY <1>2, <1>5, NextTaskRemembers DEF RecordNotebooks, Steps
<1>6. ASSUME AttachResource(r), ~Abort(r) PROVE Remembers(r)
  <2> DEFINE path == ResourcePath(req[r].next, req[r].names[req[r].next])
             pc == IF req[r].next = Len(req[r].names) THEN "commitResources" ELSE "attach"
             n == req[r].next + 1
             rows == req[r].added \cup {Row(r, path)}
  <2>1. /\ req[r].pc = "attach" /\ assignment # None
        /\ req' = [req EXCEPT ![r].pc = pc, ![r].next = n, ![r].added = rows]
    BY <1>6 DEF AttachResource
  <2>2. pc \in {"attach", "commitResources"}
    OBVIOUS
  <2> HIDE DEF pc, n, rows, path
  <2> QED BY <1>0, <1>2, <2>1, <2>2 DEF Remembers, TypeInv, TypeOK, Request, Steps
<1>7. CASE CommitResources(r) \/ UpdateGrade(r) \/ RemoveResource(r)
  BY <1>2, <1>7, CloseRemembers DEF CommitResources, UpdateGrade, RemoveResource, Steps
<1>8. ASSUME ReplaceNotebooks(r) \/ UnlinkResource(r) \/ ListFiles(r), ~Abort(r)
      PROVE  Remembers(r)
  BY <1>2, <1>8, GotoRemembers DEF ReplaceNotebooks, UnlinkResource, ListFiles, Steps
<1>9. ASSUME LocateFile(r), ~Abort(r) PROVE Remembers(r)
  <2>1. PICK f : /\ req[r].pc = "locate"
                 /\ req' = [req EXCEPT ![r].pc = "write", ![r].row = f]
    BY <1>9 DEF LocateFile
  <2> QED BY <1>0, <1>2, <2>1 DEF Remembers, TypeInv, TypeOK, Request, Steps
<1>10. CASE UpdateFile(r)
  <2>1. PICK rows : /\ req[r].pc = "write"
                    /\ req' = [req EXCEPT ![r] = [NextNotebook(req[r]) EXCEPT
                                                    !.locked = rows]]
    BY <1>10 DEF UpdateFile
  <2>2. req'[r] = [NextNotebook(req[r]) EXCEPT !.locked = rows]
    BY <2>1 DEF TypeInv, TypeOK
  <2> QED BY <1>0, <1>2, <2>1, <2>2 DEF Remembers, NextNotebook, Request, Steps
<1>11. ASSUME InsertFile(r), ~Abort(r) PROVE Remembers(r)
  <2>1. PICK rows : /\ req[r].pc = "write" /\ assignment # None
                    /\ req' = [req EXCEPT ![r] = [NextNotebook(req[r]) EXCEPT
                                                    !.added = rows]]
    BY <1>11 DEF InsertFile
  <2>2. req'[r] = [NextNotebook(req[r]) EXCEPT !.added = rows]
    BY <2>1 DEF TypeInv, TypeOK
  <2> QED BY <1>0, <1>2, <2>1, <2>2 DEF Remembers, NextNotebook, Request, Steps
<1>12. CASE ClearFiles(r)
  BY <1>0, <1>12 DEF ClearFiles, Remembers, TypeInv, TypeOK, Request, Fresh
<1>13. ASSUME EraseAssignment(r), ~Abort(r) PROVE Remembers(r)
  BY <1>13, CloseRemembers DEF EraseAssignment
<1> QED BY <1>1, <1>3, <1>4, <1>5, <1>6, <1>7, <1>8, <1>9, <1>10, <1>11, <1>12,
           <1>13, ArriveRemembers DEF Advance, Fail, BreakDeadlock


\* What becomes of the assignment in a step.
LEMMA WhoAssigns ==
    ASSUME NEW r \in Requests,
           Arrive(r) \/ Advance(r) \/ Fail(r) \/ BreakDeadlock(r)
    PROVE  \/ assignment' = assignment
           \/ assignment # None /\ (UpdateGrade(r) \/ EraseAssignment(r))
           \/ \E names \in Payloads : AddAssignment(r, names)
<1>1. CASE Arrive(r)
  BY <1>1 DEF Arrive, UploadAssignmentResources, UpdateFilesOfAssignment,
              DeleteAssignmentResource, DeleteAssignment
<1>2. CASE UpdateGrade(r) \/ EraseAssignment(r)
  BY <1>2 DEF UpdateGrade, EraseAssignment
<1>3. CASE StoreNotebooks(r) \/ RecordNotebooks(r) \/ CommitNotebooks(r)
           \/ AttachResource(r) \/ CommitResources(r) \/ ReplaceNotebooks(r)
           \/ LocateFile(r) \/ UpdateFile(r) \/ InsertFile(r)
  BY <1>3 DEF StoreNotebooks, RecordNotebooks, CommitNotebooks, AttachResource,
     CommitResources, ReplaceNotebooks, LocateFile, UpdateFile, InsertFile
<1>4. CASE UnlinkResource(r) \/ RemoveResource(r) \/ ListFiles(r) \/ ClearFiles(r)
           \/ Fail(r) \/ BreakDeadlock(r)
  BY <1>4 DEF UnlinkResource, RemoveResource, ListFiles, ClearFiles, Fail,
     BreakDeadlock
<1> QED BY <1>1, <1>2, <1>3, <1>4 DEF Advance

LEMMA OnlyIdleArrive ==
    ASSUME NEW r \in Requests, Advance(r) \/ Fail(r) \/ BreakDeadlock(r)
    PROVE  req[r].pc \in Steps
<1>1. CASE StoreNotebooks(r) \/ RecordNotebooks(r) \/ CommitNotebooks(r)
           \/ AttachResource(r) \/ CommitResources(r) \/ ReplaceNotebooks(r)
           \/ LocateFile(r) \/ UpdateFile(r) \/ InsertFile(r)
  BY <1>1 DEF StoreNotebooks, RecordNotebooks, CommitNotebooks, AttachResource,
     CommitResources, ReplaceNotebooks, LocateFile, UpdateFile, InsertFile, Steps
<1>2. CASE UnlinkResource(r) \/ RemoveResource(r) \/ ListFiles(r) \/ ClearFiles(r)
           \/ Fail(r) \/ UpdateGrade(r) \/ EraseAssignment(r)
  BY <1>2 DEF UnlinkResource, RemoveResource, ListFiles, ClearFiles, Fail,
     UpdateGrade, EraseAssignment, Steps
<1>3. CASE BreakDeadlock(r)
  BY <1>3 DEF BreakDeadlock, WaitsFor, Steps
<1> QED BY <1>1, <1>2, <1>3 DEF Advance

LEMMA WhoDeletes ==
    ASSUME TypeInv, NEW r \in Requests, Arrive(r), req'[r].kind = "delete"
    PROVE  assignment # None
BY DEF Arrive, AddAssignment, UploadAssignmentResources, Begin, Idle, TypeInv, TypeOK,
       UpdateFilesOfAssignment, DeleteAssignmentResource, DeleteAssignment

LEMMA AddingBegins ==
    ASSUME TypeInv, NEW r \in Requests, NEW names \in Payloads,
           AddAssignment(r, names)
    PROVE  /\ Started("create") = {} /\ req'[r].kind = "create"
           /\ req'[r].pc = "store" /\ req'[r].added = {}
           /\ assignment' = r /\ files' = files /\ blob' = blob
BY DEF AddAssignment, Started, Begin, Idle, TypeInv, TypeOK

\* An assignment that is deleted by its owner leaves nothing behind, neither
\* rows nor transactions that insert some.
LEMMA ErasedForGood ==
    ASSUME DeletionInv, NEW r \in Requests,
           Arrive(r) \/ Advance(r) \/ Fail(r) \/ BreakDeadlock(r), assignment' = None
    PROVE  files' = {} /\ \A q \in Requests : req'[q].added = {}
<1>1. /\ TypeInv /\ Fresh(r) /\ Remembers(r) /\ Moves(r) /\ CommitsOwn(r)
  BY StepRemembers, EveryMove, StepCommitsOwn DEF DeletionInv
<1>2. /\ \A q \in Requests \ {r} : req'[q] = req[q]
      /\ r # None
  BY <1>1, AssignmentFilesAssumption DEF Moves
<1>3. CASE assignment = None
  BY <1>1, <1>2, <1>3 DEF DeletionInv, Remembers, CommitsOwn
<1>4. CASE assignment # None
  <2>1. EraseAssignment(r)
    BY <1>2, <1>4, WhoAssigns DEF UpdateGrade, AddAssignment
  <2>2. req[r].owner /\ ~Waiting(r) /\ files = req[r].locked
        /\ files' = files \ req[r].locked /\ Close(r) /\ req[r].pc = "erase"
    BY <1>4, <2>1 DEF EraseAssignment
  <2>3. \A q \in Requests \ {r} : req[q].added = {}
    BY <2>2 DEF Waiting, WaitsFor
  <2>4. req'[r].added = {}
    BY <1>1, <2>2, EndedRequest DEF Close, TypeInv, TypeOK
  <2> QED BY <1>2, <2>2, <2>3, <2>4
<1> QED BY <1>3, <1>4

LEMMA DeletionStep ==
    ASSUME DeletionInv, NEW r \in Requests,
           Arrive(r) \/ Advance(r) \/ Fail(r) \/ BreakDeadlock(r)
    PROVE  DeletionInv'
<1>1. /\ TypeInv /\ Fresh(r) /\ Remembers(r) /\ Moves(r)
      /\ \A q \in Requests : Fresh(q) /\ Follows(req[q], req'[q]) /\ Consistent(req[q])
  BY StepRemembers, EveryMove, MoveRecords DEF DeletionInv, TypeInv
<1>2. TypeInv'
  BY <1>1, TypeNext DEF Next
<1>3. \A q \in Requests \ {r} : req'[q] = req[q]
  BY <1>1 DEF Moves
<1>4. \A q \in Requests : Fresh(q)'
  BY <1>1, <1>3 DEF Remembers, Fresh
<1>5. Started("create") # {} => Started("create")' # {}
  BY <1>1 DEF Follows, Consistent, Started
<1>6. assignment' # None \/ Started("delete")' # {} => Started("create")' # {}
  <2>1. CASE Started("create") # {}
    BY <1>5, <2>1
  <2>2. CASE Started("create") = {}
    <3>1. assignment = None /\ Started("delete") = {}
      BY <2>2 DEF DeletionInv
    <3>2. CASE \E names \in Payloads : AddAssignment(r, names)
      BY <1>1, <3>2, AddingBegins DEF Started
    <3>3. CASE assignment' = None
      <4>1. req'[r].kind # "delete"
        BY <1>1, <3>1, OnlyIdleArrive, WhoDeletes DEF Follows, Started, Steps
      <4> QED BY <1>3, <3>1, <3>3, <4>1 DEF Started
    <3> QED BY <3>1, <3>2, <3>3, WhoAssigns
  <2> QED BY <2>1, <2>2
<1>7. assignment' = None => files' = {} /\ \A q \in Requests : req'[q].added = {}
  BY ErasedForGood
<1>8. DeletionIsFinal'
  <2> SUFFICES ASSUME NEW q \in Requests, req'[q].kind = "delete", req'[q].owner,
                      req'[q].pc = "closed", ~req'[q].failed
               PROVE  assignment' = None
    BY <1>7 DEF DeletionIsFinal, Started
  <2>1. CASE q = r /\ EraseAssignment(r)
    <3>1. req[r].pc = "erase" /\ ~Abort(r) /\ req[r].owner
      BY <1>1, <2>1, AbortRemembers DEF EraseAssignment, Remembers
    <3> QED BY <2>1, <3>1 DEF EraseAssignment
  <2>2. CASE q # r
    <3>1. req[q] = req'[q] /\ q \in Started("delete")
      BY <1>3, <2>2 DEF Started
    <3>2. assignment = None /\ Started("create") # {}
      BY <3>1 DEF DeletionInv, DeletionIsFinal
    <3> QED BY <1>1, <3>2, WhoAssigns, AddingBegins
  <2> QED BY <1>1, <2>1, <2>2 DEF Remembers
<1> QED BY <1>2, <1>4, <1>6, <1>7, <1>8 DEF DeletionInv


LEMMA DeletionHolds == Spec => []DeletionInv
<1>1. Init => DeletionInv
  <2> SUFFICES ASSUME Init PROVE DeletionInv
    OBVIOUS
  <2>1. \A r \in Requests : req[r] = Idle
    BY DEF Init
  <2>2. \A r \in Requests : req[r].kind = "none" /\ req[r].added = {}
    BY <2>1 DEF Idle
  <2> QED BY <2>1, <2>2, TypeInit
          DEF Init, DeletionInv, Fresh, Started, DeletionIsFinal
<1>2. DeletionInv /\ [Next]_vars => DeletionInv'
  <2>1. DeletionInv /\ UNCHANGED vars => DeletionInv'
    <3> SUFFICES ASSUME DeletionInv, UNCHANGED vars PROVE DeletionInv'
      OBVIOUS
    <3>1. TypeInv'
      BY TypeNext DEF DeletionInv
    <3> QED BY <3>1 DEF vars, DeletionInv, Fresh, Started, DeletionIsFinal
  <2> QED BY <2>1, DeletionStep DEF Next, Finished
<1> QED BY <1>1, <1>2, PTL DEF Spec

\* Once a deletion by the owner has committed, no request that was under way,
\* and none that begins later, brings back the assignment or leaves a row of it.
THEOREM DeletedForGood == Spec => []DeletionIsFinal
<1>1. DeletionInv => DeletionIsFinal
  BY DEF DeletionInv
<1> QED BY <1>1, DeletionHolds, PTL

----
\* What a step does to the two notebooks.
Untouched == \A t \in Notebooks : blob'[NotebookPath(t)] = blob[NotebookPath(t)]

Cleared ==
    \E gone : blob' = [p \in Paths |-> IF p \in gone THEN None ELSE blob[p]]

LEMMA NotebookPaths ==
    /\ \A t \in Notebooks : NotebookPath(t) \in Paths /\ NotebookPath(t).type = t
    /\ "resource" \notin Notebooks
BY DEF NotebookPath, Paths, Notebooks

LEMMA ResourcesApart ==
    ASSUME TypeInv, NEW path, path.type = "resource", NEW x,
           blob' = [blob EXCEPT ![path] = x]
    PROVE  Untouched
<1>1. \A t \in Notebooks : NotebookPath(t) # path
  BY NotebookPaths
<1> QED BY <1>1, NotebookPaths DEF Untouched, TypeInv, TypeOK

LEMMA NextTaskFails ==
    ASSUME TypeInv, NEW r \in Requests, NextTask(r, TRUE)
    PROVE  req'[r].failed
<1>1. CASE req[r].names = <<>>
  <2>1. Abort(r)
    BY <1>1 DEF NextTask, Abort
  <2> QED BY <2>1, AbortRemembers
<1>2. CASE req[r].names # <<>>
  <2>1. req'[r] = [req[r] EXCEPT !.pc = "attach", !.added = {}, !.failed = TRUE]
    BY <1>2 DEF NextTask, TypeInv, TypeOK
  <2> QED BY <2>1 DEF TypeInv, TypeOK, Request
<1> QED BY <1>1, <1>2

LEMMA StepOnNotebooks ==
    ASSUME TypeInv, NEW r \in Requests,
           Arrive(r) \/ Advance(r) \/ Fail(r) \/ BreakDeadlock(r)
    PROVE  \/ Untouched
           \/ blob' = BothStored(r) /\ (StoreNotebooks(r) \/ ReplaceNotebooks(r))
           \/ ListFiles(r) /\ Cleared
           \/ req'[r].failed
<1>0. /\ req[r] \in Request /\ Consistent(req[r])
      /\ blob' = blob => Untouched
  BY DEF TypeInv, TypeOK, Untouched
<1>1. CASE Abort(r)
  BY <1>1, AbortRemembers
<1>2. CASE Arrive(r)
  BY <1>0, <1>2 DEF Arrive, AddAssignment, UploadAssignmentResources, Begin,
              UpdateFilesOfAssignment, DeleteAssignmentResource, DeleteAssignment
<1>3. CASE RecordNotebooks(r) \/ CommitNotebooks(r) \/ CommitResources(r)
           \/ LocateFile(r) \/ UpdateFile(r) \/ InsertFile(r) \/ UpdateGrade(r)
  BY <1>0, <1>3 DEF RecordNotebooks, CommitNotebooks, CommitResources,
                    LocateFile, UpdateFile, InsertFile, UpdateGrade
<1>4. CASE RemoveResource(r) \/ ClearFiles(r) \/ EraseAssignment(r) \/ Fail(r)
           \/ BreakDeadlock(r)
  BY <1>0, <1>4 DEF RemoveResource, ClearFiles, EraseAssignment, Fail, BreakDeadlock
<1>5. CASE StoreNotebooks(r)
  BY <1>5, NextTaskFails DEF StoreNotebooks
<1>6. ASSUME ReplaceNotebooks(r), ~Abort(r) PROVE blob' = BothStored(r)
  BY <1>6 DEF ReplaceNotebooks
<1>7. CASE AttachResource(r)
  <2>1. ResourcePath(req[r].next, req[r].names[req[r].next]).type = "resource"
    BY DEF ResourcePath
  <2> QED BY <1>7, <2>1, ResourcesApart DEF AttachResource
<1>8. ASSUME UnlinkResource(r), ~Abort(r) PROVE Untouched
  <2>1. req[r].row.path.type = "resource"
    BY <1>0, <1>8 DEF UnlinkResource, Consistent, OfType
  <2> QED BY <1>8, <2>1, ResourcesApart DEF UnlinkResource
<1>9. ASSUME ListFiles(r), ~Abort(r) PROVE Cleared
  BY <1>9 DEF ListFiles, Cleared
<1> QED BY <1>1, <1>2, <1>3, <1>4, <1>5, <1>6, <1>7, <1>8, <1>9 DEF Advance


\* The stored original and modified notebook are of one version until an upload
\* fails, whatever requests overlap: no other request runs between the uploads.
THEOREM NotebooksOfOneVersion == Spec => []NotebooksMatch
<1>1. Init => NotebooksMatch
  BY NotebookPaths DEF Init, NotebooksMatch, Notebooks
<1>2. DeletionInv /\ NotebooksMatch /\ [Next]_vars => NotebooksMatch'
  <2> SUFFICES ASSUME DeletionInv, NotebooksMatch, [Next]_vars
               PROVE  NotebooksMatch'
    OBVIOUS
  <2>1. TypeInv
    BY DEF DeletionInv
  <2>2. ASSUME NEW r \in Requests,
               Arrive(r) \/ Advance(r) \/ Fail(r) \/ BreakDeadlock(r)
        PROVE  NotebooksMatch'
    <3>1. /\ \A q \in Requests \ {r} : req'[q] = req[q]
          /\ req[r].failed => req'[r].failed
      <4>1. Moves(r) /\ Remembers(r)
        BY <2>1, <2>2, StepRemembers, EveryMove DEF DeletionInv
      <4> QED BY <4>1 DEF Moves, Remembers
    <3>2. (\E q \in Requests : req[q].failed) => \E q \in Requests : req'[q].failed
      BY <3>1
    <3>3. CASE Untouched
      BY <3>2, <3>3 DEF Untouched, NotebooksMatch, Notebooks
    <3>4. CASE blob' = BothStored(r)
      BY <3>4, NotebookPaths DEF BothStored, NotebooksMatch, Notebooks
    <3>5. CASE Cleared
      <4>1. PICK gone :
              blob' = [p \in Paths |-> IF p \in gone THEN None ELSE blob[p]]
        BY <3>5 DEF Cleared
      <4>2. \A t \in Notebooks : \/ blob'[NotebookPath(t)] = None
                                 \/ blob'[NotebookPath(t)] = blob[NotebookPath(t)]
        BY <4>1, NotebookPaths
      <4> QED BY <3>2, <4>2 DEF NotebooksMatch, Notebooks
    <3>6. CASE req'[r].failed
      BY <3>6 DEF NotebooksMatch
    <3> QED BY <2>1, <2>2, <3>3, <3>4, <3>5, <3>6, StepOnNotebooks
  <2>3. CASE UNCHANGED vars
    BY <2>3 DEF vars, NotebooksMatch
  <2> QED BY <2>2, <2>3 DEF Next, Finished
<1> QED BY <1>1, <1>2, DeletionHolds, PTL DEF Spec


----
(* Requests that are made one after another *)

Recorded == \A t \in Notebooks : \E f \in files : OfType(files, t) = {f}

Unrecorded == \A t \in Notebooks : OfType(files, t) = {}

Holds(x) == \A t \in Notebooks : blob[NotebookPath(t)] = x

\* No request failed, overlapped another one or deletes the assignment.
Quietly ==
    /\ alone /\ Started("delete") = {}
    /\ \A r \in Requests : ~req[r].failed

\* What a request finds and leaves, when no other one runs.
Orderly(r) ==
    /\ req[r].pc \in {"store", "record", "commit"} => Unrecorded /\ assignment = r
    /\ req[r].pc \in {"store", "record"} => req[r].added = {}
    /\ req[r].pc = "commit" =>
         req[r].added = {Row(r, NotebookPath(t)) : t \in Notebooks}
    /\ req[r].pc \in Stored => Holds(r)
    /\ req[r].pc \in {"attach", "commitResources"} =>
         \A f \in req[r].added : f.path.type = "resource"
    /\ req[r].pc \in {"attach", "commitResources", "replace", "unlink", "remove"} =>
         Recorded /\ Holds(assignment)
    /\ req[r].pc \in {"replace", "locate", "write", "grade"} =>
         Recorded /\ req[r].added = {}
    /\ req[r].pc = "write" => req[r].row # None

UpdatesInv ==
    Quietly =>
        /\ \A q, r \in Requests : req[q].pc \in Steps /\ req[r].pc \in Steps => q = r
        /\ \A r \in Requests : Orderly(r)
        /\ (\E r \in Requests : req[r].pc # "idle") => assignment # None
        /\ assignment # None /\ (\A r \in Requests : req[r].pc \notin Steps)
             => Recorded /\ Holds(assignment)

\* One row of each notebook, which changes when one of the rows does.
LEMMA SameNotebooks ==
    ASSUME OfType(files', "original") = OfType(files, "original"),
           OfType(files', "modified") = OfType(files, "modified")
    PROVE  (Recorded => Recorded') /\ (Unrecorded => Unrecorded')
<1>1. \A t \in Notebooks : OfType(files', t) = OfType(files, t)
  BY DEF Notebooks
<1>2. ASSUME Recorded, NEW t \in Notebooks
      PROVE  \E f \in files' : OfType(files', t) = {f}
  <2>1. PICK f \in files : OfType(files, t) = {f}
    BY <1>2 DEF Recorded
  <2>2. f \in files'
    BY <1>1, <2>1 DEF OfType
  <2> QED BY <1>1, <2>1, <2>2
<1> QED BY <1>1, <1>2 DEF Recorded, Unrecorded

\* What a request that runs alone leaves behind it.
Done(r) ==
    /\ Orderly(r)
    /\ req[r].pc \notin Steps => Recorded /\ Holds(assignment)

LEMMA EndedDone ==
    ASSUME TypeInv, NEW r \in Requests, Close(r), Recorded', Holds(assignment)'
    PROVE  Done(r)'
<1>1. req'[r].pc = "closed"
  BY EndedRequest DEF Close, TypeInv, TypeOK
<1> QED BY <1>1 DEF Done, Orderly, Stored

LEMMA CreateDone ==
    ASSUME TypeInv, NEW r \in Requests, Orderly(r), ~req'[r].failed,
           StoreNotebooks(r) \/ RecordNotebooks(r) \/ CommitNotebooks(r)
    PROVE  Done(r)'
<1>0. /\ req[r] \in Request /\ Consistent(req[r])
      /\ \A t \in Notebooks : NotebookPath(t) \in Paths /\ NotebookPath(t).type = t
  BY NotebookPaths DEF TypeInv, TypeOK
<1>1. ASSUME NextTask(r, TRUE) PROVE FALSE
  BY <1>1, NextTaskFails
<1>2. CASE StoreNotebooks(r)
  <2>1. req[r].pc = "store" /\ Goto(r, "record") /\ blob' = BothStored(r)
        /\ UNCHANGED <<assignment, files>>
    BY <1>1, <1>2 DEF StoreNotebooks
  <2>2. req'[r].pc = "record" /\ req'[r].added = req[r].added
    BY <1>0, <2>1 DEF Goto, TypeInv, TypeOK, Request
  <2>3. Holds(r)'
    BY <1>0, <2>1 DEF Holds, BothStored
  <2> QED BY <2>1, <2>2, <2>3 DEF Orderly, Unrecorded, Done, Steps
<1>3. CASE RecordNotebooks(r)
  <2>1. /\ req[r].pc = "record" /\ UNCHANGED <<assignment, files, blob>>
        /\ req' = [req EXCEPT ![r].pc = "commit",
                     ![r].added = {Row(r, NotebookPath(t)) : t \in Notebooks}]
    BY <1>1, <1>3 DEF RecordNotebooks
  <2>2. /\ req'[r].pc = "commit"
        /\ req'[r].added = {Row(r, NotebookPath(t)) : t \in Notebooks}
    BY <1>0, <2>1 DEF TypeInv, TypeOK, Request
  <2> QED BY <2>1, <2>2 DEF Orderly, Unrecorded, Holds, Stored, Done, Steps
<1>4. CASE CommitNotebooks(r)
  <2>1. /\ req[r].pc = "commit" /\ UNCHANGED <<assignment, blob>>
        /\ NextTask(r, FALSE) /\ files' = files \cup req[r].added
    BY <1>1, <1>4 DEF CommitNotebooks, FilesSeenBy
  <2>2. Holds(assignment)'
    BY <2>1 DEF Orderly, Holds, Stored
  <2>3. Recorded'
    <3> SUFFICES ASSUME NEW t \in Notebooks
                 PROVE  OfType(files', t) = {Row(r, NotebookPath(t))}
      BY DEF Recorded, OfType
    <3>1. OfType(files, t) = {}
      BY <2>1 DEF Orderly, Unrecorded
    <3>2. \A u \in Notebooks : Row(r, NotebookPath(u)).path.type = u
      BY <1>0 DEF Row
    <3> QED BY <2>1, <3>1, <3>2 DEF OfType, Orderly
  <2>4. CASE req[r].names = <<>>
    <3>1. req' = [req EXCEPT ![r] = Ended(req[r], FALSE)]
      BY <2>1, <2>4 DEF NextTask
    <3> QED BY <2>2, <2>3, <3>1, EndedDone DEF Close
  <2>5. CASE req[r].names # <<>>
    <3>1. req'[r] = [req[r] EXCEPT !.pc = "attach", !.added = {},
                                   !.failed = req[r].failed \/ FALSE]
      BY <2>1, <2>5 DEF NextTask, TypeInv, TypeOK
    <3>2. req'[r].pc = "attach" /\ req'[r].added = {}
      BY <1>0, <3>1 DEF Request
    <3> QED BY <2>2, <2>3, <3>2 DEF Orderly, Done, Steps, Stored
  <2> QED BY <2>4, <2>5
<1> QED BY <1>2, <1>3, <1>4


LEMMA ResourcesDone ==
    ASSUME TypeInv, NEW r \in Requests, Orderly(r), ~Abort(r),
           \/ AttachResource(r) \/ CommitResources(r)
           \/ UnlinkResource(r) \/ RemoveResource(r)
    PROVE  Done(r)'
<1>0. /\ req[r] \in Request /\ Consistent(req[r])
      /\ Recorded /\ Holds(assignment) /\ assignment' = assignment
  BY DEF TypeInv, TypeOK, Orderly, AttachResource, CommitResources, UnlinkResource,
         RemoveResource
<1>1. Untouched => Holds(assignment)'
  BY <1>0 DEF Untouched, Holds
<1>2. CASE AttachResource(r)
  <2> DEFINE path == ResourcePath(req[r].next, req[r].names[req[r].next])
  <2>1. path.type = "resource" /\ Row(r, path).path = path
    BY DEF ResourcePath, Row
  <2> DEFINE pc == IF req[r].next = Len(req[r].names) THEN "commitResources" ELSE "attach"
             n == req[r].next + 1
  <2>2. /\ req[r].pc = "attach" /\ files' = files
        /\ pc \in {"attach", "commitResources"}
        /\ blob' = [blob EXCEPT ![path] = r]
        /\ req' = [req EXCEPT ![r].pc = pc, ![r].next = n,
                              ![r].added = req[r].added \cup {Row(r, path)}]
    BY <1>2 DEF AttachResource
  <2> HIDE DEF path, pc, n
  <2>3. req'[r].pc = pc /\ req'[r].added = req[r].added \cup {Row(r, path)}
    BY <1>0, <2>2 DEF TypeInv, TypeOK, Request
  <2>4. \A f \in req'[r].added : f.path.type = "resource"
    BY <2>1, <2>2, <2>3 DEF Orderly
  <2>5. Holds(assignment)' /\ Recorded'
    BY <1>0, <1>1, <2>1, <2>2, ResourcesApart DEF Recorded
  <2> QED BY <2>2, <2>3, <2>4, <2>5 DEF Done, Orderly, Stored, Steps
<1>3. CASE CommitResources(r)
  <2>1. /\ req[r].pc = "commitResources" /\ blob' = blob /\ Close(r)
        /\ files' = files \cup req[r].added
    BY <1>3 DEF CommitResources, FilesSeenBy
  <2>2. \A f \in req[r].added : f.path.type = "resource"
    BY <2>1 DEF Orderly
  <2>3. /\ OfType(files', "original") = OfType(files, "original")
        /\ OfType(files', "modified") = OfType(files, "modified")
    BY <2>1, <2>2 DEF OfType
  <2> QED BY <1>0, <2>1, <2>3, SameNotebooks, EndedDone DEF Holds
<1>4. CASE UnlinkResource(r)
  <2>1. /\ req[r].pc = "unlink" /\ Goto(r, "remove") /\ files' = files
        /\ blob' = [blob EXCEPT ![req[r].row.path] = None]
    BY <1>4 DEF UnlinkResource
  <2>2. req[r].row.path.type = "resource"
    BY <1>0, <2>1 DEF Consistent, OfType
  <2>3. Holds(assignment)' /\ Recorded'
    BY <1>0, <1>1, <2>1, <2>2, ResourcesApart DEF Recorded
  <2>4. req'[r].pc = "remove"
    BY <2>1 DEF Goto, TypeInv, TypeOK, Request
  <2> QED BY <2>3, <2>4 DEF Done, Orderly, Stored, Steps
<1>5. CASE RemoveResource(r)
  <2>1. /\ req[r].pc = "remove" /\ files' = files \ {req[r].row}
        /\ blob' = blob /\ Close(r)
    BY <1>5 DEF RemoveResource
  <2>2. req[r].row.path.type = "resource"
    BY <1>0, <2>1 DEF Consistent, OfType
  <2>3. /\ OfType(files', "original") = OfType(files, "original")
        /\ OfType(files', "modified") = OfType(files, "modified")
    BY <2>1, <2>2 DEF OfType
  <2> QED BY <1>0, <2>1, <2>3, SameNotebooks, EndedDone DEF Holds
<1> QED BY <1>2, <1>3, <1>4, <1>5

LEMMA ReplaceDone ==
    ASSUME TypeInv, NEW r \in Requests, Orderly(r), ~Abort(r), assignment # None,
           \/ ReplaceNotebooks(r) \/ LocateFile(r) \/ UpdateFile(r) \/ InsertFile(r)
           \/ UpdateGrade(r)
    PROVE  Done(r)'
<1>0. /\ req[r] \in Request /\ Recorded /\ req[r].added = {}
  BY DEF TypeInv, TypeOK, Orderly, ReplaceNotebooks, LocateFile, UpdateFile,
         InsertFile, UpdateGrade
<1>1. CASE ReplaceNotebooks(r)
  <2>1. /\ Goto(r, "locate") /\ blob' = BothStored(r) /\ files' = files
    BY <1>1 DEF ReplaceNotebooks
  <2>2. req'[r].pc = "locate" /\ req'[r].added = {}
    BY <1>0, <2>1 DEF Goto, TypeInv, TypeOK, Request
  <2>3. Holds(r)' /\ Recorded'
    BY <1>0, <2>1, NotebookPaths DEF Holds, BothStored, Recorded
  <2> QED BY <2>2, <2>3 DEF Done, Orderly, Stored, Steps
<1>2. CASE LocateFile(r)
  <2> DEFINE found == OfType(FilesSeenBy(r), req[r].type)
  <2>1. /\ req[r].pc = "locate" /\ UNCHANGED <<assignment, files, blob>>
        /\ req' = [req EXCEPT ![r].pc = "write",
                     ![r].row = IF found = {} THEN None
                                ELSE CHOOSE f \in found : TRUE]
    BY <1>2 DEF LocateFile
  <2>2. PICK f \in files : found = {f}
    BY <1>0 DEF FilesSeenBy, Recorded, Request
  <2>3. f # None
    BY NoneIsNoRow DEF TypeInv, TypeOK
  <2>4. req'[r].pc = "write" /\ req'[r].added = {} /\ req'[r].row = f
    BY <1>0, <2>1, <2>2 DEF TypeInv, TypeOK, Request
  <2>5. Holds(r)' /\ Recorded'
    BY <1>0, <2>1 DEF Orderly, Holds, Recorded, Stored
  <2> QED BY <2>3, <2>4, <2>5 DEF Done, Orderly, Stored, Steps
<1>3. CASE UpdateFile(r)
  <2>1. PICK rows : /\ req[r].pc = "write" /\ UNCHANGED <<assignment, files, blob>>
                    /\ req' = [req EXCEPT ![r] = [NextNotebook(req[r]) EXCEPT
                                                    !.locked = rows]]
    BY <1>3 DEF UpdateFile
  <2>2. req'[r] = [NextNotebook(req[r]) EXCEPT !.locked = rows]
    BY <2>1 DEF TypeInv, TypeOK
  <2>3. req'[r].pc \in {"locate", "grade"} /\ req'[r].added = {}
    BY <1>0, <2>2 DEF NextNotebook, Request
  <2>4. Holds(r)' /\ Recorded'
    BY <1>0, <2>1 DEF Orderly, Holds, Recorded, Stored
  <2> QED BY <2>3, <2>4 DEF Done, Orderly, Stored, Steps
<1>4. ~InsertFile(r)
  BY DEF InsertFile, Orderly
<1>5. CASE UpdateGrade(r)
  <2>1. /\ req[r].pc = "grade" /\ files' = files /\ blob' = blob /\ Close(r)
        /\ assignment' = r
    BY <1>0, <1>5 DEF UpdateGrade, FilesSeenBy
  <2>2. Holds(assignment)' /\ Recorded'
    BY <1>0, <2>1 DEF Orderly, Holds, Recorded, Stored
  <2> QED BY <2>1, <2>2, EndedDone
<1> QED BY <1>1, <1>2, <1>3, <1>4, <1>5


\* A request that begins finds the assignment in order, or creates it.
LEMMA ArriveDone ==
    ASSUME DeletionInv, NEW r \in Requests, Arrive(r), req'[r].kind # "delete",
           \/ \A q \in Requests : req[q].pc = "idle"
           \/ assignment # None /\ Recorded /\ Holds(assignment)
    PROVE  Done(r)' /\ assignment' # None
<1>1. \A q \in Requests : req[q].pc = "idle" => req[q].kind = "none"
  BY DEF DeletionInv, TypeInv, Consistent
<1>2. CASE \E names \in Payloads : AddAssignment(r, names)
  <2>1. /\ Started("create") = {} /\ req'[r].pc = "store" /\ req'[r].added = {}
        /\ assignment' = r /\ files' = files
    BY <1>2, AddingBegins DEF DeletionInv
  <2>2. files' = {}
    BY <2>1 DEF DeletionInv
  <2>3. Unrecorded'
    BY <2>2 DEF Unrecorded, OfType
  <2> QED BY <2>1, <2>3, AssignmentFilesAssumption DEF Done, Orderly, Stored, Steps
<1>3. CASE \A names \in Payloads : ~AddAssignment(r, names)
  <2>1. /\ req'[r].pc \in {"attach", "replace", "unlink"} /\ req'[r].added = {}
        /\ UNCHANGED <<assignment, files, blob>>
        /\ ~\A q \in Requests : req[q].pc = "idle"
    <3> USE DEF Begin, Idle, DeletionInv, TypeInv, TypeOK
    <3>1. CASE \E names \in Payloads : UploadAssignmentResources(r, names)
      BY <1>1, <3>1 DEF UploadAssignmentResources, Started
    <3>2. CASE UpdateFilesOfAssignment(r)
      BY <1>1, <3>2 DEF UpdateFilesOfAssignment, Started
    <3>3. CASE \E f \in files : DeleteAssignmentResource(r, f)
      BY <1>1, <3>3 DEF DeleteAssignmentResource, Started
    <3>4. ~\E owner \in BOOLEAN : DeleteAssignment(r, owner)
      BY DEF DeleteAssignment
    <3> QED BY <1>3, <3>1, <3>2, <3>3, <3>4 DEF Arrive
  <2>2. assignment # None /\ Recorded' /\ Holds(assignment)'
    BY <2>1 DEF Recorded, Holds
  <2> QED BY <2>1, <2>2 DEF Done, Orderly, Stored, Steps
<1> QED BY <1>2, <1>3

\* What no other request disturbs.
LEMMA AdvanceDone ==
    ASSUME DeletionInv, NEW r \in Requests, Advance(r), Orderly(r),
           assignment # None, req[r].kind # "delete", ~req'[r].failed
    PROVE  Done(r)' /\ assignment' # None
<1>1. TypeInv /\ Consistent(req[r]) /\ ~Abort(r)
  BY AbortRemembers DEF DeletionInv, TypeInv
<1>2. ~(ListFiles(r) \/ ClearFiles(r) \/ EraseAssignment(r))
  BY <1>1 DEF ListFiles, ClearFiles, EraseAssignment, Consistent
<1>3. Done(r)'
  BY <1>1, <1>2, CreateDone, ResourcesDone, ReplaceDone DEF Advance
<1>4. assignment' # None
  BY <1>1, <1>2, WhoAssigns, AddingBegins, AssignmentFilesAssumption
     DEF UpdateGrade, AddAssignment
<1> QED BY <1>3, <1>4

LEMMA WhoOverlaps ==
    ASSUME NEW r \in Requests,
           Arrive(r) \/ Advance(r) \/ Fail(r) \/ BreakDeadlock(r)
    PROVE  \/ /\ Arrive(r) /\ req[r].pc = "idle"
              /\ alone' = (alone /\ \A q \in Requests : req[q].pc \in {"idle", "closed"})
           \/ ~Arrive(r) /\ alone' = alone
<1>1. CASE Arrive(r)
  BY <1>1 DEF Arrive, AddAssignment, UploadAssignmentResources, Begin,
              UpdateFilesOfAssignment, DeleteAssignmentResource, DeleteAssignment
<1>2. req[r].pc \in Steps => ~Arrive(r)
  BY <1>1 DEF Steps
<1>3. CASE StoreNotebooks(r) \/ RecordNotebooks(r) \/ CommitNotebooks(r)
           \/ AttachResource(r) \/ CommitResources(r) \/ ReplaceNotebooks(r)
           \/ LocateFile(r) \/ UpdateFile(r) \/ InsertFile(r)
  BY <1>2, <1>3, OnlyIdleArrive
     DEF StoreNotebooks, RecordNotebooks, CommitNotebooks, AttachResource,
         CommitResources, ReplaceNotebooks, LocateFile, UpdateFile, InsertFile, Advance
<1>4. CASE UnlinkResource(r) \/ RemoveResource(r) \/ ListFiles(r) \/ ClearFiles(r)
           \/ Fail(r) \/ BreakDeadlock(r) \/ UpdateGrade(r) \/ EraseAssignment(r)
  BY <1>2, <1>4, OnlyIdleArrive
     DEF UnlinkResource, RemoveResource, ListFiles, ClearFiles, Fail, BreakDeadlock,
         UpdateGrade, EraseAssignment, Advance
<1> QED BY <1>1, <1>3, <1>4 DEF Advance

LEMMA UpdatesStep ==
    ASSUME UpdatesInv, DeletionInv, NEW r \in Requests,
           Arrive(r) \/ Advance(r) \/ Fail(r) \/ BreakDeadlock(r)
    PROVE  UpdatesInv'
<1> SUFFICES ASSUME Quietly'
             PROVE  /\ \A p, q \in Requests :
                         req'[p].pc \in Steps /\ req'[q].pc \in Steps => p = q
                    /\ \A q \in Requests : Orderly(q)'
                    /\ assignment' # None
                    /\ (\A q \in Requests : req'[q].pc \notin Steps)
                         => Recorded' /\ Holds(assignment)'
  BY DEF UpdatesInv
<1>1. /\ TypeInv /\ DeletionInv /\ Remembers(r) /\ Moves(r)
      /\ \A q \in Requests : Follows(req[q], req'[q]) /\ Consistent(req[q])
  BY StepRemembers, EveryMove, MoveRecords DEF DeletionInv, TypeInv
<1>2. \A q \in Requests \ {r} : req'[q] = req[q]
  BY <1>1 DEF Moves
<1>3. /\ alone' => alone
      /\ Arrive(r) /\ alone' => \A q \in Requests : req[q].pc \in {"idle", "closed"}
      /\ Arrive(r) => req[r].pc = "idle"
  BY WhoOverlaps DEF DeletionInv, TypeInv, TypeOK
<1>4. Quietly /\ ~req'[r].failed /\ req'[r].kind # "delete"
  BY <1>1, <1>2, <1>3 DEF Quietly, Remembers, Started, Follows, Consistent
<1>5. \A q \in Requests \ {r} : req[q].pc \notin Steps
  BY <1>3, <1>4, OnlyIdleArrive DEF UpdatesInv, Quietly, Steps
<1>6. Done(r)' /\ assignment' # None
  <2>1. CASE Arrive(r)
    <3>1. \/ \A q \in Requests : req[q].pc = "idle"
          \/ assignment # None /\ Recorded /\ Holds(assignment)
      BY <1>3, <1>4, <2>1 DEF UpdatesInv, Quietly, Steps
    <3> QED BY <1>1, <1>4, <2>1, <3>1, ArriveDone
  <2>2. CASE Advance(r)
    <3>1. Orderly(r) /\ assignment # None /\ req[r].kind # "delete"
      BY <1>4, <2>2, OnlyIdleArrive DEF UpdatesInv, Quietly, Started, Steps
    <3> QED BY <1>1, <1>4, <2>2, <3>1, AdvanceDone
  <2>3. CASE Fail(r) \/ BreakDeadlock(r)
    BY <1>1, <1>4, <2>3, AbortRemembers DEF Fail, BreakDeadlock
  <2> QED BY <2>1, <2>2, <2>3
<1>7. \A q \in Requests \ {r} : Orderly(q)'
  BY <1>2, <1>5 DEF Orderly, Stored, Steps
<1>8. (\A q \in Requests : req'[q].pc \notin Steps)
        => Recorded' /\ Holds(assignment)'
  BY <1>6 DEF Done
<1> QED BY <1>2, <1>5, <1>6, <1>7, <1>8 DEF Done

\* Requests that were made one after another and did not fail leave an assignment
\* with one row of each notebook, whose files are the notebook that its grade was
\* computed of: creation, replacement and resources, in any number and order.
THEOREM SequentialUpdatesKept == Spec => []SequentialUpdatesAgree
<1>1. Init => UpdatesInv
  <2> SUFFICES ASSUME Init PROVE UpdatesInv
    OBVIOUS
  <2>1. \A r \in Requests : req[r].pc = "idle"
    BY DEF Init, Idle
  <2> QED BY <2>1 DEF Init, UpdatesInv, Orderly, Stored, Steps
<1>2. UpdatesInv /\ DeletionInv /\ [Next]_vars => UpdatesInv'
  <2>1. UpdatesInv /\ UNCHANGED vars => UpdatesInv'
    BY DEF vars, UpdatesInv, Quietly, Started, Orderly, Recorded, Unrecorded, Holds
  <2> QED BY <2>1, UpdatesStep DEF Next, Finished
<1>3. UpdatesInv => SequentialUpdatesAgree
  <2> SUFFICES ASSUME UpdatesInv, alone, assignment # None, Started("delete") = {},
                      \A r \in Requests : ~req[r].failed /\ req[r].pc \notin Steps,
                      NEW t \in Notebooks
               PROVE  /\ Cardinality(OfType(files, t)) = 1
                      /\ blob[NotebookPath(t)] = assignment
    BY DEF SequentialUpdatesAgree
  <2>1. Recorded /\ Holds(assignment)
    BY DEF UpdatesInv, Quietly
  <2>2. PICK f \in files : OfType(files, t) = {f}
    BY <2>1 DEF Recorded
  <2> QED BY <2>1, <2>2, FS_Singleton DEF Holds
<1> QED BY <1>1, <1>2, <1>3, DeletionHolds, PTL DEF Spec

====
