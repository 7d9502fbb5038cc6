---- MODULE Pages_proofs ----
(***************************************************************************)
(* A proof about Pages, for any number of rows and any size of a page.     *)
(***************************************************************************)
EXTENDS Pages, FiniteSetTheorems, TLAPS

\* The rows that matched all the time and were on no page yet.
Unseen == stayed \ reader.shown

\* How many rows come before x in the reader's order.
Rank(x) == Cardinality(Before(x, reader.sort))

Orders == {"newest", "oldest"}

Reader == [kind: Kinds, sort: Orders, page: Nat \ {0},
           left: Seq({"items", "count"}), total: Nat, straight: BOOLEAN,
           shown: SUBSET Nat]

Shape ==
    /\ made \in Nat
    /\ rows \subseteq 1..made /\ others \subseteq 1..made
    /\ stayed \subseteq rows
    /\ reader \in Reader
    /\ reader.kind = "home" => reader.left \in {<<"items", "count">>, <<"count">>, <<>>}

\* x comes after the pages read, and has been counted with them.
Ahead(x) ==
    /\ Rank(x) >= (reader.page - 1) * Limit
    /\ reader.left # <<"items", "count">> => Rank(x) >= reader.page * Limit
    /\ reader.left = <<>> => reader.total > reader.page * Limit

\* The rows not seen are ahead: others may come before them meanwhile, but while
\* none leaves the list none moves up.
PassedInv ==
    reader.kind = "home" /\ reader.straight /\ ~shrunk =>
      \A x \in Unseen : Ahead(x)

----
(***************************************************************************)
(* Places in the order, and numbers of pages.                              *)
(***************************************************************************)

\* Fewer rows come before one of them than there are.
LEMMA Places ==
    ASSUME Shape, NEW sort
    PROVE  /\ IsFiniteSet(rows) /\ Cardinality(rows) \in Nat
           /\ \A x : Cardinality(Before(x, sort)) \in Nat
           /\ \A x \in rows : Cardinality(Before(x, sort)) < Cardinality(rows)
<1>1. IsFiniteSet(1..made)
  BY FS_Interval DEF Shape
<1>2. IsFiniteSet(rows) /\ Cardinality(rows) \in Nat
  BY <1>1, FS_Subset, FS_CardinalityType DEF Shape
<1>3. ASSUME NEW x PROVE Before(x, sort) \subseteq rows
  BY DEF Before
<1>4. ASSUME NEW x PROVE Cardinality(Before(x, sort)) \in Nat
  BY <1>2, <1>3, FS_Subset, FS_CardinalityType
<1>5. ASSUME NEW x \in rows
      PROVE  Cardinality(Before(x, sort)) < Cardinality(rows)
  <2>1. x \in Nat
    BY DEF Shape
  <2>2. x \notin Before(x, sort)
    BY <2>1 DEF Before
  <2>3. Before(x, sort) # rows
    BY <2>2
  <2> QED BY <1>2, <1>3, <1>4, <2>3, FS_Subset
<1> QED BY <1>2, <1>4, <1>5

\* Rows that are added move none up.
LEMMA NoneMovesUp ==
    ASSUME Shape, Shape', rows \subseteq rows', NEW x, NEW sort
    PROVE  /\ Cardinality(Before(x, sort)) \in Nat /\ Cardinality(Before(x, sort)') \in Nat
           /\ Cardinality(Before(x, sort)) <= Cardinality(Before(x, sort)')
<1>1. Before(x, sort) \subseteq Before(x, sort)'
  BY DEF Before
<1>2. IsFiniteSet(rows')
  <2>1. IsFiniteSet(1..made')
    BY FS_Interval DEF Shape
  <2> QED BY <2>1, FS_Subset DEF Shape
<1>3. Before(x, sort)' \subseteq rows'
  BY DEF Before
<1> QED BY <1>1, <1>2, <1>3, FS_Subset, FS_CardinalityType

\* The last page ends after the last row.
LEMMA LastPage ==
    ASSUME NEW total \in Nat, NEW page \in Nat, page >= TotalPages(total)
    PROVE  page * Limit >= total
<1> DEFINE n == total + Limit - 1
<1>1. Limit \in Nat \ {0} /\ n \in Nat
  BY PagesAssumption
<1> HIDE DEF n
<1>2. n < Limit * ((n \div Limit) + 1) /\ n \div Limit \in Nat
  BY <1>1, Z3
<1>3. n \div Limit <= page
  BY DEF TotalPages, n
<1>4. Limit * ((n \div Limit) + 1) <= Limit * (page + 1)
  BY <1>1, <1>2, <1>3
<1>5. Limit * (page + 1) = page * Limit + Limit
  BY <1>1
<1>6. page * Limit \in Nat
  BY <1>1
<1> QED BY <1>1, <1>2, <1>4, <1>5, <1>6 DEF n

----
(***************************************************************************)
(* The shape.                                                              *)
(***************************************************************************)

LEMMA Lists ==
    ASSUME NEW kind \in Kinds
    PROVE  /\ Statements(kind) \in Seq({"items", "count"})
           /\ kind = "home" => Statements(kind) = <<"items", "count">>
<1>1. CASE kind = "home"
  BY <1>1 DEF Statements
<1>2. CASE kind = "api"
  BY <1>2 DEF Statements
<1>3. CASE kind = "stats"
  BY <1>3 DEF Statements
<1> QED BY <1>1, <1>2, <1>3 DEF Kinds

\* The reader asks for a page.
LEMMA AskShape ==
    ASSUME Shape, NEW kind \in Kinds, NEW sort \in Orders, NEW page \in Nat \ {0},
           NEW straight \in BOOLEAN, NEW shown \in SUBSET Nat,
           Ask(kind, sort, page, straight, shown)
    PROVE  /\ reader' \in Reader
           /\ reader'.kind = kind /\ reader'.sort = sort /\ reader'.page = page
           /\ reader'.straight = straight /\ reader'.shown = shown
           /\ kind = "home" => reader'.left = <<"items", "count">>
BY Lists DEF Ask, Reader

LEMMA BeginShape ==
    ASSUME Shape, NEW kind \in Kinds, NEW sort \in Orders, NEW page \in Nat \ {0},
           Begin(kind, sort, page), UNCHANGED table
    PROVE  /\ Shape'
           /\ reader'.page = page /\ reader'.straight = (page = 1)
           /\ reader'.left = <<"items", "count">> \/ reader'.kind # "home"
<1> DEFINE straight == page = 1
<1>1. Ask(kind, sort, page, straight, {}) /\ stayed' = rows /\ UNCHANGED <<made, rows, others>>
  BY DEF Begin, table
<1>2. straight \in BOOLEAN
  OBVIOUS
<1> HIDE DEF straight
<1>3. /\ reader' \in Reader
      /\ reader'.kind = kind /\ reader'.page = page /\ reader'.straight = straight
      /\ kind = "home" => reader'.left = <<"items", "count">>
  BY <1>1, <1>2, AskShape
<1> QED BY <1>1, <1>3 DEF Shape, straight

LEMMA FollowShape ==
    ASSUME Shape, NEW page \in 1..MaxRows, Follow(page)
    PROVE  /\ Shape' /\ UNCHANGED rows
           /\ \/ page = 1 /\ Begin(reader.kind, reader.sort, 1)
              \/ /\ UNCHANGED history /\ reader.left = <<>>
                 /\ reader'.kind = reader.kind /\ reader'.sort = reader.sort
                 /\ reader'.page = page /\ reader'.shown = reader.shown
                 /\ reader'.straight => reader.straight /\ page = reader.page + 1
                 /\ reader.kind = "home" => reader'.left = <<"items", "count">>
<1>1. page \in Nat \ {0} /\ reader.kind \in Kinds /\ reader.sort \in Orders
  BY PagesAssumption DEF Shape, Reader
<1>2. UNCHANGED table /\ reader.left = <<>>
  BY DEF Follow
<1>3. CASE page = 1
  <2>1. Begin(reader.kind, reader.sort, 1)
    BY <1>3 DEF Follow
  <2>2. Shape'
    BY <1>1, <1>2, <1>3, <2>1, BeginShape
  <2> QED BY <1>2, <1>3, <2>1, <2>2 DEF table
<1>4. CASE page # 1
  <2> DEFINE straight == reader.straight /\ page = reader.page + 1
  <2>1. Ask(reader.kind, reader.sort, page, straight, reader.shown) /\ UNCHANGED history
    BY <1>4 DEF Follow
  <2>2. straight \in BOOLEAN /\ reader.shown \in SUBSET Nat
    BY DEF Shape, Reader
  <2>3. straight => reader.straight /\ page = reader.page + 1
    OBVIOUS
  <2> HIDE DEF straight
  <2>4. /\ reader' \in Reader
        /\ reader'.kind = reader.kind /\ reader'.sort = reader.sort /\ reader'.page = page
        /\ reader'.straight = straight /\ reader'.shown = reader.shown
        /\ reader.kind = "home" => reader'.left = <<"items", "count">>
    BY <1>1, <2>1, <2>2, AskShape
  <2>5. Shape'
    BY <1>2, <2>1, <2>4 DEF Shape, table, history
  <2> QED BY <1>2, <2>1, <2>3, <2>4, <2>5 DEF table
<1> QED BY <1>3, <1>4

\* A statement of a page is run.
LEMMA StatementShape ==
    ASSUME Shape, ReadItems \/ Count
    PROVE  /\ Shape' /\ UNCHANGED <<rows, stayed, shrunk>>
           /\ UNCHANGED <<reader.kind, reader.sort, reader.page, reader.straight>>
           /\ ReadItems => /\ reader'.shown = reader.shown \cup Page(reader.sort, reader.page)
                           /\ reader'.total = reader.total
                           /\ reader.kind = "home" =>
                                reader.left = <<"items", "count">> /\ reader'.left = <<"count">>
           /\ Count => /\ reader'.shown = reader.shown
                       /\ reader'.total = Cardinality(rows)
                       /\ reader.kind = "home" => reader.left = <<"count">> /\ reader'.left = <<>>
<1>1. reader.left \in Seq({"items", "count"}) /\ reader.left # <<>>
  BY DEF Shape, Reader, ReadItems, Count
<1>2. Tail(reader.left) \in Seq({"items", "count"})
  BY <1>1
<1>3. Page(reader.sort, reader.page) \subseteq Nat
  <2>1. Page(reader.sort, reader.page) \subseteq rows
    BY DEF Page
  <2>2. 1..made \subseteq Nat /\ rows \subseteq 1..made
    BY DEF Shape
  <2> QED BY <2>1, <2>2
<1>4. Cardinality(rows) \in Nat
  BY Places
<1>5. /\ Head(<<"items", "count">>) = "items" /\ Tail(<<"items", "count">>) = <<"count">>
      /\ Head(<<"count">>) = "count" /\ Tail(<<"count">>) = <<>>
  OBVIOUS
<1>6. UNCHANGED <<made, rows, others, stayed, shrunk>>
  BY DEF ReadItems, Count, table, history
<1>7. CASE ReadItems
  <2>1. /\ reader' \in Reader
        /\ UNCHANGED <<reader.kind, reader.sort, reader.page, reader.straight, reader.total>>
        /\ reader'.left = Tail(reader.left)
        /\ reader'.shown = reader.shown \cup Page(reader.sort, reader.page)
    BY <1>2, <1>3, <1>7 DEF ReadItems, Shape, Reader
  <2>2. reader.kind = "home" => reader.left = <<"items", "count">>
    BY <1>5, <1>7 DEF ReadItems, Shape
  <2>3. ~Count
    BY <1>7 DEF ReadItems, Count
  <2> QED BY <1>5, <1>6, <2>1, <2>2, <2>3 DEF Shape
<1>8. CASE Count
  <2>1. /\ reader' \in Reader
        /\ UNCHANGED <<reader.kind, reader.sort, reader.page, reader.straight, reader.shown>>
        /\ reader'.left = Tail(reader.left) /\ reader'.total = Cardinality(rows)
    BY <1>2, <1>4, <1>8 DEF Count, Shape, Reader
  <2>2. reader.kind = "home" => reader.left = <<"count">>
    BY <1>5, <1>8 DEF Count, Shape
  <2>3. ~ReadItems
    BY <1>8 DEF ReadItems, Count
  <2> QED BY <1>5, <1>6, <2>1, <2>2, <2>3 DEF Shape
<1> QED BY <1>7, <1>8

\* Rows change, and either none leaves the list or this is remembered.
LEMMA RowsShape ==
    ASSUME Shape, AddRow \/ \E x \in rows \cup others : EraseRow(x) \/ RenameRow(x)
    PROVE  /\ Shape' /\ UNCHANGED reader
           /\ shrunk' \/ (rows \subseteq rows' /\ UNCHANGED <<stayed, shrunk>>)
<1>1. CASE AddRow
  <2>1. made' = made + 1 /\ UNCHANGED <<reader, stayed, shrunk>>
    BY <1>1 DEF AddRow, history
  <2>2. /\ rows' \subseteq rows \cup {made'} /\ others' \subseteq others \cup {made'}
        /\ rows \subseteq rows'
    BY <1>1 DEF AddRow
  <2>3. made' \in Nat /\ \A y \in 1..made : y \in 1..made'
    BY <2>1 DEF Shape
  <2> QED BY <2>1, <2>2, <2>3 DEF Shape
<1>2. CASE \E x \in rows \cup others : EraseRow(x) \/ RenameRow(x)
  BY <1>2 DEF EraseRow, RenameRow, Unmatch, Shape, history
<1> QED BY <1>1, <1>2

LEMMA ShapeNext == Shape /\ [Next]_vars => Shape'
<1> SUFFICES ASSUME Shape, [Next]_vars PROVE Shape'
  OBVIOUS
<1>1. ASSUME NEW kind \in Kinds, NEW sort \in Orders, Open(kind, sort) PROVE Shape'
  BY <1>1, BeginShape DEF Open
<1>2. ASSUME NEW sort \in Orders, SubmitForm(sort) PROVE Shape'
  <2>1. reader.kind \in Kinds /\ reader.page \in Nat \ {0}
    BY DEF Shape, Reader
  <2> QED BY <1>2, <2>1, BeginShape DEF SubmitForm
<1>3. CASE UNCHANGED vars
  BY <1>3 DEF vars, table, history, Shape
<1> QED BY <1>1, <1>2, <1>3, RowsShape, StatementShape, FollowShape DEF Next, Orders

----
(***************************************************************************)
(* The rows that are still to come.                                        *)
(***************************************************************************)

LEMMA PassedRows ==
    ASSUME Shape, Shape', PassedInv,
           UNCHANGED reader,
           shrunk' \/ (rows \subseteq rows' /\ UNCHANGED <<stayed, shrunk>>)
    PROVE  PassedInv'
<1> SUFFICES ASSUME reader.kind = "home", reader.straight, ~shrunk',
                    NEW x \in Unseen'
             PROVE  Ahead(x)'
  BY DEF PassedInv, Ahead
<1>1. rows \subseteq rows' /\ x \in Unseen /\ ~shrunk
  BY DEF Unseen
<1>2. Ahead(x)
  BY <1>1 DEF PassedInv, Ahead
<1>3. Rank(x) <= Rank(x)' /\ Rank(x) \in Nat /\ Rank(x)' \in Nat
  BY <1>1, NoneMovesUp DEF Rank
<1>4. (reader.page - 1) * Limit \in Nat /\ reader.page * Limit \in Nat
  BY PagesAssumption DEF Shape, Reader
<1> QED BY <1>2, <1>3, <1>4 DEF Ahead

LEMMA PassedBegins ==
    ASSUME Shape, NEW kind \in Kinds, NEW sort \in Orders, NEW page \in Nat \ {0},
           Begin(kind, sort, page), UNCHANGED table
    PROVE  PassedInv'
<1>1. /\ Shape' /\ reader'.page = page /\ reader'.straight = (page = 1)
      /\ reader'.left = <<"items", "count">> \/ reader'.kind # "home"
  BY BeginShape
<1> SUFFICES ASSUME reader'.kind = "home", reader'.straight, NEW x \in Unseen'
             PROVE  Ahead(x)'
  BY DEF PassedInv, Ahead
<1>2. page = 1 /\ reader'.left = <<"items", "count">>
  BY <1>1
<1>3. Rank(x)' \in Nat
  <2>1. rows \subseteq rows'
    BY DEF table
  <2> QED BY <1>1, <2>1, NoneMovesUp DEF Rank
<1>4. (reader'.page - 1) * Limit = 0
  BY <1>1, <1>2, PagesAssumption
<1>5. reader'.left # <<>>
  BY <1>2
<1> QED BY <1>2, <1>3, <1>4, <1>5 DEF Ahead

LEMMA PassedFollows ==
    ASSUME Shape, PassedInv, NEW page \in 1..MaxRows, Follow(page)
    PROVE  PassedInv'
<1>1. CASE page = 1 /\ Begin(reader.kind, reader.sort, 1)
  <2>1. reader.kind \in Kinds /\ reader.sort \in Orders /\ UNCHANGED table
    BY DEF Shape, Reader, Follow
  <2> QED BY <1>1, <2>1, PassedBegins
<1>2. CASE ~(page = 1 /\ Begin(reader.kind, reader.sort, 1))
  <2>1. /\ Shape' /\ UNCHANGED <<rows, stayed, shrunk>> /\ reader.left = <<>>
        /\ reader'.kind = reader.kind /\ reader'.sort = reader.sort
        /\ reader'.page = page /\ reader'.shown = reader.shown
        /\ reader'.straight => reader.straight /\ page = reader.page + 1
        /\ reader.kind = "home" => reader'.left = <<"items", "count">>
    BY <1>2, FollowShape DEF history
  <2> SUFFICES ASSUME reader'.kind = "home", reader'.straight, ~shrunk',
                      NEW x \in Unseen'
               PROVE  Ahead(x)'
    BY DEF PassedInv, Ahead
  <2>2. Ahead(x) /\ x \in Unseen
    BY <2>1 DEF PassedInv, Ahead, Unseen
  <2>3. Rank(x)' = Rank(x) /\ Rank(x) >= reader.page * Limit
    BY <2>1, <2>2 DEF Rank, Before, Ahead
  <2>4. reader'.page - 1 = reader.page
    BY <2>1 DEF Shape, Reader
  <2>5. reader'.left = <<"items", "count">> /\ reader'.left # <<>>
    <3>1. <<"items", "count">> # <<>>
      OBVIOUS
    <3> QED BY <2>1, <3>1
  <2> QED BY <2>3, <2>4, <2>5 DEF Ahead
<1> QED BY <1>1, <1>2

LEMMA PassedStatements ==
    ASSUME Shape, PassedInv, ReadItems \/ Count
    PROVE  PassedInv'
<1>1. /\ Shape' /\ UNCHANGED <<rows, stayed, shrunk>>
      /\ UNCHANGED <<reader.kind, reader.sort, reader.page, reader.straight>>
  BY StatementShape
<1> SUFFICES ASSUME reader.kind = "home", reader.straight, ~shrunk, NEW x \in Unseen'
             PROVE  Ahead(x)'
  BY <1>1 DEF PassedInv, Ahead
<1>2. reader.shown \subseteq reader'.shown
  BY StatementShape
<1>3. Ahead(x)
  BY <1>1, <1>2 DEF PassedInv, Ahead, Unseen
<1>4. Rank(x)' = Rank(x)
  BY <1>1 DEF Rank, Before
<1>5. x \in rows
  BY <1>1 DEF Unseen, Shape
<1>6. Rank(x) \in Nat /\ Rank(x) < Cardinality(rows) /\ Cardinality(rows) \in Nat
  BY <1>5, Places DEF Rank
<1>7. Limit \in Nat \ {0} /\ reader.page \in Nat \ {0}
  BY PagesAssumption DEF Shape, Reader
<1>8. CASE ReadItems
  <2>1. reader'.left = <<"count">> /\ x \notin Page(reader.sort, reader.page)
    BY <1>8, StatementShape DEF Unseen
  <2>2. Rank(x) \notin (reader.page - 1) * Limit .. reader.page * Limit - 1
    BY <1>5, <2>1 DEF Page, Rank
  <2>3. (reader.page - 1) * Limit \in Nat /\ reader.page * Limit \in Nat
    BY <1>7
  <2>4. Rank(x) >= (reader.page - 1) * Limit
    BY <1>3 DEF Ahead
  <2>5. Rank(x) >= reader.page * Limit
    BY <1>6, <2>2, <2>3, <2>4
  <2>6. reader'.left # <<>>
    BY <2>1
  <2> QED BY <1>1, <1>4, <2>4, <2>5, <2>6 DEF Ahead
<1>9. CASE Count
  <2>1. reader.left = <<"count">> /\ reader'.total = Cardinality(rows)
    BY <1>9, StatementShape
  <2>2. <<"count">> # <<"items", "count">>
    OBVIOUS
  <2>3. Rank(x) >= (reader.page - 1) * Limit /\ Rank(x) >= reader.page * Limit
    BY <1>3, <2>1, <2>2 DEF Ahead
  <2>4. reader.page * Limit \in Nat
    BY <1>7
  <2>5. Cardinality(rows) > reader.page * Limit
    BY <1>6, <2>3, <2>4
  <2> QED BY <1>1, <1>4, <2>1, <2>3, <2>5 DEF Ahead
<1> QED BY <1>8, <1>9

LEMMA PassedNext == Shape /\ PassedInv /\ [Next]_vars => PassedInv'
<1> SUFFICES ASSUME Shape, PassedInv, [Next]_vars PROVE PassedInv'
  OBVIOUS
<1>0. Shape'
  BY ShapeNext
<1>1. ASSUME NEW kind \in Kinds, NEW sort \in Orders, Open(kind, sort) PROVE PassedInv'
  BY <1>1, PassedBegins DEF Open
<1>2. ASSUME NEW sort \in Orders, SubmitForm(sort) PROVE PassedInv'
  <2>1. reader.kind \in Kinds /\ reader.page \in Nat \ {0}
    BY DEF Shape, Reader
  <2> QED BY <1>2, <2>1, PassedBegins DEF SubmitForm
<1>3. CASE AddRow \/ \E x \in rows \cup others : EraseRow(x) \/ RenameRow(x)
  BY <1>0, <1>3, RowsShape, PassedRows
<1>4. CASE UNCHANGED vars
  BY <1>0, <1>4, PassedRows DEF vars, table, history
<1> QED BY <1>1, <1>2, <1>3, <1>4, PassedStatements, PassedFollows DEF Next, Orders

\* Whoever goes from the first to the last page of a home page sees every row that
\* matched all the time, whatever rows are added meanwhile, for any number of rows
\* and any size of a page (pages/router.py:85-118).
THEOREM NoRowMissed == Spec => []EveryRowShown
<1>1. Init => Shape /\ PassedInv
  <2> SUFFICES ASSUME Init PROVE Shape /\ PassedInv
    OBVIOUS
  <2>1. reader \in Reader /\ reader.left = <<>>
    BY DEF Init, Reader, Kinds, Orders
  <2> QED BY <2>1 DEF Init, Shape, PassedInv
<1>2. ASSUME Shape, PassedInv PROVE EveryRowShown
  <2> SUFFICES ASSUME reader.kind = "home", reader.left = <<>>, reader.straight, ~shrunk,
                      reader.page >= TotalPages(reader.total), NEW x \in stayed
               PROVE  x \in reader.shown
    BY DEF EveryRowShown
  <2>1. reader.total \in Nat /\ reader.page \in Nat /\ reader.page * Limit \in Nat
    BY <1>2, PagesAssumption DEF Shape, Reader
  <2>2. reader.page * Limit >= reader.total
    BY <2>1, LastPage
  <2>3. x \notin Unseen
    BY <1>2, <2>1, <2>2 DEF PassedInv, Ahead
  <2> QED BY <2>3 DEF Unseen
<1> QED BY <1>1, <1>2, ShapeNext, PassedNext, PTL DEF Spec

====
