---- MODULE Pages ----
(***************************************************************************)
(* A reader goes through a list page by page while its rows are added,     *)
(* renamed and erased: the tutor's assignments, the student's submissions, *)
(* the statistics of an assignment.  A page is two statements, each of     *)
(* which sees what is committed: the rows of the page and their number.    *)
(*                                                                         *)
(* A row is the place it has in the order of creation (created_at, then    *)
(* id).  Search and discipline are one filter, which a row matches or not; *)
(* renaming it or moving it to another discipline may change that.         *)
(* Definitions named ...Mutant are plausible bugs, as in Submissions.      *)
(***************************************************************************)
EXTENDS Integers, Sequences, FiniteSets

CONSTANTS
    MaxRows,  \* bound on the rows ever made
    Limit     \* rows of a page

ASSUME PagesAssumption == MaxRows \in Nat /\ Limit \in Nat \ {0}

VARIABLES
    made,     \* rows made so far
    rows,     \* rows that exist and match the filter
    others,   \* rows that exist and do not
    reader,   \* program counter, list, order, page and what was read
    stayed,   \* rows that have matched since the reader began (history)
    shrunk    \* a row stopped matching since (history)

table == <<made, rows, others>>
history == <<stayed, shrunk>>
vars == <<table, reader, history>>

\* The pages /pages/tutor-home and /pages/student-home, as GET /assignments; the
\* list of GET /submissions, which counts first; /pages/assignments/{id}/stats.
Kinds == {"home", "api", "stats"}

CountFirstMutant(kind) ==
    CASE kind = "home" -> <<"count", "items">>
      [] kind = "api" -> <<"count", "items">>
      [] kind = "stats" -> <<"items">>

Statements(kind) == CASE kind = "home" -> <<"items", "count">>
                      [] kind = "api" -> <<"count", "items">>
                      [] kind = "stats" -> <<"items">>

----
(***************************************************************************)
(* What happens to the rows.                                               *)
(***************************************************************************)

AddRow ==
    /\ made < MaxRows
    /\ made' = made + 1
    /\ \/ rows' = rows \cup {made'} /\ UNCHANGED others
       \/ others' = others \cup {made'} /\ UNCHANGED rows
    /\ UNCHANGED <<reader, history>>

Unmatch(x) ==
    /\ rows' = rows \ {x}
    /\ stayed' = stayed \ {x}
    /\ shrunk' = TRUE
    /\ UNCHANGED <<made, reader>>

EraseRow(x) ==
    \/ x \in rows /\ Unmatch(x) /\ UNCHANGED others
    \/ x \in others /\ others' = others \ {x} /\ UNCHANGED <<made, rows, reader, history>>

RenameRow(x) ==
    \/ x \in rows /\ Unmatch(x) /\ others' = others \cup {x}
    \/ /\ x \in others
       /\ others' = others \ {x} /\ rows' = rows \cup {x}
       /\ UNCHANGED <<made, reader, history>>

----
(***************************************************************************)
(* The reader.                                                             *)
(***************************************************************************)

\* ORDER BY: the rows that come before x in this order.
Before(x, sort) == {y \in rows : IF sort = "newest" THEN y > x ELSE y < x}

\* OFFSET (page - 1) * limit LIMIT limit
Page(sort, page) ==
    {x \in rows : Cardinality(Before(x, sort)) \in (page - 1) * Limit .. page * Limit - 1}

TotalPages(total) == (total + Limit - 1) \div Limit

\* A request for a page of a list.  Reading from the first page begins anew;
\* straight says that the pages since were asked for one after the other.
Ask(kind, sort, page, straight, shown) ==
    reader' = [kind |-> kind, sort |-> sort, page |-> page, left |-> Statements(kind),
               total |-> 0, straight |-> straight, shown |-> shown]

Begin(kind, sort, page) ==
    /\ Ask(kind, sort, page, page = 1, {})
    /\ stayed' = rows /\ shrunk' = FALSE

Open(kind, sort) == Begin(kind, sort, 1) /\ UNCHANGED table

\* A new search or order: the form sends the number of the page shown.
SubmitForm(sort) ==
    /\ reader.left = <<>> /\ reader.kind # "api"
    /\ Begin(reader.kind, sort, reader.page)
    /\ UNCHANGED table

ReadItems ==
    /\ reader.left # <<>> /\ Head(reader.left) = "items"
    /\ reader' = [reader EXCEPT !.left = Tail(@),
                                !.shown = @ \cup Page(reader.sort, reader.page)]
    /\ UNCHANGED <<table, history>>

Count ==
    /\ reader.left # <<>> /\ Head(reader.left) = "count"
    /\ reader' = [reader EXCEPT !.left = Tail(@), !.total = Cardinality(rows)]
    /\ UNCHANGED <<table, history>>

\* The links to the pages are shown when there is more than one; the page of
\* statistics has none.
Follow(page) ==
    /\ reader.left = <<>> /\ reader.kind # "stats"
    /\ TotalPages(reader.total) > 1 /\ page \in 1..TotalPages(reader.total)
    /\ IF page = 1
         THEN Begin(reader.kind, reader.sort, 1)
         ELSE /\ Ask(reader.kind, reader.sort, page,
                     reader.straight /\ page = reader.page + 1, reader.shown)
              /\ UNCHANGED history
    /\ UNCHANGED table

Init ==
    /\ made = 0 /\ rows = {} /\ others = {}
    /\ reader = [kind |-> "home", sort |-> "newest", page |-> 1, left |-> <<>>,
                 total |-> 0, straight |-> FALSE, shown |-> {}]
    /\ stayed = {} /\ shrunk = FALSE

Next ==
    \/ AddRow
    \/ \E x \in rows \cup others : EraseRow(x) \/ RenameRow(x)
    \/ \E kind \in Kinds, sort \in {"newest", "oldest"} : Open(kind, sort)
    \/ \E sort \in {"newest", "oldest"} : SubmitForm(sort)
    \/ ReadItems \/ Count
    \/ \E page \in 1..MaxRows : Follow(page)

Spec == Init /\ [][Next]_vars

----
\* Whoever goes from the first to the last page of a home page sees every row that
\* matched all the time, whatever rows are added, in either order, between the pages
\* and between the two statements of a page (pages/router.py:85-118).  It would not
\* hold if the rows were counted first, as GET /submissions does, and does not when
\* rows are erased meanwhile: the later ones move up.
EveryRowShown ==
    reader.kind = "home" /\ reader.left = <<>> /\ reader.straight /\ ~shrunk
      /\ reader.page >= TotalPages(reader.total)
        => stayed \subseteq reader.shown
====
