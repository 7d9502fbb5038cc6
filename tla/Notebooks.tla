---- MODULE Notebooks ----
(***************************************************************************)
(* What is done with a notebook of a tutor: it is checked, graded by its    *)
(* headers, stripped of solutions and hidden tests for the students, and   *)
(* run against a student's notebook in the sandbox.                        *)
(*                                                                         *)
(* A notebook is a sequence of cells, a cell a type and a sequence of      *)
(* lines, a line its kind: "tests" is "# Tests N points.", "undotted" the  *)
(* same without the dot, "indented" an indented "### BEGIN HIDDEN TESTS".  *)
(* Every test is worth one point.  A test passes when the solutions of the *)
(* cells before it have been run.                                          *)
(* Definitions named ...Mutant are plausible bugs, as in Submissions.      *)
(***************************************************************************)
EXTENDS Integers, Sequences, FiniteSets

CONSTANTS
    Cells,     \* cells that tutors write
    MaxCells,  \* bound on the cells of a notebook
    None       \* no notebook, no score

VARIABLES
    tutor,    \* the stored original notebook
    handout,  \* the stored modified notebook
    grade,    \* assignment.grade
    path,     \* which handler stored them
    work,     \* the student's notebook: cells with the place they come from
    score     \* what the sandbox printed for it

vars == <<tutor, handout, grade, path, work, score>>

LineKinds == {"def", "begin", "solution", "end", "tests", "undotted", "visible",
              "hiddenBegin", "indented", "hidden", "hiddenEnd", "write"}

Cell == [type: {"code", "markdown"}, lines: Seq(LineKinds)]

Has(c, kind) == \E i \in DOMAIN c.lines : c.lines[i] = kind

\* The first line of a kind
At(lines, kind) ==
    CHOOSE i \in DOMAIN lines :
        lines[i] = kind /\ \A j \in DOMAIN lines : lines[j] = kind => i <= j

Later(i, j) == IF i < j THEN j ELSE i

----
\* check_notebook: every cell with a function has a solution, every test hidden
\* tests, and there is a test.
BeginsHidden(c) == Has(c, "hiddenBegin") \/ Has(c, "indented")

IsTest(c) == c.type = "code" /\ Has(c, "tests")

Checked(nb) ==
    /\ \A k \in DOMAIN nb :
          /\ nb[k].type = "code" /\ Has(nb[k], "def") =>
                Has(nb[k], "begin") /\ Has(nb[k], "end")
          /\ IsTest(nb[k]) => BeginsHidden(nb[k]) /\ Has(nb[k], "hiddenEnd")
    /\ \E k \in DOMAIN nb : IsTest(nb[k])

\* get_total_points counts a cell once and does not ask for the dot.
TotalPoints(nb) ==
    Cardinality({k \in DOMAIN nb : nb[k].type = "code"
                                   /\ (Has(nb[k], "tests") \/ Has(nb[k], "undotted"))})

\* The lines from the first marker to the first end become one; an end on the
\* first line leaves the cell, an end before the marker only adds the line.
WithoutSolution(c) ==
    IF Has(c, "begin") /\ Has(c, "end") /\ At(c.lines, "end") > 1
      THEN LET b == At(c.lines, "begin")
               e == At(c.lines, "end")
           IN  [c EXCEPT !.lines = SubSeq(@, 1, b - 1) \o <<"write">>
                                   \o SubSeq(@, Later(b, e + 1), Len(@))]
      ELSE c

\* The slice goes to end_index + 1, and end_index is past the marker already.
WithoutHidden(c) ==
    IF BeginsHidden(c) /\ Has(c, "hiddenEnd")
      THEN LET b == At(c.lines, "hiddenBegin")
               e == At(c.lines, "hiddenEnd")
           IN  [c EXCEPT !.lines = SubSeq(@, 1, b - 1) \o SubSeq(@, Later(b, e + 2), Len(@))]
      ELSE c

StaleLinesMutant(c) ==
    LET d == WithoutSolution(c)
        b == At(c.lines, "hiddenBegin")
        e == At(c.lines, "hiddenEnd")
    IN  IF c.type = "code" /\ Has(d, "hiddenBegin") /\ Has(d, "hiddenEnd")
          THEN [d EXCEPT !.lines = SubSeq(@, 1, b - 1) \o SubSeq(@, Later(b, e + 2), Len(@))]
          ELSE d

ModifiedCell(c) == IF c.type = "code" THEN WithoutHidden(WithoutSolution(c)) ELSE c

\* list.index finds no indented marker and raises.
Raises(c) ==
    LET d == WithoutSolution(c)
    IN  c.type = "code" /\ BeginsHidden(d) /\ Has(d, "hiddenEnd") /\ ~Has(d, "hiddenBegin")

Modified(nb) == [k \in DOMAIN nb |-> ModifiedCell(nb[k])]

----
Notebook == UNION {[1..n -> Cells] : n \in 1..MaxCells}

ASSUME NotebooksAssumption == Cells \subseteq Cell /\ MaxCells \in Nat /\ None \notin Notebook

Accepted(nb) == Checked(nb) /\ \A k \in DOMAIN nb : ~Raises(nb[k])

Store(nb, by, points) ==
    /\ Accepted(nb)
    /\ tutor' = nb /\ handout' = Modified(nb) /\ grade' = points /\ path' = by
    /\ UNCHANGED <<work, score>>

\* process_and_upload_assignment grades the notebook before modify_notebook.
Create(nb) == tutor = None /\ Store(nb, "create", TotalPoints(nb))

\* update_file grades the object that modify_notebook has changed.
UpdateFile(nb) == tutor = None /\ Store(nb, "update", TotalPoints(Modified(nb)))

\* A student writes the solutions of the cells in done and adds a cell before
\* each of the places in added.
Filled(k, done) ==
    [from |-> k,
     lines |-> [i \in DOMAIN handout[k].lines |->
                  IF k \in done /\ handout[k].lines[i] = "write" THEN "solution"
                  ELSE handout[k].lines[i]]]

Shift(k, added) == k + Cardinality({p \in added : p <= k})

Written(done, added) ==
    [j \in 1..Len(handout) + Cardinality(added) |->
        IF \E k \in DOMAIN handout : Shift(k, added) = j
          THEN Filled(CHOOSE k \in DOMAIN handout : Shift(k, added) = j, done)
          ELSE [from |-> 0, lines |-> <<"visible">>]]

Solves(w, k) == w.from = k /\ (\E i \in DOMAIN w.lines : w.lines[i] = "solution")
                /\ \A i \in DOMAIN w.lines : w.lines[i] # "write"

TestFirstMutant(w, t) ==
    \A k \in 1..t - 1 : tutor[k].type = "code" /\ Has(tutor[k], "solution") =>
        \E j \in 1..t - 1 : j <= Len(w) /\ Solves(w[j], k)

\* Of cell t the student's is run first, then the tutor's test.
Passes(w, t) ==
    \A k \in 1..t - 1 : tutor[k].type = "code" /\ Has(tutor[k], "solution") =>
        \E j \in 1..t : j <= Len(w) /\ Solves(w[j], k)

\* The script of grade in the sandbox: a header without the dot is no test.
Scored(w) == Cardinality({t \in DOMAIN tutor : IsTest(tutor[t]) /\ Passes(w, t)})

Evaluate(done, added) ==
    /\ tutor # None /\ work = None
    /\ done \cup added \subseteq DOMAIN handout
    /\ work' = Written(done, added)
    /\ score' = Scored(work')
    /\ UNCHANGED <<tutor, handout, grade, path>>

Init ==
    /\ tutor = None /\ handout = None /\ grade = 0 /\ path = None
    /\ work = None /\ score = None

Next ==
    \/ \E nb \in Notebook : Create(nb) \/ UpdateFile(nb)
    \/ \E done, added \in SUBSET (1..MaxCells) : Evaluate(done, added)

Spec == Init /\ [][Next]_vars

----
Once(lines, kind) ==
    \A i, j \in DOMAIN lines : lines[i] = kind /\ lines[j] = kind => i = j

Between(lines, i, b, e) ==
    \E m, n \in DOMAIN lines : lines[m] = b /\ m < i /\ i < n /\ lines[n] = e

\* One block of each kind at most, neither inside the other, solutions and hidden
\* tests only in theirs.
WellMarked(c) ==
    LET l == c.lines
    IN  /\ \A kind \in {"begin", "end", "hiddenBegin", "hiddenEnd"} : Once(l, kind)
        /\ \A i \in DOMAIN l :
              /\ l[i] = "solution" => Between(l, i, "begin", "end")
              /\ l[i] = "hidden" => Between(l, i, "hiddenBegin", "hiddenEnd")
              /\ l[i] \in {"hiddenBegin", "hiddenEnd"} => ~Between(l, i, "begin", "end")
              /\ l[i] \in {"begin", "end"} => ~Between(l, i, "hiddenBegin", "hiddenEnd")
        /\ Has(c, "begin") /\ Has(c, "end") => At(l, "begin") < At(l, "end")
        /\ Has(c, "hiddenBegin") /\ Has(c, "hiddenEnd") =>
              At(l, "hiddenBegin") < At(l, "hiddenEnd")

\* The hidden tests end the cell, as in every example notebook.
EndsHidden(c) == Has(c, "hiddenEnd") => At(c.lines, "hiddenEnd") = Len(c.lines)

\* No header is in a block, where it would be cut with it.
HeadersOutside(c) ==
    \A i \in DOMAIN c.lines :
        c.lines[i] \in {"tests", "undotted"} =>
            /\ ~Between(c.lines, i, "begin", "end")
            /\ ~Between(c.lines, i, "hiddenBegin", "hiddenEnd")

Solution(c) == c.type = "code" /\ Has(c, "solution")

\* A cell that the checks accept and whose blocks are well marked shows the students
\* no line of a solution and no hidden test, however they are arranged in it
\* (modify_notebook cuts by line numbers, which the first cut moves).
HandoutHidesAnswers ==
    tutor # None => \A k \in DOMAIN handout :
        handout[k].type = "code" /\ WellMarked(tutor[k]) =>
            ~Has(handout[k], "solution") /\ ~Has(handout[k], "hidden")

\* No header is cut, neither with a block nor as the line lost after hidden tests.
Gradable == \A k \in DOMAIN tutor :
    WellMarked(tutor[k]) /\ EndsHidden(tutor[k]) /\ HeadersOutside(tutor[k])

SolvesAll == \A k \in DOMAIN tutor : Solution(tutor[k]) => \E j \in DOMAIN work : Solves(work[j], k)

\* The points that no student can get: get_total_points counts a header without the
\* dot, and the sandbox runs no test for it.
Unearned ==
    Cardinality({k \in DOMAIN tutor : /\ tutor[k].type = "code"
                                      /\ Has(tutor[k], "undotted") /\ ~Has(tutor[k], "tests")})

\* The grade is the points of the headers with a dot and of those without, of any
\* notebook at its creation and of one that replaces it if no header is cut.  Nobody
\* gets more than the first; who solves everything and adds one cell at most gets
\* them all, though the sandbox pairs the cells by their index.
PointsAddUp ==
    work # None =>
        /\ path = "create" \/ Gradable => score + Unearned <= grade
        /\ Gradable /\ SolvesAll /\ Len(work) <= Len(handout) + 1 => score + Unearned = grade

\* A cell of tests begins with "# Tests 10 points", the points for passing its tests
\* (instruction.html:37): who solves everything gets all the points.
GradeReachable ==
    work # None /\ Gradable /\ SolvesAll /\ Len(work) <= Len(handout) + 1 => score = grade

\* "Максимальное количество баллов" (the maximum of points) is the grade
\* (assignment-for-student.html:32): no score is above it.
ScoreWithinGrade == work # None => score <= grade

VisibleLines(lines) ==
    Cardinality({i \in DOMAIN lines : lines[i] = "visible" /\ ~Between(lines, i, "begin", "end")})

\* modify_notebook: "Удаляет скрытые тесты между маркерами" (removes the hidden tests
\* between the markers): all other lines of a well marked cell stay.
OnlyMarkedLinesGo ==
    tutor # None => \A k \in DOMAIN handout :
        WellMarked(tutor[k]) => VisibleLines(handout[k].lines) = VisibleLines(tutor[k].lines)
====
