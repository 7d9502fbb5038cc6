---- MODULE Notebooks_proofs ----
(***************************************************************************)
(* Proofs about Notebooks, for any cells and any number of them: what the  *)
(* two cuts of a cell leave, and that grade and score count the same tests. *)
(***************************************************************************)
EXTENDS Notebooks, FiniteSetTheorems, SequenceTheorems, TLAPS

Lines == Seq(LineKinds)

\* The lines b to e of l become those of m.
Replaced(l, b, e, m) == SubSeq(l, 1, b - 1) \o m \o SubSeq(l, e + 1, Len(l))

\* What a cell is after the first cut: its solution is gone, its hidden tests are
\* in their block.
Stripped(l) ==
    /\ \A i \in DOMAIN l : l[i] # "solution"
    /\ Once(l, "hiddenBegin") /\ Once(l, "hiddenEnd")
    /\ \A i \in DOMAIN l : l[i] = "hidden" => Between(l, i, "hiddenBegin", "hiddenEnd")
    /\ \A i, j \in DOMAIN l : l[i] = "hiddenBegin" /\ l[j] = "hiddenEnd" => i < j

\* The headers of a cell whose hidden tests end it stand before them.
HeadersFirst(l) ==
    \A i, j \in DOMAIN l :
        l[i] \in {"tests", "undotted"} /\ l[j] = "hiddenEnd" =>
            j = Len(l) /\ \A m \in DOMAIN l : l[m] = "hiddenBegin" => i < m

----
(***************************************************************************)
(* Lines.                                                                  *)
(***************************************************************************)

LEMMA LinesAre ==
    ASSUME NEW l \in Lines
    PROVE  /\ Len(l) \in Nat /\ DOMAIN l = 1..Len(l)
           /\ \A i \in DOMAIN l : i \in Nat \ {0} /\ l[i] \in LineKinds
BY LenProperties, ElementOfSeq DEF Lines

LEMMA AtOnce ==
    ASSUME NEW l, NEW kind, Once(l, kind), NEW i \in DOMAIN l, l[i] = kind,
           \A j \in DOMAIN l : j \in Nat
    PROVE  At(l, kind) = i
BY DEF Once, At

\* The lines of c are those of l before b, those of m and those of l after e.
Copied(c, l, b, e, m) ==
    /\ c \in Lines
    /\ e < Len(l) => Len(c) = b - 1 + Len(m) + (Len(l) - e)
    /\ ~(e < Len(l)) => Len(c) = b - 1 + Len(m)
    /\ \A j \in 1..b - 1 : c[j] = l[j]
    /\ \A j \in 1..Len(m) : c[b - 1 + j] = m[j]
    /\ \A j \in e + 1..Len(l) : c[j - e + Len(m) + b - 1] = l[j]

LEMMA ReplacedLines ==
    ASSUME NEW l \in Lines, NEW b \in 1..Len(l), NEW e \in Nat, b <= e, NEW m \in Lines
    PROVE  Copied(Replaced(l, b, e, m), l, b, e, m)
<1> DEFINE n == Len(m)
           c == Replaced(l, b, e, m)
<1>1. Len(l) \in Nat /\ n \in Nat
  BY LinesAre
<1> DEFINE head == SubSeq(l, 1, b - 1)
           tail == SubSeq(l, e + 1, Len(l))
<1>2. head \in Lines /\ Len(head) = b - 1 /\ \A j \in 1..b - 1 : head[j] = l[j]
  BY <1>1 DEF Lines
<1>3. /\ tail \in Lines /\ Len(tail) = (IF e < Len(l) THEN Len(l) - e ELSE 0)
      /\ \A j \in 1..Len(tail) : tail[j] = l[e + j]
  BY <1>1 DEF Lines
<1>0. c = (head \o m) \o tail
  BY DEF Replaced
<1>n. n = Len(m) /\ c = Replaced(l, b, e, m)
  OBVIOUS
<1> HIDE DEF head, tail, n, c
<1> DEFINE k == b - 1 + n
           left == head \o m
<1>4. /\ left \in Lines /\ Len(left) = k
      /\ \A j \in 1..k : left[j] = IF j <= b - 1 THEN head[j] ELSE m[j - (b - 1)]
  <2>1. head \in Seq(LineKinds) /\ m \in Seq(LineKinds)
    BY <1>2 DEF Lines
  <2>2. /\ left \in Seq(LineKinds) /\ Len(left) = Len(head) + Len(m)
        /\ \A j \in 1..Len(head) + Len(m) :
              left[j] = IF j <= Len(head) THEN head[j] ELSE m[j - Len(head)]
    BY <2>1, ConcatProperties
  <2> QED BY <1>2, <1>n, <2>2 DEF Lines
<1> HIDE DEF left
<1>t. Len(tail) \in Nat /\ k \in Nat
  BY <1>1, <1>3
<1>5. /\ c \in Lines /\ Len(c) = k + Len(tail)
      /\ \A j \in 1..k + Len(tail) : c[j] = IF j <= k THEN left[j] ELSE tail[j - k]
  <2>1. left \in Seq(LineKinds) /\ tail \in Seq(LineKinds) /\ c = left \o tail
    BY <1>0, <1>3, <1>4 DEF Lines, left
  <2>2. /\ c \in Seq(LineKinds) /\ Len(c) = Len(left) + Len(tail)
        /\ \A j \in 1..Len(left) + Len(tail) :
              c[j] = IF j <= Len(left) THEN left[j] ELSE tail[j - Len(left)]
    BY <2>1, ConcatProperties
  <2> QED BY <1>4, <2>2 DEF Lines
<1>6. \A j \in 1..b - 1 : c[j] = l[j]
  <2> TAKE j \in 1..b - 1
  <2>1. j \in 1..k /\ j \in 1..k + Len(tail) /\ j <= k /\ j <= b - 1
    BY <1>1, <1>t
  <2> QED BY <1>2, <1>4, <1>5, <2>1
<1>7. \A j \in 1..n : c[b - 1 + j] = m[j]
  <2> TAKE j \in 1..n
  <2> DEFINE p == b - 1 + j
  <2>1. p \in 1..k /\ p \in 1..k + Len(tail) /\ p <= k /\ ~(p <= b - 1) /\ p - (b - 1) = j
    BY <1>1, <1>t
  <2> HIDE DEF p
  <2>2. c[p] = m[j]
    BY <1>4, <1>5, <2>1
  <2> QED BY <2>2 DEF p
<1>8. \A j \in e + 1..Len(l) : c[j - e + n + b - 1] = l[j]
  <2> TAKE j \in e + 1..Len(l)
  <2> DEFINE p == j - e + n + b - 1
  <2>1. /\ p \in 1..k + Len(tail) /\ ~(p <= k)
        /\ p - k = j - e /\ j - e \in 1..Len(tail) /\ e + (j - e) = j
    <3>1. Len(tail) = Len(l) - e
      BY <1>1, <1>3
    <3> QED BY <1>1, <3>1
  <2> HIDE DEF p, k
  <2>2. c[p] = tail[j - e]
    BY <1>5, <2>1
  <2>3. tail[j - e] = l[j]
    BY <1>3, <2>1
  <2> QED BY <2>2, <2>3 DEF p
<1>9. /\ e < Len(l) => Len(tail) = Len(l) - e
      /\ ~(e < Len(l)) => Len(tail) = 0
  BY <1>1, <1>3
<1>10. /\ e < Len(l) => Len(c) = b - 1 + n + (Len(l) - e)
       /\ ~(e < Len(l)) => Len(c) = b - 1 + n
  <2>1. Len(c) = k + Len(tail)
    BY <1>5
  <2> QED BY <1>1, <1>t, <1>9, <2>1
<1> QED BY <1>5, <1>6, <1>7, <1>8, <1>10 DEF Copied, n, c

\* The lines but b to e.
Rest(len, b, e) == (1..len) \ (b..e)

\* The place of line j when the lines b to e have become n.
Moved(j, b, e, n) == IF j < b THEN j ELSE j - e + n + b - 1

\* With k lines then, all places but those of the n are of one line, in order.
Placed(len, b, e, n, k) ==
    /\ \A j \in Rest(len, b, e) :
          /\ Moved(j, b, e, n) \in 1..k
          /\ \/ j \in 1..b - 1 /\ Moved(j, b, e, n) = j
             \/ j \in e + 1..len /\ Moved(j, b, e, n) = j - e + n + b - 1
    /\ \A p \in 1..k :
          \/ \E i \in 1..n : p = b - 1 + i
          \/ \E j \in Rest(len, b, e) : p = Moved(j, b, e, n)
    /\ \A i, j \in Rest(len, b, e) : i < j => Moved(i, b, e, n) < Moved(j, b, e, n)
    /\ len \in Rest(len, b, e) => Moved(len, b, e, n) = k

LEMMA Places ==
    ASSUME NEW len \in Nat, NEW b \in 1..len, NEW e \in Nat, b <= e, NEW n \in Nat, NEW k,
           e < len => k = b - 1 + n + (len - e), ~(e < len) => k = b - 1 + n
    PROVE  Placed(len, b, e, n, k)
<1> DEFINE rest == Rest(len, b, e)
           to(j) == Moved(j, b, e, n)
<1> USE DEF Rest
<1>1. ASSUME NEW j \in rest
      PROVE  /\ to(j) \in 1..k
             /\ \/ j \in 1..b - 1 /\ to(j) = j
                \/ j \in e + 1..len /\ to(j) = j - e + n + b - 1
  BY DEF Moved
<1>2. ASSUME NEW p \in 1..k
      PROVE  (\E i \in 1..n : p = b - 1 + i) \/ (\E j \in rest : p = to(j))
  <2>1. CASE p \in 1..b - 1
    <3>1. p \in rest /\ to(p) = p
      BY <2>1 DEF Moved
    <3> QED BY <3>1
  <2>2. CASE p \in b..b - 1 + n
    <3>1. p - (b - 1) \in 1..n /\ p = b - 1 + (p - (b - 1))
      BY <2>2
    <3> QED BY <3>1
  <2>3. CASE p > b - 1 + n
    <3> DEFINE j == p - n - b + 1 + e
    <3>1. j \in rest /\ to(j) = p
      BY <2>3 DEF Moved
    <3> QED BY <3>1
  <2> QED BY <2>1, <2>2, <2>3
<1>3. ASSUME NEW i \in rest, NEW j \in rest, i < j
      PROVE  to(i) < to(j)
  BY <1>3 DEF Moved
<1>4. ASSUME len \in rest PROVE to(len) = k
  BY <1>4 DEF Moved
<1> HIDE DEF Rest
<1> QED BY <1>1, <1>2, <1>3, <1>4 DEF Placed

\* The other lines stay in their order, and nothing is added but m.
Spliced(c, l, b, e, m) ==
    LET rest == Rest(Len(l), b, e)
        to(j) == Moved(j, b, e, Len(m))
    IN  /\ c \in Lines
        /\ \A j \in rest : to(j) \in DOMAIN c /\ c[to(j)] = l[j]
        /\ \A p \in DOMAIN c :
              (\E i \in DOMAIN m : c[p] = m[i]) \/ (\E j \in rest : p = to(j))
        /\ \A i, j \in rest : i < j => to(i) < to(j)
        /\ Len(l) \in rest => to(Len(l)) = Len(c)

LEMMA CutLines ==
    ASSUME NEW l \in Lines, NEW b \in 1..Len(l), NEW e \in Nat, b <= e, NEW m \in Lines
    PROVE  Spliced(Replaced(l, b, e, m), l, b, e, m)
<1> DEFINE c == Replaced(l, b, e, m)
           rest == Rest(Len(l), b, e)
           to(j) == Moved(j, b, e, Len(m))
<1>1. Copied(c, l, b, e, m)
  BY ReplacedLines
<1> HIDE DEF c
<1>2. /\ Len(m) \in Nat /\ Len(l) \in Nat /\ c \in Lines
      /\ DOMAIN l = 1..Len(l) /\ DOMAIN m = 1..Len(m) /\ DOMAIN c = 1..Len(c)
  BY <1>1, LinesAre DEF Copied
<1>3. /\ e < Len(l) => Len(c) = b - 1 + Len(m) + (Len(l) - e)
      /\ ~(e < Len(l)) => Len(c) = b - 1 + Len(m)
  BY <1>1 DEF Copied
<1>4. Placed(Len(l), b, e, Len(m), Len(c))
  BY <1>2, <1>3, Places
<1>5. ASSUME NEW j \in rest PROVE to(j) \in DOMAIN c /\ c[to(j)] = l[j]
  <2>1. /\ to(j) \in 1..Len(c)
        /\ \/ j \in 1..b - 1 /\ to(j) = j
           \/ j \in e + 1..Len(l) /\ to(j) = j - e + Len(m) + b - 1
    BY <1>4 DEF Placed
  <2> QED BY <1>1, <1>2, <2>1 DEF Copied
<1>6. ASSUME NEW p \in DOMAIN c
      PROVE  (\E i \in DOMAIN m : c[p] = m[i]) \/ (\E j \in rest : p = to(j))
  <2>1. (\E i \in 1..Len(m) : p = b - 1 + i) \/ (\E j \in rest : p = to(j))
    BY <1>2, <1>4 DEF Placed
  <2>2. ASSUME NEW i \in 1..Len(m), p = b - 1 + i PROVE c[p] = m[i]
    BY <1>1, <2>2 DEF Copied
  <2> QED BY <1>2, <2>1, <2>2
<1>7. /\ \A i, j \in rest : i < j => to(i) < to(j)
      /\ Len(l) \in rest => to(Len(l)) = Len(c)
  BY <1>4 DEF Placed
<1> HIDE DEF to, rest
<1> QED BY <1>2, <1>5, <1>6, <1>7 DEF Spliced, to, rest, c

----
(***************************************************************************)
(* The first cut.                                                          *)
(***************************************************************************)

LEMMA SolutionCut ==
    ASSUME NEW c \in Cell, Has(c, "begin"), Has(c, "end"), WellMarked(c)
    PROVE  \E b, e \in DOMAIN c.lines :
             /\ b < e /\ c.lines[b] = "begin" /\ c.lines[e] = "end"
             /\ WithoutSolution(c).type = c.type
             /\ WithoutSolution(c).lines = Replaced(c.lines, b, e, <<"write">>)
<1> DEFINE l == c.lines
<1>1. l \in Lines /\ Once(l, "begin") /\ Once(l, "end")
  BY DEF Cell, Lines, WellMarked
<1>2. PICK b \in DOMAIN l : l[b] = "begin"
  BY DEF Has
<1>3. PICK e \in DOMAIN l : l[e] = "end"
  BY DEF Has
<1>4. \A j \in DOMAIN l : j \in Nat \ {0}
  BY <1>1, LinesAre
<1>5. At(l, "begin") = b /\ At(l, "end") = e
  BY <1>1, <1>2, <1>3, <1>4, AtOnce
<1>6. b < e
  BY <1>5 DEF WellMarked
<1>7. e > 1 /\ Later(b, e + 1) = e + 1
  BY <1>4, <1>6 DEF Later
<1>8. WithoutSolution(c) = [c EXCEPT !.lines = Replaced(l, b, e, <<"write">>)]
  BY <1>5, <1>7 DEF WithoutSolution, Replaced
<1> QED BY <1>2, <1>3, <1>6, <1>8 DEF Cell

\* A well marked cell has no solution after it, its hidden tests in their block
\* and, if they end it, its headers before them.
LEMMA AfterSolutionCut ==
    ASSUME NEW c \in Cell, WellMarked(c), NEW d, d = WithoutSolution(c)
    PROVE  /\ d \in Cell /\ d.type = c.type /\ Stripped(d.lines)
           /\ HeadersOutside(c) =>
                \A kind \in {"tests", "undotted"} : Has(d, kind) <=> Has(c, kind)
           /\ HeadersOutside(c) /\ EndsHidden(c) => HeadersFirst(d.lines)
<1> DEFINE l == c.lines
<1>1. l \in Lines /\ c.type \in {"code", "markdown"}
  BY DEF Cell, Lines
<1>2. Len(l) \in Nat /\ DOMAIN l = 1..Len(l) /\ \A j \in DOMAIN l : j \in Nat \ {0}
  BY <1>1, LinesAre
<1>3. /\ \A kind \in {"begin", "end", "hiddenBegin", "hiddenEnd"} : Once(l, kind)
      /\ \A i \in DOMAIN l :
            /\ l[i] = "solution" => Between(l, i, "begin", "end")
            /\ l[i] = "hidden" => Between(l, i, "hiddenBegin", "hiddenEnd")
            /\ l[i] \in {"hiddenBegin", "hiddenEnd"} => ~Between(l, i, "begin", "end")
            /\ l[i] \in {"begin", "end"} => ~Between(l, i, "hiddenBegin", "hiddenEnd")
  BY DEF WellMarked
<1>4. \A i, j \in DOMAIN l : l[i] = "hiddenBegin" /\ l[j] = "hiddenEnd" => i < j
  <2> SUFFICES ASSUME NEW i \in DOMAIN l, NEW j \in DOMAIN l,
                      l[i] = "hiddenBegin", l[j] = "hiddenEnd"
               PROVE  i < j
    OBVIOUS
  <2>1. At(l, "hiddenBegin") = i /\ At(l, "hiddenEnd") = j
    BY <1>2, <1>3, AtOnce
  <2>2. Has(c, "hiddenBegin") /\ Has(c, "hiddenEnd")
    BY DEF Has
  <2> QED BY <2>1, <2>2 DEF WellMarked
<1>5. HeadersOutside(c) /\ EndsHidden(c) => HeadersFirst(l)
  <2> SUFFICES ASSUME HeadersOutside(c), EndsHidden(c),
                      NEW i \in DOMAIN l, NEW j \in DOMAIN l,
                      l[i] \in {"tests", "undotted"}, l[j] = "hiddenEnd"
               PROVE  j = Len(l) /\ \A m \in DOMAIN l : l[m] = "hiddenBegin" => i < m
    BY DEF HeadersFirst
  <2>1. At(l, "hiddenEnd") = j /\ Has(c, "hiddenEnd")
    BY <1>2, <1>3, AtOnce DEF Has
  <2>2. j = Len(l) /\ i < j
    BY <1>2, <2>1 DEF EndsHidden
  <2>3. ASSUME NEW m \in DOMAIN l, l[m] = "hiddenBegin" PROVE i < m
    <3>1. ~Between(l, i, "hiddenBegin", "hiddenEnd")
      BY DEF HeadersOutside
    <3>2. ~(m < i)
      BY <2>2, <2>3, <3>1 DEF Between
    <3> QED BY <1>2, <2>3, <3>2
  <2> QED BY <2>2, <2>3
<1>6. CASE Has(c, "begin") /\ Has(c, "end")
  <2>1. PICK b, e \in DOMAIN l :
          /\ b < e /\ l[b] = "begin" /\ l[e] = "end"
          /\ d.type = c.type /\ d.lines = Replaced(l, b, e, <<"write">>)
    BY <1>6, SolutionCut
  <2> DEFINE m == <<"write">>
             rest == Rest(Len(l), b, e)
             to(j) == Moved(j, b, e, Len(m))
             r == d.lines
  <2>2. b \in 1..Len(l) /\ e \in Nat /\ b <= e /\ m \in Lines
    BY <1>2, <2>1 DEF Lines, LineKinds
  <2>3. /\ r \in Lines
        /\ \A j \in rest : to(j) \in DOMAIN r /\ r[to(j)] = l[j]
        /\ \A p \in DOMAIN r :
              (\E i \in DOMAIN m : r[p] = m[i]) \/ (\E j \in rest : p = to(j))
        /\ \A i, j \in rest : i < j => to(i) < to(j)
        /\ Len(l) \in rest => to(Len(l)) = Len(r)
    <3>1. Spliced(r, l, b, e, m)
      BY <1>1, <2>1, <2>2, CutLines
    <3> QED BY <3>1 DEF Spliced
  <2>r. rest = DOMAIN l \ (b..e)
    BY <1>2 DEF Rest
  <2>4. \A i \in DOMAIN m : m[i] = "write"
    OBVIOUS
  <2>5. \A p \in DOMAIN r : r[p] = "write" \/ \E j \in rest : p = to(j) /\ r[p] = l[j]
    BY <2>3, <2>4
  <2>6. \A i \in DOMAIN l : b < i /\ i < e <=> Between(l, i, "begin", "end")
    BY <1>3, <2>1 DEF Between, Once
  <2>7. \A i \in DOMAIN l : l[i] \in {"hiddenBegin", "hiddenEnd"} => i \in rest
    BY <1>2, <1>3, <2>r, <2>1, <2>6
  <2>8. \A i \in rest : l[i] # "solution"
    BY <1>2, <1>3, <2>r, <2>1, <2>6
  <2> HIDE DEF to, m, rest
  <2>9. Stripped(r)
    <3>0. \A p \in DOMAIN r : r[p] # "solution"
      BY <2>5, <2>8
    <3>1. ASSUME NEW kind \in {"hiddenBegin", "hiddenEnd"} PROVE Once(r, kind)
      BY <1>3, <2>5, <2>r DEF Once
    <3>2. ASSUME NEW p \in DOMAIN r, r[p] = "hidden"
          PROVE  Between(r, p, "hiddenBegin", "hiddenEnd")
      <4>1. PICK i \in rest : p = to(i) /\ l[i] = "hidden"
        BY <2>5, <3>2
      <4>2. PICK x, y \in DOMAIN l : /\ l[x] = "hiddenBegin" /\ x < i
                                    /\ i < y /\ l[y] = "hiddenEnd"
        BY <1>3, <4>1, <2>r DEF Between
      <4>3. x \in rest /\ y \in rest
        BY <2>7, <4>2
      <4> QED BY <2>3, <4>1, <4>2, <4>3 DEF Between
    <3>3. \A p, q \in DOMAIN r : r[p] = "hiddenBegin" /\ r[q] = "hiddenEnd" => p < q
      <4> SUFFICES ASSUME NEW p \in DOMAIN r, NEW q \in DOMAIN r,
                          r[p] = "hiddenBegin", r[q] = "hiddenEnd"
                   PROVE  p < q
        OBVIOUS
      <4>1. PICK i \in rest : p = to(i) /\ l[i] = "hiddenBegin"
        BY <2>5
      <4>2. PICK j \in rest : q = to(j) /\ l[j] = "hiddenEnd"
        BY <2>5
      <4>3. i < j
        BY <1>4, <4>1, <4>2, <2>r
      <4> QED BY <2>3, <4>1, <4>2, <4>3
    <3> QED BY <3>0, <3>1, <3>2, <3>3 DEF Stripped
  <2>10. ASSUME HeadersOutside(c), NEW kind \in {"tests", "undotted"}
         PROVE  Has(d, kind) <=> Has(c, kind)
    <3>1. \A i \in DOMAIN l : l[i] = kind => i \in rest
      BY <1>2, <2>r, <2>1, <2>6, <2>10 DEF HeadersOutside
    <3>2. Has(c, kind) => Has(d, kind)
      BY <2>3, <3>1 DEF Has
    <3>3. Has(d, kind) => Has(c, kind)
      BY <2>5, <2>10, <2>r DEF Has
    <3> QED BY <3>2, <3>3
  <2>11. ASSUME HeadersFirst(l) PROVE HeadersFirst(r)
    <3> SUFFICES ASSUME NEW p \in DOMAIN r, NEW q \in DOMAIN r,
                        r[p] \in {"tests", "undotted"}, r[q] = "hiddenEnd"
                 PROVE  q = Len(r) /\ \A x \in DOMAIN r : r[x] = "hiddenBegin" => p < x
      BY DEF HeadersFirst
    <3>1. PICK i \in rest : p = to(i) /\ l[i] \in {"tests", "undotted"}
      BY <2>5
    <3>2. PICK j \in rest : q = to(j) /\ l[j] = "hiddenEnd"
      BY <2>5
    <3>3. j = Len(l) /\ \A x \in DOMAIN l : l[x] = "hiddenBegin" => i < x
      BY <2>11, <3>1, <3>2, <2>r DEF HeadersFirst
    <3>4. ASSUME NEW x \in DOMAIN r, r[x] = "hiddenBegin" PROVE p < x
      <4>1. PICK y \in rest : x = to(y) /\ l[y] = "hiddenBegin"
        BY <2>5, <3>4
      <4>2. i < y
        BY <3>3, <4>1, <2>r
      <4> QED BY <2>3, <3>1, <4>1, <4>2
    <3> QED BY <2>3, <3>2, <3>3, <3>4
  <2>12. d \in Cell
    <3>1. d = [c EXCEPT !.lines = d.lines]
      BY <1>6, <2>1 DEF WithoutSolution, Cell
    <3> QED BY <2>3, <3>1 DEF Cell, Lines
  <2> QED BY <1>5, <2>1, <2>9, <2>10, <2>11, <2>12
<1>7. CASE ~(Has(c, "begin") /\ Has(c, "end"))
  <2>1. d = c
    BY <1>7 DEF WithoutSolution
  <2>2. \A i \in DOMAIN l : l[i] # "solution"
    BY <1>3, <1>7 DEF Between, Has
  <2>3. Stripped(l)
    BY <1>3, <1>4, <2>2 DEF Stripped
  <2> QED BY <1>5, <2>1, <2>3
<1> QED BY <1>6, <1>7

----
(***************************************************************************)
(* The second cut.                                                         *)
(***************************************************************************)

\* It leaves no hidden test, and the headers that stand before.
LEMMA AfterHiddenCut ==
    ASSUME NEW d \in Cell, Stripped(d.lines), NEW r, r = WithoutHidden(d),
           BeginsHidden(d) /\ Has(d, "hiddenEnd") => Has(d, "hiddenBegin")
    PROVE  /\ r.type = d.type /\ ~Has(r, "solution") /\ ~Has(r, "hidden")
           /\ HeadersFirst(d.lines) =>
                \A kind \in {"tests", "undotted"} : Has(r, kind) <=> Has(d, kind)
<1> DEFINE l == d.lines
           n == r.lines
<1>1. l \in Lines
  BY DEF Cell, Lines
<1>2. Len(l) \in Nat /\ DOMAIN l = 1..Len(l) /\ \A j \in DOMAIN l : j \in Nat \ {0}
  BY <1>1, LinesAre
<1>3. CASE BeginsHidden(d) /\ Has(d, "hiddenEnd")
  <2>1. PICK b \in DOMAIN l : l[b] = "hiddenBegin"
    BY <1>3 DEF Has
  <2>2. PICK e \in DOMAIN l : l[e] = "hiddenEnd"
    BY <1>3 DEF Has
  <2>3. At(l, "hiddenBegin") = b /\ At(l, "hiddenEnd") = e
    BY <1>2, <2>1, <2>2, AtOnce DEF Stripped
  <2>4. b < e
    BY <2>1, <2>2 DEF Stripped
  <2>5. b \in 1..Len(l) /\ e + 1 \in Nat /\ b <= e + 1 /\ Later(b, e + 2) = e + 2
    BY <1>2, <2>4 DEF Later
  <2>6. SubSeq(l, 1, b - 1) \o SubSeq(l, e + 2, Len(l)) = Replaced(l, b, e + 1, <<>>)
    <3>1. SubSeq(l, 1, b - 1) \in Seq(LineKinds)
      BY <1>1, <1>2, <2>5 DEF Lines
    <3>2. SubSeq(l, 1, b - 1) \o <<>> = SubSeq(l, 1, b - 1)
      BY <3>1, ConcatEmptySeq
    <3>3. e + 1 + 1 = e + 2
      BY <1>2, <2>2
    <3> QED BY <3>2, <3>3 DEF Replaced
  <2>7. r = [d EXCEPT !.lines = Replaced(l, b, e + 1, <<>>)]
    BY <1>3, <2>3, <2>5, <2>6 DEF WithoutHidden
  <2>8. r.type = d.type /\ n = Replaced(l, b, e + 1, <<>>)
    BY <2>7 DEF Cell
  <2> DEFINE rest == Rest(Len(l), b, e + 1)
             to(j) == Moved(j, b, e + 1, Len(<<>>))
  <2>9. /\ \A j \in rest : to(j) \in DOMAIN n /\ n[to(j)] = l[j]
        /\ \A p \in DOMAIN n : \E j \in rest : p = to(j)
    <3>1. Spliced(n, l, b, e + 1, <<>>)
      <4>1. <<>> \in Lines
        BY DEF Lines
      <4> QED BY <1>1, <2>5, <2>8, <4>1, CutLines
    <3>2. DOMAIN <<>> = {}
      OBVIOUS
    <3> QED BY <3>1, <3>2 DEF Spliced
  <2>10. rest = DOMAIN l \ (b..e + 1)
    BY <1>2 DEF Rest
  <2> HIDE DEF to, rest
  <2>11. \A p \in DOMAIN n : \E j \in rest : n[p] = l[j]
    BY <2>9
  <2>12. \A j \in rest : l[j] # "solution" /\ l[j] # "hidden"
    <3>1. ASSUME NEW j \in rest, l[j] = "hidden" PROVE FALSE
      <4>1. PICK x, y \in DOMAIN l : /\ l[x] = "hiddenBegin" /\ x < j
                                    /\ j < y /\ l[y] = "hiddenEnd"
        BY <2>10, <3>1 DEF Stripped, Between
      <4>2. x = b /\ y = e
        BY <2>1, <2>2, <4>1 DEF Stripped, Once
      <4> QED BY <1>2, <2>10, <4>1, <4>2
    <3> QED BY <2>10, <3>1 DEF Stripped
  <2>13. ~Has(r, "solution") /\ ~Has(r, "hidden")
    BY <2>11, <2>12 DEF Has
  <2>14. ASSUME HeadersFirst(l), NEW kind \in {"tests", "undotted"}
         PROVE  Has(r, kind) <=> Has(d, kind)
    <3>1. \A j \in DOMAIN l : l[j] = kind => j < b
      BY <2>1, <2>2, <2>14 DEF HeadersFirst
    <3>2. \A j \in DOMAIN l : l[j] = kind => j \in rest
      BY <1>2, <2>10, <3>1
    <3> QED BY <2>9, <2>10, <2>11, <3>2 DEF Has
  <2> QED BY <2>8, <2>13, <2>14
<1>4. CASE ~(BeginsHidden(d) /\ Has(d, "hiddenEnd"))
  <2>1. r = d
    BY <1>4 DEF WithoutHidden
  <2>2. ~Has(d, "hidden") /\ ~Has(d, "solution")
    BY <1>4 DEF Stripped, Between, BeginsHidden, Has
  <2> QED BY <2>1, <2>2
<1> QED BY <1>3, <1>4

\* What modify_notebook leaves of a cell.
LEMMA ModifiedCells ==
    ASSUME NEW c \in Cell, ~Raises(c), WellMarked(c), c.type = "code"
    PROVE  /\ ModifiedCell(c).type = "code"
           /\ ~Has(ModifiedCell(c), "solution") /\ ~Has(ModifiedCell(c), "hidden")
           /\ HeadersOutside(c) /\ EndsHidden(c) =>
                \A kind \in {"tests", "undotted"} : Has(ModifiedCell(c), kind) <=> Has(c, kind)
<1>1. PICK d : d = WithoutSolution(c)
  OBVIOUS
<1>2. PICK r : r = WithoutHidden(d)
  OBVIOUS
<1>3. ModifiedCell(c) = r
  BY <1>1, <1>2 DEF ModifiedCell
<1>4. /\ d \in Cell /\ d.type = "code" /\ Stripped(d.lines)
      /\ HeadersOutside(c) =>
           \A kind \in {"tests", "undotted"} : Has(d, kind) <=> Has(c, kind)
      /\ HeadersOutside(c) /\ EndsHidden(c) => HeadersFirst(d.lines)
  BY <1>1, AfterSolutionCut
<1>5. BeginsHidden(d) /\ Has(d, "hiddenEnd") => Has(d, "hiddenBegin")
  BY <1>1 DEF Raises
<1>6. /\ r.type = d.type /\ ~Has(r, "solution") /\ ~Has(r, "hidden")
      /\ HeadersFirst(d.lines) =>
           \A kind \in {"tests", "undotted"} : Has(r, kind) <=> Has(d, kind)
  BY <1>2, <1>4, <1>5, AfterHiddenCut
<1> QED BY <1>3, <1>4, <1>6

LEMMA ModifiedType ==
    ASSUME NEW c \in Cell
    PROVE  ModifiedCell(c).type = c.type
<1>1. \A lines : [c EXCEPT !.lines = lines].type = c.type
  BY DEF Cell
<1>2. PICK d : d = WithoutSolution(c)
  OBVIOUS
<1>3. d = c \/ \E lines : d = [c EXCEPT !.lines = lines]
  BY <1>2 DEF WithoutSolution
<1>4. d.type = c.type /\ \A lines : [d EXCEPT !.lines = lines].type = c.type
  BY <1>1, <1>3 DEF Cell
<1>5. WithoutHidden(d).type = c.type
  BY <1>4 DEF WithoutHidden
<1> QED BY <1>2, <1>5 DEF ModifiedCell

----
(***************************************************************************)
(* What is stored and what is graded.                                      *)
(***************************************************************************)

StoredInv ==
    /\ tutor # None =>
         /\ tutor \in Notebook /\ Accepted(tutor) /\ handout = Modified(tutor)
         /\ path \in {"create", "update"}
         /\ grade = IF path = "create" THEN TotalPoints(tutor) ELSE TotalPoints(handout)
    /\ work # None =>
         /\ tutor # None
         /\ \E done, added \in SUBSET DOMAIN handout : work = Written(done, added)
         /\ score = Scored(work)

LEMMA StoredInvariant == Spec => []StoredInv
<1>1. Init => StoredInv
  BY DEF Init, StoredInv
<1>2. StoredInv /\ [Next]_vars => StoredInv'
  <2> SUFFICES ASSUME StoredInv, [Next]_vars PROVE StoredInv'
    OBVIOUS
  <2>1. ASSUME NEW nb \in Notebook, NEW by \in {"create", "update"}, NEW points,
               tutor = None, Store(nb, by, points),
               points = IF by = "create" THEN TotalPoints(nb) ELSE TotalPoints(Modified(nb))
        PROVE  StoredInv'
    <3>1. work' = None
      BY <2>1 DEF Store, StoredInv
    <3>2. /\ tutor' = nb /\ handout' = Modified(nb) /\ grade' = points /\ path' = by
          /\ Accepted(nb)
      BY <2>1 DEF Store
    <3> QED BY <2>1, <3>1, <3>2 DEF StoredInv
  <2>2. CASE \E nb \in Notebook : Create(nb) \/ UpdateFile(nb)
    BY <2>1, <2>2 DEF Create, UpdateFile
  <2>3. ASSUME NEW done, NEW added, Evaluate(done, added)
        PROVE  StoredInv'
    <3>1. /\ UNCHANGED <<tutor, handout, grade, path>> /\ tutor # None
          /\ work' = Written(done, added) /\ score' = Scored(work')
          /\ done \in SUBSET DOMAIN handout /\ added \in SUBSET DOMAIN handout
      BY <2>3 DEF Evaluate
    <3>2. Written(done, added)' = Written(done, added) /\ Scored(work)' = Scored(work')
      BY <3>1 DEF Written, Filled, Scored, Passes, IsTest
    <3> QED BY <3>1, <3>2 DEF StoredInv
  <2>4. CASE UNCHANGED vars
    <3>1. UNCHANGED <<tutor, handout, grade, path, work, score>>
      BY <2>4 DEF vars
    <3>2. ASSUME NEW done, NEW added PROVE Written(done, added)' = Written(done, added)
      BY <3>1 DEF Written, Filled
    <3>3. Scored(work)' = Scored(work)
      BY <3>1 DEF Scored, Passes, IsTest
    <3> QED BY <3>1, <3>2, <3>3 DEF StoredInv
  <2> QED BY <2>2, <2>3, <2>4 DEF Next
<1> QED BY <1>1, <1>2, PTL DEF Spec

\* Cells are cells, and the handout has as many.
LEMMA StoredCells ==
    ASSUME StoredInv, tutor # None
    PROVE  /\ \E n \in Nat : /\ DOMAIN tutor = 1..n /\ DOMAIN handout = 1..n
                             /\ Len(handout) = n
           /\ \A k \in DOMAIN tutor :
                 /\ tutor[k] \in Cell /\ ~Raises(tutor[k])
                 /\ handout[k] = ModifiedCell(tutor[k])
<1>1. PICK n \in 1..MaxCells : tutor \in [1..n -> Cells]
  BY DEF StoredInv, Notebook
<1>2. n \in Nat /\ Cells \subseteq Cell
  BY <1>1, NotebooksAssumption
<1>3. handout = [k \in 1..n |-> ModifiedCell(tutor[k])] /\ \A k \in 1..n : ~Raises(tutor[k])
  BY <1>1 DEF StoredInv, Modified, Accepted
<1>4. Len(handout) = n
  <2> DEFINE S == {handout[k] : k \in 1..n}
  <2>1. handout \in [1..n -> S]
    BY <1>3
  <2> HIDE DEF S
  <2>2. handout \in Seq(S)
    BY <1>2, <2>1, SeqDef
  <2>3. DOMAIN handout = 1..Len(handout) /\ Len(handout) \in Nat
    BY <2>2, LenProperties
  <2> QED BY <1>2, <2>1, <2>3
<1> QED BY <1>1, <1>2, <1>3, <1>4

\* A cell that the checks accept and whose blocks are well marked shows the students
\* no line of a solution and no hidden test, for any cells: the cut of the solution
\* moves the lines of the hidden tests (notebook_service.py:82-133).
THEOREM AnswersStayHidden == Spec => []HandoutHidesAnswers
<1>1. StoredInv => HandoutHidesAnswers
  <2> SUFFICES ASSUME StoredInv, tutor # None, NEW k \in DOMAIN handout,
                      handout[k].type = "code", WellMarked(tutor[k])
               PROVE  ~Has(handout[k], "solution") /\ ~Has(handout[k], "hidden")
    BY DEF HandoutHidesAnswers
  <2>1. k \in DOMAIN tutor
    BY StoredCells
  <2>2. tutor[k] \in Cell /\ ~Raises(tutor[k]) /\ handout[k] = ModifiedCell(tutor[k])
    BY <2>1, StoredCells
  <2>3. tutor[k].type = "code"
    BY <2>2, ModifiedType
  <2> QED BY <2>2, <2>3, ModifiedCells
<1> QED BY <1>1, StoredInvariant, PTL

----
(***************************************************************************)
(* Points.                                                                 *)
(***************************************************************************)

\* The cells that get_total_points counts.
Counted(nb) ==
    {k \in DOMAIN nb : nb[k].type = "code" /\ (Has(nb[k], "tests") \/ Has(nb[k], "undotted"))}

\* The tests that pass.
Passed(w) == {t \in DOMAIN tutor : IsTest(tutor[t]) /\ Passes(w, t)}

\* A grade is always the number of headers of the notebook of the tutor, for a
\* replaced one if none is cut.
LEMMA GradeCounts ==
    ASSUME StoredInv, tutor # None, path = "create" \/ Gradable
    PROVE  grade = Cardinality(Counted(tutor))
<1>1. CASE path = "create"
  BY <1>1 DEF StoredInv, TotalPoints, Counted
<1>2. CASE path # "create"
  <2>1. Gradable /\ grade = Cardinality(Counted(handout))
    BY <1>2 DEF StoredInv, TotalPoints, Counted
  <2>2. ASSUME NEW k \in DOMAIN tutor
        PROVE  /\ k \in DOMAIN handout
               /\ handout[k].type = tutor[k].type
               /\ tutor[k].type = "code" =>
                    \A kind \in {"tests", "undotted"} :
                        Has(handout[k], kind) <=> Has(tutor[k], kind)
    <3>1. /\ tutor[k] \in Cell /\ ~Raises(tutor[k]) /\ handout[k] = ModifiedCell(tutor[k])
          /\ k \in DOMAIN handout
      BY StoredCells
    <3>2. WellMarked(tutor[k]) /\ EndsHidden(tutor[k]) /\ HeadersOutside(tutor[k])
      BY <2>1 DEF Gradable
    <3> QED BY <3>1, <3>2, ModifiedType, ModifiedCells
  <2>3. DOMAIN handout = DOMAIN tutor
    BY StoredCells
  <2>4. Counted(handout) = Counted(tutor)
    BY <2>2, <2>3 DEF Counted
  <2> QED BY <2>1, <2>4
<1> QED BY <1>1, <1>2

\* The headers without a dot, which no test reads.
Undotted ==
    {k \in DOMAIN tutor : /\ tutor[k].type = "code"
                          /\ Has(tutor[k], "undotted") /\ ~Has(tutor[k], "tests")}

\* Two sets that share nothing have the members of both.
LEMMA CountApart ==
    ASSUME NEW S, NEW T, IsFiniteSet(S), IsFiniteSet(T), S \cap T = {}
    PROVE  Cardinality(S \cup T) = Cardinality(S) + Cardinality(T)
<1>1. /\ Cardinality(S \cup T) = Cardinality(S) + Cardinality(T) - Cardinality(S \cap T)
      /\ Cardinality(S \cap T) = 0
      /\ Cardinality(S) \in Nat /\ Cardinality(T) \in Nat
  BY FS_Union, FS_EmptySet, FS_CardinalityType
<1> DEFINE a == Cardinality(S)
           b == Cardinality(T)
<1>2. a \in Nat /\ b \in Nat /\ Cardinality(S \cup T) = a + b - 0
  BY <1>1
<1> HIDE DEF a, b
<1>3. a + b - 0 = a + b
  BY <1>2
<1> QED BY <1>2, <1>3 DEF a, b

\* The tests that pass and the headers without a dot are apart, and counted.
LEMMA PassedAreCounted ==
    ASSUME StoredInv, tutor # None, NEW w
    PROVE  /\ Passed(w) \cup Undotted \subseteq Counted(tutor)
           /\ IsFiniteSet(Counted(tutor))
           /\ Cardinality(Passed(w) \cup Undotted) = Scored(w) + Unearned
<1>1. /\ Passed(w) \cup Undotted \subseteq Counted(tutor)
      /\ Passed(w) \cap Undotted = {}
      /\ Scored(w) = Cardinality(Passed(w)) /\ Unearned = Cardinality(Undotted)
  BY DEF Passed, Undotted, Counted, Scored, Unearned, IsTest
<1>2. PICK n \in Nat : DOMAIN tutor = 1..n
  BY StoredCells
<1>3. IsFiniteSet(1..n)
  BY FS_Interval
<1>4. Counted(tutor) \subseteq 1..n
  BY <1>2 DEF Counted
<1>5. IsFiniteSet(Counted(tutor))
  BY <1>3, <1>4, FS_Subset
<1>6. IsFiniteSet(Passed(w)) /\ IsFiniteSet(Undotted)
  BY <1>1, <1>5, FS_Subset
<1>7. Cardinality(Passed(w) \cup Undotted) = Cardinality(Passed(w)) + Cardinality(Undotted)
  BY <1>1, <1>6, CountApart
<1> QED BY <1>1, <1>5, <1>7

\* With one cell added at most, what a student solves stands in its place or in the
\* next one.
LEMMA SolvedInPlace ==
    ASSUME StoredInv, tutor # None, work # None, Len(work) <= Len(handout) + 1,
           NEW k \in DOMAIN tutor, NEW j \in DOMAIN work, Solves(work[j], k)
    PROVE  j \in Nat \ {0} /\ j <= k + 1 /\ j <= Len(work)
<1>1. PICK n \in Nat : DOMAIN tutor = 1..n /\ DOMAIN handout = 1..n /\ Len(handout) = n
  BY StoredCells
<1>2. PICK done, added \in SUBSET (1..n) : work = Written(done, added)
  BY <1>1 DEF StoredInv
<1>3. IsFiniteSet(added) /\ Cardinality(added) \in Nat
  <2>1. IsFiniteSet(1..n)
    BY FS_Interval
  <2> QED BY <2>1, FS_Subset, FS_CardinalityType
<1> DEFINE long == n + Cardinality(added)
<1>4. long \in Nat /\ DOMAIN work = 1..long
  BY <1>1, <1>2, <1>3 DEF Written
<1>5. Len(work) = long
  <2> DEFINE S == {work[i] : i \in 1..long}
  <2>1. work \in [1..long -> S]
    <3>1. work = [i \in 1..long |-> work[i]]
      BY <1>1, <1>2 DEF Written
    <3> QED BY <3>1
  <2> HIDE DEF S, long
  <2>2. work \in Seq(S)
    BY <1>4, <2>1, SeqDef
  <2>3. DOMAIN work = 1..Len(work) /\ Len(work) \in Nat
    BY <2>2, LenProperties
  <2> QED BY <1>4, <2>3
<1>6. Cardinality(added) <= 1
  BY <1>1, <1>3, <1>5
<1>7. work[j] = IF \E i \in 1..n : Shift(i, added) = j
                  THEN Filled(CHOOSE i \in 1..n : Shift(i, added) = j, done)
                  ELSE [from |-> 0, lines |-> <<"visible">>]
  BY <1>1, <1>2, <1>4 DEF Written
<1>8. k \in 1..n /\ work[j].from = k
  BY <1>1 DEF Solves
<1>9. j = Shift(k, added)
  <2>1. CASE \E i \in 1..n : Shift(i, added) = j
    <3>1. PICK i \in 1..n : i = CHOOSE x \in 1..n : Shift(x, added) = j
      BY <2>1
    <3>2. Shift(i, added) = j
      BY <2>1, <3>1
    <3>3. work[j].from = i
      BY <1>7, <2>1, <3>1 DEF Filled
    <3> QED BY <1>8, <3>2, <3>3
  <2>2. CASE ~\E i \in 1..n : Shift(i, added) = j
    <3>1. work[j].from = 0
      BY <1>7, <2>2
    <3> QED BY <1>8, <3>1
  <2> QED BY <2>1, <2>2
<1>10. /\ Cardinality({p \in added : p <= k}) <= Cardinality(added)
       /\ Cardinality({p \in added : p <= k}) \in Nat
  <2>1. {p \in added : p <= k} \in SUBSET added
    OBVIOUS
  <2> QED BY <1>3, <2>1, FS_Subset, FS_CardinalityType
<1> QED BY <1>3, <1>4, <1>5, <1>6, <1>8, <1>9, <1>10 DEF Shift

\* For any cells: of a notebook at its creation, and of one that replaces it if no
\* header is cut, nobody gets more than the headers with a dot are worth; and whoever
\* solves everything and adds one cell at most gets all of that, of any notebook no
\* header of which is cut.  The headers without a dot are in the grade and in no score
\* (assignment/services/notebook_service.py:144, sandbox_runner.py:272).
THEOREM ScoresAddUp == Spec => []PointsAddUp
<1>1. StoredInv => PointsAddUp
  <2> SUFFICES ASSUME StoredInv, work # None, path = "create" \/ Gradable
               PROVE  /\ score + Unearned <= grade
                      /\ Gradable /\ SolvesAll /\ Len(work) <= Len(handout) + 1 =>
                           score + Unearned = grade
    BY DEF PointsAddUp
  <2>1. /\ tutor # None /\ score = Scored(work)
        /\ grade = Cardinality(Counted(tutor))
    BY GradeCounts DEF StoredInv
  <2>2. /\ Passed(work) \cup Undotted \subseteq Counted(tutor)
        /\ IsFiniteSet(Counted(tutor))
        /\ Cardinality(Passed(work) \cup Undotted) = score + Unearned
    BY <2>1, PassedAreCounted
  <2>3. score + Unearned <= grade
    BY <2>1, <2>2, FS_Subset
  <2>4. ASSUME Gradable, SolvesAll, Len(work) <= Len(handout) + 1
        PROVE  score + Unearned = grade
    <3>1. ASSUME NEW t \in DOMAIN tutor PROVE Passes(work, t)
      <4>1. PICK n \in Nat : DOMAIN tutor = 1..n
        BY <2>1, StoredCells
      <4> SUFFICES ASSUME NEW k \in 1..t - 1, tutor[k].type = "code", Has(tutor[k], "solution")
                   PROVE  \E j \in 1..t : j <= Len(work) /\ Solves(work[j], k)
        BY DEF Passes
      <4>2. k \in DOMAIN tutor /\ k + 1 <= t /\ k \in Nat /\ t \in Nat
        BY <4>1
      <4>3. PICK j \in DOMAIN work : Solves(work[j], k)
        BY <2>4, <4>2 DEF SolvesAll, Solution
      <4>4. j \in Nat \ {0} /\ j <= k + 1 /\ j <= Len(work)
        BY <2>1, <2>4, <4>2, <4>3, SolvedInPlace
      <4>5. j \in 1..t
        BY <4>2, <4>4
      <4> QED BY <4>3, <4>4, <4>5
    <3>2. ASSUME NEW t \in Counted(tutor)
          PROVE  t \in Passed(work) \/ t \in Undotted
      BY <3>1 DEF Counted, Passed, Undotted, IsTest
    <3>3. Passed(work) \cup Undotted = Counted(tutor)
      BY <2>2, <3>2
    <3> QED BY <2>1, <2>2, <3>3
  <2> QED BY <2>3, <2>4
<1> QED BY <1>1, StoredInvariant, PTL

====
