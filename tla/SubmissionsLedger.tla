---- MODULE SubmissionsLedger ----
(***************************************************************************)
(* The submission pipeline implements AttemptLedger when students wait for *)
(* each answer (Overlap = FALSE) and no limit is lowered: the committed    *)
(* rows of a student are one entry of the ledger, whose k-th grading is    *)
(* the attempt with number k.                                              *)
(***************************************************************************)
EXTENDS Submissions

ScoreOfAttempt(i, k) ==
    (CHOOSE a \in attempts : a.sub = i /\ a.number = k).score

EntryOf(u) ==
    IF OfStudent(submissions, u) = {} THEN None
    ELSE LET x == CHOOSE x \in submissions : x.user = u
         IN  [shown |-> x.score,
              history |-> [k \in 1..x.number |-> ScoreOfAttempt(x.id, k)]]

Ledger == INSTANCE AttemptLedger WITH ledger <- [u \in Students |-> EntryOf(u)]

\* No entry is the absent entry.
ASSUME LedgerAssumption == None \notin Ledger!Entry

\* Every step of the pipeline is one step of the ledger or none: no interleaving
\* of requests of different students, failure, rollback or deletion loses,
\* repeats, reorders or rewrites a grading, or shows another score than the last.
ImplementsLedger == Ledger!LedgerSpec

====
