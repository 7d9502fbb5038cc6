---- MODULE AttemptLedger ----
(***************************************************************************)
(* What the submission pipeline promises a student who waits for each      *)
(* answer: a ledger with the points of their gradings in order, at most    *)
(* limit of them, of which the last is the score shown.  Every operation   *)
(* is one atomic step; requests, files and rows do not appear.             *)
(***************************************************************************)
EXTENDS Integers, Sequences

CONSTANTS Students, Scores, MaxLimit, None

VARIABLES
    limit,   \* gradings the tutor allows
    ledger   \* of each student: None, or the score shown and the gradings

ledgerVars == <<limit, ledger>>

Entry == [shown: Scores, history: Seq(Scores)]

Fresh == [shown |-> 0, history |-> <<>>]

\* The student hands in a first notebook.
Register(u) ==
    /\ ledger[u] = None
    /\ ledger' = [ledger EXCEPT ![u] = Fresh]
    /\ UNCHANGED limit

\* A notebook is graded with v points; the embedded editor hands it in and
\* grades it in one step.
Grading(u, v) ==
    LET entry == IF ledger[u] = None THEN Fresh ELSE ledger[u]
    IN  /\ Len(entry.history) < limit
        /\ ledger' = [ledger EXCEPT ![u] =
                        [shown |-> v, history |-> Append(entry.history, v)]]
        /\ UNCHANGED limit

\* The student deletes the submission, and with it the gradings.
Withdraw(u) ==
    /\ ledger[u] # None
    /\ ledger' = [ledger EXCEPT ![u] = None]
    /\ UNCHANGED limit

RaiseLimit(n) ==
    /\ n > limit
    /\ limit' = n
    /\ UNCHANGED ledger

LedgerInit ==
    /\ limit \in 1..MaxLimit
    /\ ledger = [u \in Students |-> None]

LedgerNext ==
    \/ \E u \in Students :
         \/ Register(u)
         \/ \E v \in Scores : Grading(u, v)
         \/ Withdraw(u)
    \/ \E n \in 1..MaxLimit : RaiseLimit(n)

LedgerSpec == LedgerInit /\ [][LedgerNext]_ledgerVars

====
