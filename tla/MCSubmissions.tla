---- MODULE MCSubmissions ----
(* Instances of Submissions for TLC. *)
EXTENDS SubmissionsLedger, TLC

\* Students and requests are interchangeable.
Symmetry == Permutations(Students) \cup Permutations(Requests)

====
