---- MODULE MCAssignmentFiles ----
(* Instances of AssignmentFiles for TLC. *)
EXTENDS AssignmentFiles, TLC

\* Requests and file names are interchangeable.
Symmetry == Permutations(Requests) \cup Permutations(Names)

====
