---- MODULE MCEvaluations ----
(* Evaluations for TLC. *)
EXTENDS Evaluations

====
