---- MODULE MCRegistry ----
(* A small instance of Registry for TLC. *)
EXTENDS Registry, TLC

Interchangeable == Permutations(Requests) \cup Permutations(Teachers)
====
