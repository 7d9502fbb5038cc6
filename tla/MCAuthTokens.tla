---- MODULE MCAuthTokens ----
(* AuthTokens for TLC. *)
EXTENDS AuthTokens, FiniteSets, TLC

\* Requests and browsers are interchangeable.
Symmetry == Permutations(Requests) \cup Permutations(Browsers)

\* A bound: how many requests run or wait for Google at the same time.
UnderWay == Cardinality({r \in Requests : req[r].pc \notin {"idle", "closed"}}) <= 3

====
