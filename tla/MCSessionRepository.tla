--------------------------- MODULE MCSessionRepository ------------------------
(* Two sessions and three operations in flight, with and without Redis. *)
EXTENDS SessionRepository, TLC

Symmetric == Permutations(Sessions) \cup Permutations(Calls)
===============================================================================
