---------------------------- MODULE MCSessionStore ----------------------------
(* Two sessions over a cache with room for one, requests that overlap.     *)
EXTENDS SessionStore

CONSTANT Watched   \* the session that requests use; the others want its room

Symmetric == Permutations(Clients) \cup Permutations(Requests) \cup Permutations(Callers)

\* The bounds of the run: requests and faults concern one session, and a
\* connect has brought up one client again at a time.
Bounded ==
  /\ \A r \in Requests : requests[r].pc # "idle" => requests[r].session = Watched
  /\ \A s \in Sessions \ {Watched} : records[s] = IF s \in issued THEN "stored" ELSE "none"
  /\ revoked \cup unsaved \cup shared \subseteq {Watched}
  /\ Cardinality(revived) <= 1
===============================================================================
