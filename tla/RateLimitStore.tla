----------------------------- MODULE RateLimitStore ---------------------------
(***************************************************************************)
(* Fixed-window request counters with a ceiling on the number of windows   *)
(* (shared/utils/rate-limit-store.ts).  One call of `consume` is one step: *)
(* it is synchronous.  Time is a counter in the unit of windowMs and never *)
(* runs backwards.                                                         *)
(***************************************************************************)
EXTENDS Integers, FiniteSets

CONSTANTS Subjects, MaxRequests, WindowMs, MaxEntries,
          MaxTime \* bound of the model: the last instant of a behaviour

ASSUME RateAssumption == /\ MaxRequests \in Nat \ {0} /\ WindowMs \in Nat \ {0}
                         /\ MaxEntries \in Nat \ {0} /\ MaxTime \in Nat
                         /\ IsFiniteSet(Subjects)

VARIABLES
  hits,      \* hitCount of the window of each subject, 0 without a window
  startedAt, \* startedAtMs of that window
  order,     \* the insertion order of the windows: <<s, u>> when s came before u
  now,
  decision   \* what the last call of consume returned

rateVars == <<hits, startedAt, order, now, decision>>

\* A decision, with the subject and the instant it was made for.
Decision == [isAllowed : BOOLEAN, retryAfterMs : Nat, subject : Subjects, at : Nat]

RateTypeOK ==
  /\ hits \in [Subjects -> 0..MaxRequests]
  /\ startedAt \in [Subjects -> Nat]
  /\ order \subseteq Subjects \X Subjects
  /\ now \in Nat
  /\ decision \in Decision

Allowed(s) == [isAllowed |-> TRUE, retryAfterMs |-> 0, subject |-> s, at |-> now]
Refused(s, ms) == [isAllowed |-> FALSE, retryAfterMs |-> ms, subject |-> s, at |-> now]

RateInit ==
  /\ hits = [s \in Subjects |-> 0]
  /\ startedAt = [s \in Subjects |-> 0]
  /\ order = {}
  /\ now = 0
  /\ decision \in {Allowed(s) : s \in Subjects}

-------------------------------------------------------------------------------
Tracked == {s \in Subjects : hits[s] > 0}
Remaining(s) == LET ms == startedAt[s] + WindowMs - now IN IF ms > 0 THEN ms ELSE 0
IsLive(s) == s \in Tracked /\ Remaining(s) > 0
Live == {s \in Subjects : IsLive(s)}

\* dropExpiredWindows, which every call of consume begins with.
HitsLeft == [s \in Subjects |-> IF IsLive(s) THEN hits[s] ELSE 0]
StartsLeft == [s \in Subjects |-> IF IsLive(s) THEN startedAt[s] ELSE 0]
OrderLeft == {pair \in order : IsLive(pair[1]) /\ IsLive(pair[2])}

\* The first window of the map, and the order with a new one behind all others.
Oldest == CHOOSE s \in Live : \A u \in Live \ {s} : <<s, u>> \in order
Inserted(s) == OrderLeft \cup (Live \X {s})

Grant(s) == decision' = Allowed(s)

Refuse(s, ms) ==
  /\ hits' = HitsLeft /\ startedAt' = StartsLeft /\ order' = OrderLeft
  /\ decision' = Refused(s, ms)

(* Mutants of a first hit: one window too many, and the oldest one displaced. *)
StartWindowBeyond(s) ==
  /\ ~IsLive(s) /\ Cardinality(Live) <= MaxEntries
  /\ hits' = [HitsLeft EXCEPT ![s] = 1]
  /\ startedAt' = [StartsLeft EXCEPT ![s] = now]
  /\ order' = Inserted(s)
  /\ Grant(s)

StartWindowDisplacing(s) ==
  LET oldest == IF Cardinality(Live) < MaxEntries THEN {} ELSE {Oldest} IN
  /\ ~IsLive(s)
  /\ hits' = [j \in Subjects |-> IF j = s THEN 1 ELSE IF j \in oldest THEN 0 ELSE HitsLeft[j]]
  /\ startedAt' = [StartsLeft EXCEPT ![s] = now]
  /\ order' = {pair \in Inserted(s) : pair[1] \notin oldest}
  /\ Grant(s)

StartWindow(s) ==
  /\ ~IsLive(s) /\ Cardinality(Live) < MaxEntries
  /\ hits' = [HitsLeft EXCEPT ![s] = 1]
  /\ startedAt' = [StartsLeft EXCEPT ![s] = now]
  /\ order' = Inserted(s)
  /\ Grant(s)

\* Mutant of a further hit: the window is moved to the end of the order.
CountHitReinserting(s) ==
  /\ IsLive(s) /\ hits[s] < MaxRequests
  /\ hits' = [HitsLeft EXCEPT ![s] = @ + 1]
  /\ startedAt' = StartsLeft
  /\ order' = {pair \in OrderLeft : pair[1] # s} \cup ((Live \ {s}) \X {s})
  /\ Grant(s)

CountHit(s) ==
  /\ IsLive(s) /\ hits[s] < MaxRequests
  /\ hits' = [HitsLeft EXCEPT ![s] = @ + 1]
  /\ startedAt' = StartsLeft /\ order' = OrderLeft
  /\ Grant(s)

RefuseSubject(s) ==
  /\ IsLive(s) /\ hits[s] >= MaxRequests
  /\ Refuse(s, Remaining(s))

\* The wait of the oldest window: "inserted in start order and never re-inserted,
\* so the first one is the oldest" (rate-limit-store.ts:69).
RefuseNewSubject(s) ==
  /\ ~IsLive(s) /\ Cardinality(Live) >= MaxEntries
  /\ Refuse(s, Remaining(Oldest))

Consume(s) ==
  /\ \/ StartWindow(s) \/ CountHit(s)
     \/ RefuseSubject(s) \/ RefuseNewSubject(s)
  /\ UNCHANGED now

RateTick ==
  /\ now < MaxTime
  /\ now' = now + 1
  /\ UNCHANGED <<hits, startedAt, order, decision>>

RateNext == (\E s \in Subjects : Consume(s)) \/ RateTick

RateSpec == RateInit /\ [][RateNext]_rateVars

-------------------------------------------------------------------------------
\* A flood of unique subjects cannot grow the map beyond maxEntries, expired
\* windows included (rate-limit-store.ts:28).
SizeBound == Cardinality(Tracked) <= MaxEntries

\* "A flood of unknown subjects must not reset a real one" (:31): until its
\* window is over, nothing any other subject does lowers a subject's count or
\* moves its window.
LiveCounterSurvives ==
  [][\A s \in Subjects : hits[s] > 0 /\ startedAt[s] + WindowMs > now =>
       hits'[s] >= hits[s] /\ startedAt'[s] = startedAt[s]]_rateVars

\* Every Retry-After is worth waiting for: it is positive, and when it is over a
\* window that stood in the way ends, the subject's own if it has one, and
\* otherwise the first of all those that fill the map.
RetryAfterIsHonest ==
  LET end == decision.at + decision.retryAfterMs
  IN ~decision.isAllowed =>
       /\ end > decision.at
       /\ \/ hits[decision.subject] = MaxRequests /\ startedAt[decision.subject] + WindowMs = end
          \/ /\ decision.subject \notin Tracked /\ Cardinality(Tracked) = MaxEntries
             /\ \E s \in Tracked : startedAt[s] + WindowMs = end
             /\ \A s \in Tracked : startedAt[s] + WindowMs >= end

===============================================================================
