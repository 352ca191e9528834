-------------------------- MODULE RequestGuards_proofs -------------------------
(***************************************************************************)
(* The store of request windows and the guards that use two of them: the   *)
(* ceiling on the number of windows, the safety of live counters, the      *)
(* honesty of Retry-After, the quota of a number and who pays for what,    *)
(* for any subjects, keys, numbers and limits.                             *)
(***************************************************************************)
EXTENDS RequestGuards, FiniteSetTheorems, WellFoundedInduction, TLAPS

\* The counters are within their quota and their number within its ceiling.
CounterInv ==
  /\ hits \in [Subjects -> 0..MaxRequests]
  /\ startedAt \in [Subjects -> Nat]
  /\ now \in Nat
  /\ SizeBound

LEMMA LiveIsTracked ==
  ASSUME CounterInv
  PROVE  /\ Live \subseteq Tracked
         /\ IsFiniteSet(Live) /\ Cardinality(Live) \in Nat
         /\ Cardinality(Live) <= MaxEntries
<1>1. Live \subseteq Tracked /\ Tracked \subseteq Subjects
  BY DEF Live, IsLive, Tracked
<1>2. IsFiniteSet(Tracked)
  BY <1>1, RateAssumption, FS_Subset
<1>3. Cardinality(Live) <= Cardinality(Tracked) /\ IsFiniteSet(Live)
  BY <1>1, <1>2, FS_Subset
<1>4. Cardinality(Live) \in Nat /\ Cardinality(Tracked) \in Nat
  BY <1>2, <1>3, FS_CardinalityType
<1> QED
  BY <1>1, <1>3, <1>4, RateAssumption DEF CounterInv, SizeBound

\* Dropping the expired windows leaves the live ones untouched, and nothing else.
LEMMA DroppedTypes ==
  ASSUME CounterInv
  PROVE  /\ HitsLeft \in [Subjects -> 0..MaxRequests]
         /\ StartsLeft \in [Subjects -> Nat]
         /\ \A s \in Live : HitsLeft[s] = hits[s] /\ StartsLeft[s] = startedAt[s]
         /\ \A s \in Subjects \ Live : HitsLeft[s] = 0
         /\ Live = {s \in Subjects : HitsLeft[s] > 0}
  BY RateAssumption DEF CounterInv, HitsLeft, StartsLeft, Live, IsLive, Tracked

LEMMA ConsumeKeeps ==
  ASSUME CounterInv, NEW s \in Subjects, Consume(s)
  PROVE  CounterInv'
<1>1. /\ HitsLeft \in [Subjects -> 0..MaxRequests]
      /\ StartsLeft \in [Subjects -> Nat]
      /\ \A x \in Live : HitsLeft[x] = hits[x]
      /\ Live = {x \in Subjects : HitsLeft[x] > 0}
  BY DroppedTypes
<1>2. now' = now /\ now \in Nat
  BY DEF Consume, CounterInv
<1>3. /\ IsFiniteSet(Live) /\ Cardinality(Live) \in Nat /\ Cardinality(Live) <= MaxEntries
  BY LiveIsTracked
<1> HIDE DEF HitsLeft, StartsLeft
<1>4. CASE StartWindow(s)
  <2>1. /\ hits' = [HitsLeft EXCEPT ![s] = 1] /\ startedAt' = [StartsLeft EXCEPT ![s] = now]
        /\ s \notin Live /\ Cardinality(Live) < MaxEntries
    BY <1>4 DEF StartWindow, Live
  <2>2. Tracked' = Live \cup {s}
    BY <1>1, <2>1 DEF Tracked
  <2>3. Cardinality(Live \cup {s}) = Cardinality(Live) + 1
    BY <1>3, <2>1, FS_AddElement
  <2>4. SizeBound'
    BY <1>3, <2>1, <2>2, <2>3, RateAssumption DEF SizeBound
  <2> QED
    BY <1>1, <1>2, <2>1, <2>4, RateAssumption DEF CounterInv
<1>5. CASE CountHit(s)
  <2>1. /\ hits' = [HitsLeft EXCEPT ![s] = @ + 1] /\ startedAt' = StartsLeft
        /\ s \in Live /\ hits[s] < MaxRequests
    BY <1>5 DEF CountHit, Live
  <2>2. HitsLeft[s] \in 1..(MaxRequests - 1)
    BY <1>1, <2>1, RateAssumption
  <2>3. Tracked' = Live
    BY <1>1, <2>1, <2>2 DEF Tracked
  <2>4. hits' \in [Subjects -> 0..MaxRequests]
    BY <1>1, <2>1, <2>2, RateAssumption
  <2> QED
    BY <1>1, <1>2, <1>3, <2>1, <2>3, <2>4 DEF CounterInv, SizeBound
<1>6. CASE RefuseSubject(s) \/ RefuseNewSubject(s)
  <2>1. hits' = HitsLeft /\ startedAt' = StartsLeft
    BY <1>6 DEF RefuseSubject, RefuseNewSubject, Refuse
  <2>2. Tracked' = Live
    BY <1>1, <2>1 DEF Tracked
  <2> QED
    BY <1>1, <1>2, <1>3, <2>1, <2>2 DEF CounterInv, SizeBound
<1> QED
  BY <1>4, <1>5, <1>6 DEF Consume

LEMMA CounterInvInit == RateInit => CounterInv
<1> SUFFICES ASSUME RateInit PROVE CounterInv
  OBVIOUS
<1>1. Tracked = {}
  BY DEF RateInit, Tracked
<1>2. Cardinality({}) = 0
  BY FS_EmptySet
<1> QED
  BY <1>1, <1>2, RateAssumption DEF RateInit, CounterInv, SizeBound

LEMMA CounterInvNext == CounterInv /\ [RateNext]_rateVars => CounterInv'
<1> SUFFICES ASSUME CounterInv, [RateNext]_rateVars PROVE CounterInv'
  OBVIOUS
<1>1. ASSUME NEW s \in Subjects, Consume(s) PROVE CounterInv'
  BY <1>1, ConsumeKeeps
<1>2. CASE RateTick
  BY <1>2 DEF RateTick, CounterInv, SizeBound, Tracked
<1>3. CASE UNCHANGED rateVars
  BY <1>3 DEF rateVars, CounterInv, SizeBound, Tracked
<1> QED
  BY <1>1, <1>2, <1>3 DEF RateNext

\* The map never holds more than maxEntries windows, whatever subjects come.
THEOREM RateLimitSizeBound == RateSpec => []SizeBound
<1>1. CounterInv => SizeBound
  BY DEF CounterInv
<1> QED
  BY <1>1, CounterInvInit, CounterInvNext, PTL DEF RateSpec

\* No call, for whatever subject, resets or moves a window that is still live:
\* a flood of newcomers is refused instead.
THEOREM RateLimitLiveCounterSurvives == RateSpec => LiveCounterSurvives
<1> DEFINE Survives == \A s \in Subjects : hits[s] > 0 /\ startedAt[s] + WindowMs > now =>
                         hits'[s] >= hits[s] /\ startedAt'[s] = startedAt[s]
<1>1. CounterInv /\ [RateNext]_rateVars => [Survives]_rateVars
  <2> SUFFICES ASSUME CounterInv, RateNext, NEW s \in Subjects,
                      hits[s] > 0, startedAt[s] + WindowMs > now
               PROVE  hits'[s] >= hits[s] /\ startedAt'[s] = startedAt[s]
    OBVIOUS
  <2>1. hits[s] \in Nat /\ startedAt[s] \in Nat /\ now \in Nat /\ s \in Live
    BY RateAssumption DEF CounterInv, Live, IsLive, Tracked, Remaining
  <2>2. /\ HitsLeft \in [Subjects -> 0..MaxRequests] /\ StartsLeft \in [Subjects -> Nat]
        /\ HitsLeft[s] = hits[s] /\ StartsLeft[s] = startedAt[s]
    BY <2>1, DroppedTypes
  <2> HIDE DEF HitsLeft, StartsLeft
  <2>3. ASSUME NEW x \in Subjects, StartWindow(x) PROVE hits'[s] >= hits[s] /\ startedAt'[s] = startedAt[s]
    <3>1. x # s
      BY <2>1, <2>3 DEF StartWindow, Live
    <3> QED
      BY <2>1, <2>2, <2>3, <3>1 DEF StartWindow
  <2>4. ASSUME NEW x \in Subjects, CountHit(x) PROVE hits'[s] >= hits[s] /\ startedAt'[s] = startedAt[s]
    BY <2>1, <2>2, <2>4 DEF CountHit
  <2>5. ASSUME NEW x \in Subjects, RefuseSubject(x) \/ RefuseNewSubject(x)
        PROVE hits'[s] >= hits[s] /\ startedAt'[s] = startedAt[s]
    BY <2>1, <2>2, <2>5 DEF RefuseSubject, RefuseNewSubject, Refuse
  <2>6. CASE RateTick
    BY <2>1, <2>6 DEF RateTick
  <2> QED
    BY <2>3, <2>4, <2>5, <2>6 DEF RateNext, Consume
<1> QED
  BY <1>1, CounterInvInit, CounterInvNext, PTL DEF RateSpec, LiveCounterSurvives

-------------------------------------------------------------------------------
(* The insertion order and the honesty of Retry-After. *)
\* A finite set that a relation orders has a first element.
LEMMA FirstExists ==
  ASSUME NEW S, IsFiniteSet(S), S # {}, NEW R,
         \A s, u \in S : s # u => <<s, u>> \in R \/ <<u, s>> \in R,
         \A s \in S : <<s, s>> \notin R,
         \A s, u, v \in S : <<s, u>> \in R /\ <<u, v>> \in R => <<s, v>> \in R
  PROVE  \E s \in S : \A u \in S \ {s} : <<s, u>> \in R
<1> DEFINE Before(s) == {u \in S : <<u, s>> \in R}
           Sets == {Before(s) : s \in S}
<1>1. \A s \in S : Before(s) \in FiniteSubsetsOf(S)
  BY FS_Subset DEF FiniteSubsetsOf
<1>2. Sets \subseteq FiniteSubsetsOf(S) /\ Sets # {}
  <2>1. PICK s0 \in S : TRUE
    OBVIOUS
  <2>2. Before(s0) \in Sets
    BY <2>1
  <2>3. ASSUME NEW b \in Sets PROVE b \in FiniteSubsetsOf(S)
    <3>1. PICK s \in S : b = Before(s)
      OBVIOUS
    <3> HIDE DEF Before
    <3> QED
      BY <1>1, <3>1
  <2> QED
    BY <2>2, <2>3
<1>3. IsWellFoundedOn(StrictSubsetOrdering(S), FiniteSubsetsOf(S))
  BY FS_StrictSubsetOrderingWellFounded
<1>4. PICK least \in Sets : \A other \in Sets : ~(<<other, least>> \in StrictSubsetOrdering(S))
  <2> HIDE DEF Sets
  <2> QED
    BY <1>2, <1>3, WFMin
<1>5. PICK s \in S : least = Before(s)
  OBVIOUS
<1>6. ASSUME NEW u \in Before(s) PROVE FALSE
  <2>1. u \in S /\ Before(u) \in Sets
    <3>1. u \in S
      BY <1>6
    <3> HIDE DEF Before
    <3> QED
      BY <3>1
  <2>2. Before(u) \subseteq Before(s) /\ Before(u) # Before(s)
    BY <1>6, <2>1
  <2>3. <<Before(u), Before(s)>> \in StrictSubsetOrdering(S)
    BY <2>2 DEF StrictSubsetOrdering
  <2> QED
    BY <1>4, <1>5, <2>1, <2>3
<1> QED
  BY <1>6

\* The order of the map: it is one of the tracked subjects, and the windows
\* have begun in that order.
InsertionInv ==
  /\ order \subseteq Tracked \X Tracked
  /\ \A s, u \in Tracked : s # u => <<s, u>> \in order \/ <<u, s>> \in order
  /\ \A s \in Tracked : <<s, s>> \notin order
  /\ \A s, u, v \in Tracked : <<s, u>> \in order /\ <<u, v>> \in order => <<s, v>> \in order
  /\ \A s, u \in Tracked : <<s, u>> \in order => startedAt[s] <= startedAt[u]
  /\ \A s \in Tracked : startedAt[s] <= now

StoreInv == CounterInv /\ InsertionInv /\ RetryAfterIsHonest

\* The first entry of the map is the live window that has begun first.
LEMMA OldestIsFirst ==
  ASSUME CounterInv, InsertionInv, Live # {}
  PROVE  Oldest \in Live /\ \A s \in Live : startedAt[Oldest] <= startedAt[s]
<1>1. Live \subseteq Tracked /\ IsFiniteSet(Live) /\ Tracked \subseteq Subjects
  BY LiveIsTracked DEF Tracked
<1>2. \E s \in Live : \A u \in Live \ {s} : <<s, u>> \in order
  <2>1. /\ \A s, u \in Live : s # u => <<s, u>> \in order \/ <<u, s>> \in order
        /\ \A s \in Live : <<s, s>> \notin order
        /\ \A s, u, v \in Live : <<s, u>> \in order /\ <<u, v>> \in order => <<s, v>> \in order
    BY <1>1 DEF InsertionInv
  <2> HIDE DEF Live
  <2> QED
    BY <1>1, <2>1, FirstExists
<1>3. Oldest \in Live /\ \A u \in Live \ {Oldest} : <<Oldest, u>> \in order
  BY <1>2 DEF Oldest
<1>4. \A s \in Subjects : startedAt[s] \in Int
  BY DEF CounterInv
<1> DEFINE first == Oldest
<1> HIDE DEF first
<1>5. first \in Live /\ \A u \in Live \ {first} : <<first, u>> \in order
  BY <1>3 DEF first
<1>6. ASSUME NEW s \in Live PROVE startedAt[first] <= startedAt[s]
  <2>1. CASE s = first
    BY <1>1, <1>4, <2>1
  <2>2. CASE s # first
    <3>1. <<first, s>> \in order /\ first \in Tracked /\ s \in Tracked
      BY <1>1, <1>5, <2>2
    <3> QED
      BY <3>1 DEF InsertionInv
  <2> QED
    BY <2>1, <2>2
<1> QED
  BY <1>5, <1>6 DEF first

\* Dropping windows and adding a last one leave an order.
LEMMA ConsumeKeepsOrder ==
  ASSUME CounterInv, InsertionInv, NEW s \in Subjects, Consume(s)
  PROVE  InsertionInv'
<1>1. /\ HitsLeft \in [Subjects -> 0..MaxRequests] /\ StartsLeft \in [Subjects -> Nat]
      /\ \A x \in Live : HitsLeft[x] = hits[x] /\ StartsLeft[x] = startedAt[x]
      /\ Live = {x \in Subjects : HitsLeft[x] > 0}
  BY DroppedTypes
<1>2. /\ Live \subseteq Tracked /\ Tracked \subseteq Subjects /\ now' = now /\ now \in Nat
      /\ \A x \in Subjects : startedAt[x] \in Nat
  BY LiveIsTracked DEF Tracked, Consume, CounterInv
<1>3. /\ OrderLeft \subseteq Live \X Live
      /\ \A x, y \in Live : <<x, y>> \in OrderLeft <=> <<x, y>> \in order
  BY <1>2 DEF OrderLeft, InsertionInv, Live
<1> HIDE DEF HitsLeft, StartsLeft, OrderLeft
<1>4. CASE StartWindow(s)
  <2>1. /\ hits' = [HitsLeft EXCEPT ![s] = 1] /\ startedAt' = [StartsLeft EXCEPT ![s] = now]
        /\ s \notin Live /\ order' = OrderLeft \cup (Live \X {s})
    BY <1>4 DEF StartWindow, Live, Inserted
  <2>2. Tracked' = Live \cup {s}
    BY <1>1, <2>1 DEF Tracked
  <2>3. startedAt'[s] = now /\ \A x \in Live : startedAt'[x] = startedAt[x]
    BY <1>1, <2>1
  <2>4. /\ \A x, y \in Live : <<x, y>> \in order' <=> <<x, y>> \in order
        /\ \A x \in Live : <<x, s>> \in order' /\ <<s, x>> \notin order'
        /\ <<s, s>> \notin order'
    BY <1>3, <2>1
  <2>5. order' \subseteq Tracked' \X Tracked'
    BY <1>3, <2>1, <2>2
  <2>6. /\ \A x, y \in Live : x # y => <<x, y>> \in order \/ <<y, x>> \in order
        /\ \A x \in Live : <<x, x>> \notin order
        /\ \A x, y, z \in Live : <<x, y>> \in order /\ <<y, z>> \in order => <<x, z>> \in order
        /\ \A x, y \in Live : <<x, y>> \in order => startedAt[x] <= startedAt[y]
        /\ \A x \in Live : startedAt[x] <= now
    BY <1>2 DEF InsertionInv
  <2>7. \A x, y \in Tracked' : x # y => <<x, y>> \in order' \/ <<y, x>> \in order'
    BY <2>2, <2>4, <2>6
  <2>8. \A x \in Tracked' : <<x, x>> \notin order'
    BY <2>2, <2>4, <2>6
  <2>9. \A x, y, z \in Tracked' : <<x, y>> \in order' /\ <<y, z>> \in order' => <<x, z>> \in order'
    <3> SUFFICES ASSUME NEW x \in Tracked', NEW y \in Tracked', NEW z \in Tracked',
                        <<x, y>> \in order', <<y, z>> \in order'
                 PROVE  <<x, z>> \in order'
      OBVIOUS
    <3>1. x \in Live /\ y \in Live
      BY <2>2, <2>4
    <3>2. CASE z = s
      BY <2>4, <3>1, <3>2
    <3>3. CASE z \in Live
      BY <2>4, <2>6, <3>1, <3>3
    <3> QED
      BY <2>2, <3>2, <3>3
  <2>10. \A x, y \in Tracked' : <<x, y>> \in order' => startedAt'[x] <= startedAt'[y]
    <3> SUFFICES ASSUME NEW x \in Tracked', NEW y \in Tracked', <<x, y>> \in order'
                 PROVE  startedAt'[x] <= startedAt'[y]
      OBVIOUS
    <3>1. x \in Live
      BY <2>2, <2>4
    <3>2. CASE y = s
      BY <2>3, <2>6, <3>1, <3>2
    <3>3. CASE y \in Live
      BY <2>3, <2>4, <2>6, <3>1, <3>3
    <3> QED
      BY <2>2, <3>2, <3>3
  <2>11. \A x \in Tracked' : startedAt'[x] <= now'
    BY <1>2, <2>2, <2>3, <2>6
  <2> QED
    BY <2>5, <2>7, <2>8, <2>9, <2>10, <2>11 DEF InsertionInv
<1>5. CASE CountHit(s) \/ RefuseSubject(s) \/ RefuseNewSubject(s)
  <2>1. startedAt' = StartsLeft /\ order' = OrderLeft
    BY <1>5 DEF CountHit, RefuseSubject, RefuseNewSubject, Refuse
  <2>2. Tracked' = Live
    <3>1. CASE CountHit(s)
      <4>1. hits' = [HitsLeft EXCEPT ![s] = @ + 1] /\ s \in Live
        BY <3>1 DEF CountHit, Live
      <4>2. HitsLeft[s] \in 1..MaxRequests
        BY <1>1, <4>1, RateAssumption
      <4> QED
        BY <1>1, <4>1, <4>2, RateAssumption DEF Tracked
    <3>2. CASE RefuseSubject(s) \/ RefuseNewSubject(s)
      BY <1>1, <3>2 DEF RefuseSubject, RefuseNewSubject, Refuse, Tracked
    <3> QED
      BY <1>5, <3>1, <3>2
  <2>3. \A x \in Live : startedAt'[x] = startedAt[x]
    BY <1>1, <2>1
  <2>4. order' \subseteq Tracked' \X Tracked' /\ \A x, y \in Live : <<x, y>> \in order' <=> <<x, y>> \in order
    BY <1>3, <2>1, <2>2
  <2> QED
    BY <1>2, <2>2, <2>3, <2>4 DEF InsertionInv
<1> QED
  BY <1>4, <1>5 DEF Consume

\* A refusal names the end of the window that stands in the way.
LEMMA ConsumeIsHonest ==
  ASSUME CounterInv, InsertionInv, NEW s \in Subjects, Consume(s)
  PROVE  RetryAfterIsHonest'
<1>1. /\ HitsLeft \in [Subjects -> 0..MaxRequests]
      /\ \A x \in Live : HitsLeft[x] = hits[x] /\ StartsLeft[x] = startedAt[x]
      /\ Live = {x \in Subjects : HitsLeft[x] > 0}
  BY DroppedTypes
<1>2. /\ Live \subseteq Tracked /\ IsFiniteSet(Live) /\ Cardinality(Live) \in Nat /\ Cardinality(Live) <= MaxEntries
      /\ now \in Nat /\ \A x \in Subjects : startedAt[x] \in Nat /\ hits[x] \in 0..MaxRequests
      /\ Live \subseteq Subjects
  BY LiveIsTracked DEF CounterInv, Tracked
<1>3. \A x \in Live : Remaining(x) > 0 /\ now + Remaining(x) = startedAt[x] + WindowMs
  BY <1>2, RateAssumption DEF Live, IsLive, Remaining
<1> HIDE DEF HitsLeft, StartsLeft
<1>4. CASE StartWindow(s) \/ CountHit(s)
  BY <1>4 DEF StartWindow, CountHit, Grant, Allowed, RetryAfterIsHonest
<1>5. CASE RefuseSubject(s)
  <2>1. /\ s \in Live /\ hits[s] >= MaxRequests /\ hits' = HitsLeft /\ startedAt' = StartsLeft
        /\ decision' = [isAllowed |-> FALSE, retryAfterMs |-> Remaining(s), subject |-> s, at |-> now]
    BY <1>5 DEF RefuseSubject, Refuse, Refused, Live
  <2>2. hits'[s] = MaxRequests /\ startedAt'[s] = startedAt[s]
    BY <1>1, <1>2, <2>1, RateAssumption
  <2>3. now + Remaining(s) > now /\ startedAt'[s] + WindowMs = now + Remaining(s)
    <3>1. Remaining(s) > 0 /\ now + Remaining(s) = startedAt[s] + WindowMs /\ startedAt[s] + WindowMs > now
      BY <1>2, <1>3, <2>1, RateAssumption DEF Live, IsLive, Remaining
    <3>2. startedAt'[s] + WindowMs = now + Remaining(s) /\ now + Remaining(s) > now
      BY ONLY <2>2, <3>1
    <3> QED
      BY ONLY <3>2
  <2> QED
    BY <2>1, <2>2, <2>3 DEF RetryAfterIsHonest
<1>6. CASE RefuseNewSubject(s)
  <2>1. /\ s \notin Live /\ Cardinality(Live) >= MaxEntries /\ hits' = HitsLeft /\ startedAt' = StartsLeft
        /\ decision' = [isAllowed |-> FALSE, retryAfterMs |-> Remaining(Oldest), subject |-> s, at |-> now]
    BY <1>6 DEF RefuseNewSubject, Refuse, Refused, Live
  <2>2. Tracked' = Live
    BY <1>1, <2>1 DEF Tracked
  <2>3. Cardinality(Live) = MaxEntries /\ Live # {}
    BY <1>2, <2>1, RateAssumption, FS_EmptySet
  <2>4. Oldest \in Live /\ \A x \in Live : startedAt[Oldest] <= startedAt[x]
    BY <2>3, OldestIsFirst
  <2> DEFINE first == Oldest
  <2> HIDE DEF first
  <2>5. first \in Live /\ \A x \in Live : startedAt[first] <= startedAt[x]
    BY <2>4 DEF first
  <2>6. /\ now + Remaining(first) > now /\ startedAt'[first] + WindowMs = now + Remaining(first)
        /\ \A x \in Live : startedAt'[x] + WindowMs >= now + Remaining(first)
    <3>1. \A x \in Live : startedAt'[x] = startedAt[x]
      BY <1>1, <2>1
    <3>2. now + Remaining(first) = startedAt[first] + WindowMs /\ Remaining(first) > 0
      BY <1>3, <2>5
    <3>3. startedAt[first] + WindowMs > now
      BY <1>2, <2>5, RateAssumption DEF Live, IsLive, Remaining
    <3>4. startedAt[first] + WindowMs = now + Remaining(first)
      BY <3>2
    <3>5. now + Remaining(first) > now
      BY <3>3, <3>4
    <3>6. startedAt'[first] + WindowMs = now + Remaining(first)
      BY <2>5, <3>1, <3>4
    <3>7. ASSUME NEW x \in Live PROVE startedAt'[x] + WindowMs >= startedAt[first] + WindowMs
      <4>1. startedAt'[x] = startedAt[x] /\ startedAt[first] <= startedAt[x]
        BY <2>5, <3>1
      <4>2. x \in Subjects /\ first \in Subjects
        BY <1>2, <2>5
      <4>3. startedAt[x] \in Nat /\ startedAt[first] \in Nat
        BY <1>2, <4>2
      <4> QED
        BY <4>1, <4>3, RateAssumption
    <3> QED
      BY <3>4, <3>5, <3>6, <3>7
  <2>7. decision' = [isAllowed |-> FALSE, retryAfterMs |-> Remaining(first), subject |-> s, at |-> now]
    BY <2>1 DEF first
  <2> DEFINE ms == Remaining(first)
  <2> HIDE DEF ms
  <2>8. decision'.subject = s /\ decision'.at = now /\ decision'.retryAfterMs = ms
    BY <2>7 DEF ms
  <2> QED
    BY <2>1, <2>2, <2>3, <2>5, <2>6, <2>8 DEF RetryAfterIsHonest, ms
<1> QED
  BY <1>4, <1>5, <1>6 DEF Consume

LEMMA StoreInvInit == RateInit => StoreInv
<1> SUFFICES ASSUME RateInit PROVE StoreInv
  OBVIOUS
<1>1. Tracked = {} /\ order = {}
  BY DEF RateInit, Tracked
<1>2. decision.isAllowed
  BY DEF RateInit, Allowed
<1> QED
  BY <1>1, <1>2, CounterInvInit DEF StoreInv, InsertionInv, RetryAfterIsHonest

LEMMA StoreInvNext == StoreInv /\ [RateNext]_rateVars => StoreInv'
<1> SUFFICES ASSUME StoreInv, [RateNext]_rateVars PROVE StoreInv'
  OBVIOUS
<1>1. CounterInv'
  BY CounterInvNext DEF StoreInv
<1>2. ASSUME NEW s \in Subjects, Consume(s) PROVE StoreInv'
  BY <1>1, <1>2, ConsumeKeepsOrder, ConsumeIsHonest DEF StoreInv
<1>3. CASE RateTick \/ UNCHANGED rateVars
  <2>1. /\ UNCHANGED <<hits, startedAt, order, decision>> /\ now \in Nat
        /\ now' = now \/ now' = now + 1
    BY <1>3 DEF RateTick, rateVars, StoreInv, CounterInv
  <2>2. Tracked' = Tracked /\ \A s \in Tracked : startedAt[s] \in Nat
    BY <2>1 DEF Tracked, StoreInv, CounterInv
  <2>3. InsertionInv'
    BY <2>1, <2>2 DEF StoreInv, InsertionInv
  <2>4. RetryAfterIsHonest'
    BY <2>1, <2>2 DEF StoreInv, RetryAfterIsHonest
  <2> QED
    BY <1>1, <2>3, <2>4 DEF StoreInv
<1> QED
  BY <1>2, <1>3 DEF RateNext

\* Every Retry-After ends with a window that stood in the way.
THEOREM RateLimitRetryIsHonest == RateSpec => []RetryAfterIsHonest
<1>1. StoreInv => RetryAfterIsHonest
  BY DEF StoreInv
<1> QED
  BY <1>1, StoreInvInit, StoreInvNext, PTL DEF RateSpec

\* What a call of consume returns is a decision about its subject, at its instant.
LEMMA ConsumeDecides ==
  ASSUME StoreInv, NEW s \in Subjects, Consume(s)
  PROVE  decision' \in Decision
<1>1. now \in Nat /\ \A u \in Subjects : startedAt[u] \in Nat
  BY DEF StoreInv, CounterInv
<1>2. \A u \in Subjects : Remaining(u) \in Nat
  BY <1>1, RateAssumption DEF Remaining
<1>3. CASE StartWindow(s) \/ CountHit(s)
  <2>1. decision' = Allowed(s)
    BY <1>3 DEF StartWindow, CountHit, Grant
  <2>2. Allowed(s) \in Decision
    BY <1>1 DEF Allowed, Decision
  <2> QED
    BY <2>1, <2>2
<1>4. CASE RefuseSubject(s)
  BY <1>1, <1>2, <1>4 DEF RefuseSubject, Refuse, Refused, Decision
<1>5. CASE RefuseNewSubject(s)
  <2>1. Live # {}
    <3>1. Cardinality(Live) >= 1
      <4>1. Cardinality(Live) \in Nat /\ Cardinality(Live) >= MaxEntries
        BY <1>5, LiveIsTracked DEF RefuseNewSubject, StoreInv
      <4> QED
        BY <4>1, RateAssumption
    <3>2. Cardinality({}) = 0
      BY FS_EmptySet
    <3> QED
      BY <3>1, <3>2
  <2>2. Oldest \in Subjects
    BY <2>1, OldestIsFirst DEF StoreInv, Live
  <2> DEFINE ms == Remaining(Oldest)
  <2>3. ms \in Nat /\ decision' = Refused(s, ms)
    BY <1>2, <1>5, <2>2 DEF RefuseNewSubject, Refuse
  <2> HIDE DEF ms
  <2> QED
    BY <1>1, <2>3 DEF Refused, Decision
<1> QED
  BY <1>3, <1>4, <1>5 DEF Consume

\* Counters, windows, the order of the map and the decisions keep their types.
THEOREM RateLimitTypeCorrect == RateSpec => []RateTypeOK
<1> DEFINE DecisionInv == decision \in Decision
<1>1. RateInit => DecisionInv
  <2> SUFFICES ASSUME RateInit PROVE decision \in Decision
    OBVIOUS
  <2>1. now = 0 /\ \E s \in Subjects : decision = Allowed(s)
    BY DEF RateInit
  <2>2. \A s \in Subjects : Allowed(s) \in Decision
    BY <2>1 DEF Allowed, Decision
  <2> QED
    BY <2>1, <2>2
<1>2. StoreInv /\ DecisionInv /\ [RateNext]_rateVars => DecisionInv'
  BY ConsumeDecides DEF RateNext, RateTick, rateVars
<1>3. StoreInv /\ DecisionInv => RateTypeOK
  BY DEF StoreInv, CounterInv, InsertionInv, Tracked, RateTypeOK
<1> QED
  BY <1>1, <1>2, <1>3, StoreInvInit, StoreInvNext, PTL DEF RateSpec

-------------------------------------------------------------------------------
(* The quota of a number. *)
PhoneLive(d) == phoneHits[d] > 0 /\ phoneStartedAt[d] + PhoneWindow > now
Before(d) == {e \in admitted[d] : e.at < phoneStartedAt[d]}
Since(d) == {e \in admitted[d] : e.at >= phoneStartedAt[d]}
AtInstant(d, t) == {e \in admitted[d] : e.at = t}

PhoneTypes ==
  /\ phoneHits \in [Numbers -> 0..PhoneMax]
  /\ phoneStartedAt \in [Numbers -> Nat]
  /\ now \in Nat
  /\ DOMAIN admitted = Numbers

\* The auth requests for a number are told apart and younger than a window.
AdmittedInv(d) ==
  /\ IsFiniteSet(admitted[d])
  /\ \A e \in admitted[d] : /\ e.at \in Nat /\ now - PhoneWindow < e.at /\ e.at <= now
                            /\ e.place \in Nat
                            /\ 1 <= e.place /\ e.place <= Cardinality(AtInstant(d, e.at))

\* During a window, those of the window have been counted by it, the one that
\* opened it is still there, and those from before it lack the one that opened
\* theirs; between two windows nothing is from this instant.
WindowInv(d) ==
  IF PhoneLive(d)
  THEN /\ phoneStartedAt[d] <= now
       /\ Cardinality(Before(d)) < PhoneMax
       /\ Cardinality(Since(d)) = phoneHits[d]
       /\ \E e \in admitted[d] : e.at = phoneStartedAt[d]
  ELSE /\ Cardinality(admitted[d]) < PhoneMax
       /\ \A e \in admitted[d] : e.at < now

QuotaInv == PhoneTypes /\ \A d \in Numbers : AdmittedInv(d) /\ WindowInv(d)

\* The store of the numbers drops the windows that are over, and only those.
LEMMA PhoneDropped ==
  ASSUME PhoneTypes, NEW d \in Numbers
  PROVE  /\ phoneHits[d] \in 0..PhoneMax /\ phoneStartedAt[d] \in Nat
         /\ Phone!HitsLeft \in [Numbers -> 0..PhoneMax] /\ Phone!StartsLeft \in [Numbers -> Nat]
         /\ Phone!IsLive(d) <=> PhoneLive(d)
         /\ PhoneLive(d) => Phone!HitsLeft[d] = phoneHits[d] /\ Phone!StartsLeft[d] = phoneStartedAt[d]
         /\ ~PhoneLive(d) => Phone!HitsLeft[d] = 0
<1>1. /\ phoneHits[d] \in 0..PhoneMax /\ phoneStartedAt[d] \in Nat /\ now \in Nat
      /\ \A x \in Numbers : phoneHits[x] \in 0..PhoneMax /\ phoneStartedAt[x] \in Nat
  BY DEF PhoneTypes
<1>2. Phone!IsLive(d) <=> PhoneLive(d)
  BY <1>1, GuardAssumption DEF Phone!IsLive, Phone!Tracked, Phone!Remaining, PhoneLive
<1>3. Phone!HitsLeft \in [Numbers -> 0..PhoneMax] /\ Phone!StartsLeft \in [Numbers -> Nat]
  BY <1>1, GuardAssumption DEF Phone!HitsLeft, Phone!StartsLeft
<1>4. /\ Phone!HitsLeft[d] = IF PhoneLive(d) THEN phoneHits[d] ELSE 0
      /\ Phone!StartsLeft[d] = IF PhoneLive(d) THEN phoneStartedAt[d] ELSE 0
  BY <1>2 DEF Phone!HitsLeft, Phone!StartsLeft
<1> QED
  BY <1>1, <1>2, <1>3, <1>4

\* A step at which neither a number's window nor its requests move.
LEMMA WindowKept ==
  ASSUME NEW d \in Numbers, AdmittedInv(d), WindowInv(d),
         now' = now, admitted'[d] = admitted[d],
         \/ phoneHits'[d] = phoneHits[d] /\ phoneStartedAt'[d] = phoneStartedAt[d]
         \/ ~PhoneLive(d) /\ phoneHits'[d] = 0
  PROVE  AdmittedInv(d)' /\ WindowInv(d)'
<1>1. AdmittedInv(d)'
  BY DEF AdmittedInv, AtInstant
<1>2. CASE phoneHits'[d] = phoneHits[d] /\ phoneStartedAt'[d] = phoneStartedAt[d]
  BY <1>1, <1>2 DEF WindowInv, PhoneLive, Before, Since
<1>3. CASE ~PhoneLive(d) /\ phoneHits'[d] = 0
  BY <1>1, <1>3 DEF WindowInv, PhoneLive
<1> QED
  BY <1>1, <1>2, <1>3

\* A request that reaches the handler is one more than those that had, and has
\* been counted by the window it belongs to.
LEMMA NumberAdmitted ==
  ASSUME PhoneTypes, NEW d \in Numbers, AdmittedInv(d), WindowInv(d),
         Phone!StartWindow(d) \/ Phone!CountHit(d), Admit(d), now' = now
  PROVE  /\ Cardinality(admitted'[d]) = Cardinality(admitted[d]) + 1
         /\ AdmittedInv(d)' /\ WindowInv(d)'
<1> DEFINE new == [at |-> now, place |-> Place(d)]
<1>1. /\ admitted'[d] = admitted[d] \cup {new}
      /\ new.at = now /\ new.place = Cardinality(AtInstant(d, now)) + 1
  BY DEF PhoneTypes, Admit, Place, AtInstant
<1>2. /\ IsFiniteSet(admitted[d]) /\ now \in Nat
      /\ \A t : IsFiniteSet(AtInstant(d, t)) /\ Cardinality(AtInstant(d, t)) \in Nat
      /\ IsFiniteSet(Since(d)) /\ Cardinality(Since(d)) \in Nat
      /\ Cardinality(Before(d)) \in Nat /\ IsFiniteSet(Before(d))
      /\ Cardinality(admitted[d]) \in Nat
  <2>1. IsFiniteSet(admitted[d]) /\ now \in Nat
    BY DEF AdmittedInv, PhoneTypes
  <2>2. Before(d) \subseteq admitted[d] /\ Since(d) \subseteq admitted[d] /\ \A t : AtInstant(d, t) \subseteq admitted[d]
    BY DEF Before, Since, AtInstant
  <2> QED
    BY <2>1, <2>2, FS_Subset, FS_CardinalityType
<1>3. new \notin admitted[d]
  <2> SUFFICES ASSUME new \in admitted[d] PROVE FALSE
    OBVIOUS
  <2>1. new.place <= Cardinality(AtInstant(d, new.at))
    BY DEF AdmittedInv
  <2> QED
    BY <1>1, <1>2, <2>1
<1> HIDE DEF new
<1>4. Cardinality(admitted'[d]) = Cardinality(admitted[d]) + 1 /\ IsFiniteSet(admitted'[d])
  BY <1>1, <1>2, <1>3, FS_AddElement
<1>5. AdmittedInv(d)'
  <2>1. AtInstant(d, now)' = AtInstant(d, now) \cup {new} /\ new \notin AtInstant(d, now)
    BY <1>1, <1>3 DEF AtInstant
  <2>2. \A t : t # now => AtInstant(d, t)' = AtInstant(d, t)
    BY <1>1 DEF AtInstant
  <2>3. Cardinality(AtInstant(d, now)') = Cardinality(AtInstant(d, now)) + 1
    BY <1>2, <2>1, FS_AddElement
  <2>4. ASSUME NEW e \in admitted'[d]
        PROVE  /\ e.at \in Nat /\ now - PhoneWindow < e.at /\ e.at <= now
               /\ e.place \in Nat
               /\ 1 <= e.place /\ e.place <= Cardinality(AtInstant(d, e.at)')
    <3>1. CASE e = new
      BY <1>1, <1>2, <2>3, <3>1, GuardAssumption
    <3>2. CASE e \in admitted[d]
      <4>1. /\ e.at \in Nat /\ now - PhoneWindow < e.at /\ e.at <= now
            /\ e.place \in Nat /\ 1 <= e.place /\ e.place <= Cardinality(AtInstant(d, e.at))
        BY <3>2 DEF AdmittedInv
      <4>2. CASE e.at = now
        BY <1>2, <2>3, <4>1, <4>2
      <4>3. CASE e.at # now
        BY <2>2, <4>1, <4>3
      <4> QED
        BY <4>2, <4>3
    <3> QED
      BY <1>1, <3>1, <3>2
  <2> QED
    BY <1>4, <2>4 DEF AdmittedInv
<1>6. /\ phoneHits[d] \in 0..PhoneMax /\ phoneStartedAt[d] \in Nat
      /\ Phone!HitsLeft \in [Numbers -> 0..PhoneMax] /\ Phone!StartsLeft \in [Numbers -> Nat]
      /\ Phone!IsLive(d) <=> PhoneLive(d)
      /\ PhoneLive(d) => Phone!HitsLeft[d] = phoneHits[d] /\ Phone!StartsLeft[d] = phoneStartedAt[d]
  BY PhoneDropped
<1>7. CASE Phone!StartWindow(d)
  <2>1. ~PhoneLive(d) /\ phoneHits'[d] = 1 /\ phoneStartedAt'[d] = now
    BY <1>6, <1>7 DEF Phone!StartWindow
  <2>2. Cardinality(admitted[d]) < PhoneMax /\ \A e \in admitted[d] : e.at < now /\ e.at \in Nat
    BY <2>1 DEF WindowInv, AdmittedInv
  <2>3. Before(d)' = admitted[d] /\ Since(d)' = {new}
    BY <1>1, <1>2, <2>1, <2>2 DEF Before, Since
  <2>4. Cardinality({new}) = 1
    BY FS_Singleton
  <2>5. PhoneLive(d)'
    BY <1>2, <2>1, GuardAssumption DEF PhoneLive
  <2>6. phoneStartedAt'[d] <= now'
    BY <1>2, <2>1
  <2>7. \E e \in admitted'[d] : e.at = phoneStartedAt'[d]
    BY <1>1, <2>1
  <2>8. WindowInv(d)'
    BY <2>1, <2>2, <2>3, <2>4, <2>5, <2>6, <2>7 DEF WindowInv
  <2> QED
    BY <1>4, <1>5, <2>8
<1>8. CASE Phone!CountHit(d)
  <2>1. PhoneLive(d) /\ phoneHits'[d] = phoneHits[d] + 1 /\ phoneStartedAt'[d] = phoneStartedAt[d]
    BY <1>6, <1>8 DEF Phone!CountHit
  <2>2. /\ phoneStartedAt[d] <= now /\ Cardinality(Before(d)) < PhoneMax
        /\ Cardinality(Since(d)) = phoneHits[d]
        /\ \E e \in admitted[d] : e.at = phoneStartedAt[d]
    BY <2>1 DEF WindowInv
  <2>3. Before(d)' = Before(d) /\ Since(d)' = Since(d) \cup {new} /\ new \notin Since(d)
    BY <1>1, <1>2, <1>3, <1>6, <2>1, <2>2 DEF Before, Since
  <2>4. Cardinality(Since(d)') = phoneHits'[d]
    <3>1. Cardinality(Since(d) \cup {new}) = Cardinality(Since(d)) + 1
      BY <1>2, <2>3, FS_AddElement
    <3> QED
      BY <2>1, <2>2, <2>3, <3>1
  <2>5. PhoneLive(d)'
    BY <1>6, <2>1 DEF PhoneLive
  <2>6. \E e \in admitted'[d] : e.at = phoneStartedAt'[d]
    BY <1>1, <2>1, <2>2
  <2>7. WindowInv(d)'
    BY <2>1, <2>2, <2>3, <2>4, <2>5, <2>6 DEF WindowInv
  <2> QED
    BY <1>4, <1>5, <2>7
<1> QED
  BY <1>7, <1>8

\* As time passes, the requests of the last window of a number leave, and the
\* one that opened a window leaves no later than the window is over.
LEMMA WindowAges ==
  ASSUME PhoneTypes, NEW d \in Numbers, AdmittedInv(d), WindowInv(d), Tick
  PROVE  AdmittedInv(d)' /\ WindowInv(d)'
<1>1. /\ now' = now + 1 /\ now \in Nat
      /\ phoneHits'[d] = phoneHits[d] /\ phoneStartedAt'[d] = phoneStartedAt[d]
      /\ admitted'[d] = {e \in admitted[d] : e.at > now' - PhoneWindow}
  BY DEF PhoneTypes, Tick, RateTick, Phone!RateTick
<1>2. /\ IsFiniteSet(admitted[d])
      /\ \A e \in admitted[d] : e.at \in Nat /\ now - PhoneWindow < e.at /\ e.at <= now
      /\ phoneStartedAt[d] \in Nat /\ phoneHits[d] \in 0..PhoneMax
  BY DEF AdmittedInv, PhoneTypes
<1>3. /\ IsFiniteSet(admitted'[d]) /\ Cardinality(admitted'[d]) <= Cardinality(admitted[d])
      /\ Cardinality(admitted'[d]) \in Nat /\ Cardinality(admitted[d]) \in Nat
  <2>1. admitted'[d] \subseteq admitted[d]
    BY <1>1
  <2> QED
    BY <1>2, <2>1, FS_Subset, FS_CardinalityType
<1>4. AdmittedInv(d)'
  <2> SUFFICES ASSUME NEW e \in admitted'[d]
               PROVE  /\ e.at \in Nat /\ now' - PhoneWindow < e.at /\ e.at <= now'
                      /\ e.place \in Nat /\ 1 <= e.place /\ e.place <= Cardinality(AtInstant(d, e.at)')
    BY <1>3 DEF AdmittedInv
  <2>1. /\ e \in admitted[d] /\ e.at \in Nat /\ e.at <= now /\ e.at > now' - PhoneWindow
        /\ e.place \in Nat /\ 1 <= e.place /\ e.place <= Cardinality(AtInstant(d, e.at))
    BY <1>1 DEF AdmittedInv
  <2>2. AtInstant(d, e.at)' = AtInstant(d, e.at)
    BY <1>1, <2>1 DEF AtInstant
  <2> QED
    BY <1>1, <2>1, <2>2, GuardAssumption
<1>5. CASE ~PhoneLive(d)
  <2>1. ~PhoneLive(d)'
    BY <1>1, <1>2, <1>5, GuardAssumption DEF PhoneLive
  <2>2. Cardinality(admitted[d]) < PhoneMax
    BY <1>5 DEF WindowInv
  <2>3. \A e \in admitted'[d] : e.at < now'
    BY <1>1, <1>2
  <2>4. Cardinality(admitted'[d]) < PhoneMax
    BY <1>3, <2>2, GuardAssumption
  <2> QED
    BY <1>4, <2>1, <2>3, <2>4 DEF WindowInv
<1>6. CASE PhoneLive(d)
  <2>1. /\ phoneStartedAt[d] <= now /\ Cardinality(Before(d)) < PhoneMax
        /\ Cardinality(Since(d)) = phoneHits[d]
    BY <1>6 DEF WindowInv
  <2>2. PICK first \in admitted[d] : first.at = phoneStartedAt[d]
    BY <1>6 DEF WindowInv
  <2>3. /\ IsFiniteSet(Before(d)) /\ Cardinality(Before(d)) \in Nat
        /\ IsFiniteSet(Since(d)) /\ Cardinality(Since(d)) \in Nat
    BY <1>2, FS_Subset, FS_CardinalityType DEF Before, Since
  <2>4. CASE PhoneLive(d)'
    <3>1. phoneStartedAt[d] + PhoneWindow > now'
      BY <1>1, <2>4 DEF PhoneLive
    <3>2. Since(d)' = Since(d) /\ Before(d)' \subseteq Before(d) /\ first \in admitted'[d]
      BY <1>1, <1>2, <2>2, <3>1, GuardAssumption DEF Since, Before
    <3>3. Cardinality(Before(d)') <= Cardinality(Before(d)) /\ Cardinality(Before(d)') \in Nat
      BY <2>3, <3>2, FS_Subset, FS_CardinalityType
    <3>4. Cardinality(Before(d)') < PhoneMax /\ phoneStartedAt'[d] <= now'
      BY <1>1, <1>2, <2>1, <2>3, <3>3, GuardAssumption
    <3>5. Cardinality(Since(d)') = phoneHits'[d] /\ \E e \in admitted'[d] : e.at = phoneStartedAt'[d]
      BY <1>1, <2>1, <2>2, <3>2
    <3> QED
      BY <1>4, <2>4, <3>4, <3>5 DEF WindowInv
  <2>5. CASE ~PhoneLive(d)'
    <3>1. phoneStartedAt[d] + PhoneWindow <= now'
      BY <1>1, <1>2, <1>6, <2>5, GuardAssumption DEF PhoneLive
    <3>2. admitted'[d] \subseteq Since(d) \ {first} /\ first \in Since(d)
      BY <1>1, <1>2, <2>2, <3>1, GuardAssumption DEF Since
    <3>3. Cardinality(Since(d) \ {first}) = Cardinality(Since(d)) - 1 /\ IsFiniteSet(Since(d) \ {first})
      BY <2>3, <3>2, FS_RemoveElement
    <3>4. Cardinality(admitted'[d]) <= Cardinality(Since(d) \ {first})
      BY <3>2, <3>3, FS_Subset
    <3>5. Cardinality(admitted'[d]) < PhoneMax
      BY <1>2, <1>3, <2>1, <2>3, <3>3, <3>4, GuardAssumption
    <3>6. \A e \in admitted'[d] : e.at < now'
      BY <1>1, <1>2
    <3> QED
      BY <1>4, <2>5, <3>5, <3>6 DEF WindowInv
  <2> QED
    BY <2>4, <2>5
<1> QED
  BY <1>5, <1>6

\* What a call of the store of the numbers does to every number's window.
PhoneCall == \/ UNCHANGED phoneStore
             \/ \E x \in Numbers : \/ Phone!StartWindow(x) \/ Phone!CountHit(x)
                                   \/ Phone!RefuseSubject(x) \/ Phone!RefuseNewSubject(x)

LEMMA PhoneTypesKept ==
  ASSUME PhoneTypes, PhoneCall, now' = now, DOMAIN admitted' = Numbers
  PROVE  PhoneTypes'
<1>1. phoneHits \in [Numbers -> 0..PhoneMax] /\ phoneStartedAt \in [Numbers -> Nat] /\ now \in Nat
  BY DEF PhoneTypes
<1>2. CASE UNCHANGED phoneStore
  BY <1>1, <1>2 DEF phoneStore, PhoneTypes
<1>3. ASSUME NEW x \in Numbers, \/ Phone!StartWindow(x) \/ Phone!CountHit(x)
                                \/ Phone!RefuseSubject(x) \/ Phone!RefuseNewSubject(x)
      PROVE  phoneHits' \in [Numbers -> 0..PhoneMax] /\ phoneStartedAt' \in [Numbers -> Nat]
  <2>1. /\ phoneHits[x] \in 0..PhoneMax
        /\ Phone!HitsLeft \in [Numbers -> 0..PhoneMax] /\ Phone!StartsLeft \in [Numbers -> Nat]
        /\ Phone!IsLive(x) => Phone!HitsLeft[x] = phoneHits[x]
    BY PhoneDropped
  <2>2. CASE Phone!StartWindow(x)
    BY <1>1, <2>1, <2>2, GuardAssumption DEF Phone!StartWindow
  <2>3. CASE Phone!CountHit(x)
    <3>1. Phone!HitsLeft[x] + 1 \in 0..PhoneMax
      BY <2>1, <2>3, GuardAssumption DEF Phone!CountHit
    <3> QED
      BY <2>1, <2>3, <3>1 DEF Phone!CountHit
  <2>4. CASE Phone!RefuseSubject(x) \/ Phone!RefuseNewSubject(x)
    BY <2>1, <2>4 DEF Phone!RefuseSubject, Phone!RefuseNewSubject, Phone!Refuse
  <2> QED
    BY <1>3, <2>2, <2>3, <2>4
<1>4. phoneHits' \in [Numbers -> 0..PhoneMax] /\ phoneStartedAt' \in [Numbers -> Nat]
  <2>1. CASE UNCHANGED phoneStore
    BY <1>1, <2>1 DEF phoneStore
  <2> QED
    BY <1>3, <2>1 DEF PhoneCall
<1> QED
  BY <1>1, <1>4 DEF PhoneTypes

\* A call for another number, and a refusal, leave a live window alone.
LEMMA OtherWindowKept ==
  ASSUME PhoneTypes, NEW d \in Numbers, AdmittedInv(d), WindowInv(d),
         NEW x \in Numbers,
         \/ x # d /\ (Phone!StartWindow(x) \/ Phone!CountHit(x))
         \/ Phone!RefuseSubject(x) \/ Phone!RefuseNewSubject(x),
         now' = now, admitted'[d] = admitted[d]
  PROVE  AdmittedInv(d)' /\ WindowInv(d)'
<1>1. /\ Phone!HitsLeft \in [Numbers -> 0..PhoneMax] /\ Phone!StartsLeft \in [Numbers -> Nat]
      /\ PhoneLive(d) => Phone!HitsLeft[d] = phoneHits[d] /\ Phone!StartsLeft[d] = phoneStartedAt[d]
      /\ ~PhoneLive(d) => Phone!HitsLeft[d] = 0
  BY PhoneDropped
<1>2. phoneHits'[d] = Phone!HitsLeft[d] /\ phoneStartedAt'[d] = Phone!StartsLeft[d]
  <2>1. CASE x # d /\ (Phone!StartWindow(x) \/ Phone!CountHit(x))
    BY <1>1, <2>1 DEF Phone!StartWindow, Phone!CountHit
  <2>2. CASE Phone!RefuseSubject(x) \/ Phone!RefuseNewSubject(x)
    BY <2>2 DEF Phone!RefuseSubject, Phone!RefuseNewSubject, Phone!Refuse
  <2> QED
    BY <2>1, <2>2
<1> QED
  BY <1>1, <1>2, WindowKept

\* A step that leaves the requests of the numbers alone.
LEMMA NothingAdmitted ==
  ASSUME QuotaInv, now' = now, admitted' = admitted,
         \/ UNCHANGED phoneStore
         \/ \E x \in Numbers : Phone!RefuseSubject(x) \/ Phone!RefuseNewSubject(x)
  PROVE  QuotaInv'
<1>1. PhoneTypes'
  BY PhoneTypesKept DEF QuotaInv, PhoneTypes, PhoneCall
<1>2. ASSUME NEW d \in Numbers PROVE AdmittedInv(d)' /\ WindowInv(d)'
  <2>1. PhoneTypes /\ AdmittedInv(d) /\ WindowInv(d) /\ admitted'[d] = admitted[d]
    BY DEF QuotaInv
  <2>2. CASE UNCHANGED phoneStore
    BY <2>1, <2>2, WindowKept DEF phoneStore
  <2>3. CASE \E x \in Numbers : Phone!RefuseSubject(x) \/ Phone!RefuseNewSubject(x)
    BY <2>1, <2>3, OtherWindowKept
  <2> QED
    BY <2>2, <2>3
<1> QED
  BY <1>1, <1>2 DEF QuotaInv

LEMMA QuotaInvNext == QuotaInv /\ [Next]_vars => QuotaInv'
<1> SUFFICES ASSUME QuotaInv, [Next]_vars PROVE QuotaInv'
  OBVIOUS
<1>1. PhoneTypes /\ \A d \in Numbers : AdmittedInv(d) /\ WindowInv(d)
  BY DEF QuotaInv
<1>2. CASE Health \/ UNCHANGED vars
  BY <1>2, NothingAdmitted DEF Health, Conclude, vars
<1>3. CASE Tick
  <2>1. /\ now' = now + 1 /\ UNCHANGED phoneStore
        /\ DOMAIN admitted' = Numbers
    BY <1>3 DEF Tick, RateTick, Phone!RateTick, phoneStore
  <2>2. PhoneTypes'
    BY <1>1, <2>1 DEF PhoneTypes, phoneStore
  <2> QED
    BY <1>1, <1>3, <2>2, WindowAges DEF QuotaInv
<1>4. ASSUME NEW key \in OtherKeys, Unauthorized(key) PROVE QuotaInv'
  BY <1>4, NothingAdmitted DEF Unauthorized, Conclude
<1>5. ASSUME NEW key \in ApiKeys, CallerLimited(key) \/ PlainRoute(key) PROVE QuotaInv'
  BY <1>5, NothingAdmitted DEF CallerLimited, PlainRoute, Conclude
<1>6. ASSUME NEW key \in ApiKeys, NEW phone \in Phones,
             AuthWithoutNumber(key, phone) \/ AuthPassed(key, phone) \/ AuthLimited(key, phone)
      PROVE  QuotaInv'
  <2>1. CASE AuthWithoutNumber(key, phone)
    BY <1>6, <2>1, NothingAdmitted DEF AuthWithoutNumber, PlainRoute, Conclude
  <2>2. CASE AuthLimited(key, phone)
    <3>1. Digits[phone] \in Numbers
      BY <2>2 DEF AuthLimited, Numbers
    <3> QED
      BY <2>2, <3>1, NothingAdmitted DEF AuthLimited, Conclude
  <2>3. CASE AuthPassed(key, phone)
    <3> DEFINE x == Digits[phone]
    <3>1. /\ x \in Numbers
          /\ Phone!StartWindow(x) \/ Phone!CountHit(x)
          /\ Admit(x) /\ now' = now
      BY <2>3 DEF AuthPassed, Numbers, Conclude
    <3> HIDE DEF x
    <3>2. DOMAIN admitted' = Numbers /\ \A d \in Numbers \ {x} : admitted'[d] = admitted[d]
      BY <1>1, <3>1 DEF Admit, PhoneTypes
    <3>3. PhoneTypes'
      BY <1>1, <3>1, <3>2, PhoneTypesKept DEF PhoneCall
    <3>4. AdmittedInv(x)' /\ WindowInv(x)'
      BY <1>1, <3>1, NumberAdmitted
    <3>5. \A d \in Numbers \ {x} : AdmittedInv(d)' /\ WindowInv(d)'
      BY <1>1, <3>1, <3>2, OtherWindowKept
    <3> QED
      BY <3>3, <3>4, <3>5 DEF QuotaInv
  <2> QED
    BY <1>6, <2>1, <2>2, <2>3
<1> QED
  BY <1>2, <1>3, <1>4, <1>5, <1>6 DEF Next

LEMMA QuotaInvInit == Init => QuotaInv
<1> SUFFICES ASSUME Init PROVE QuotaInv
  OBVIOUS
<1>1. PhoneTypes
  BY GuardAssumption DEF Init, RateInit, Phone!RateInit, PhoneTypes
<1>2. ASSUME NEW d \in Numbers PROVE AdmittedInv(d) /\ WindowInv(d)
  <2>1. admitted[d] = {} /\ phoneHits[d] = 0
    BY DEF Init, Phone!RateInit
  <2>2. Cardinality({}) = 0 /\ IsFiniteSet({})
    BY FS_EmptySet
  <2> QED
    BY <2>1, <2>2, GuardAssumption DEF AdmittedInv, WindowInv, PhoneLive
<1> QED
  BY <1>1, <1>2 DEF QuotaInv

\* Fewer than two quotas of a number reach the handler within a window, for any
\* number of callers and spellings: the one that opened the last window but one
\* is older than that.
THEOREM NumbersHaveAQuota == Spec => []NumberQuota
<1>1. QuotaInv => NumberQuota
  <2> SUFFICES ASSUME QuotaInv, NEW d \in Numbers
               PROVE  Cardinality(admitted[d]) < 2 * PhoneMax
    BY DEF NumberQuota
  <2>1. PhoneTypes /\ AdmittedInv(d) /\ WindowInv(d)
    BY DEF QuotaInv
  <2>2. IsFiniteSet(admitted[d]) /\ \A e \in admitted[d] : e.at \in Nat
    BY <2>1 DEF AdmittedInv
  <2>3. phoneHits[d] \in 0..PhoneMax /\ phoneStartedAt[d] \in Nat
    BY <2>1 DEF PhoneTypes
  <2>4. CASE PhoneLive(d)
    <3>1. Cardinality(Before(d)) < PhoneMax /\ Cardinality(Since(d)) = phoneHits[d]
      BY <2>1, <2>4 DEF WindowInv
    <3>2. admitted[d] = Before(d) \cup Since(d) /\ Before(d) \cap Since(d) = {}
      BY <2>2, <2>3 DEF Before, Since
    <3>3. /\ IsFiniteSet(Before(d)) /\ IsFiniteSet(Since(d))
          /\ Cardinality(Before(d)) \in Nat /\ Cardinality(Since(d)) \in Nat
      BY <2>2, <3>2, FS_Subset, FS_CardinalityType
    <3>4. Cardinality(admitted[d]) = Cardinality(Before(d)) + Cardinality(Since(d)) - Cardinality({})
      BY <3>2, <3>3, FS_Union
    <3> QED
      BY <2>3, <3>1, <3>3, <3>4, FS_EmptySet, GuardAssumption
  <2>5. CASE ~PhoneLive(d)
    <3>1. Cardinality(admitted[d]) < PhoneMax /\ Cardinality(admitted[d]) \in Nat
      BY <2>1, <2>2, <2>5, FS_CardinalityType DEF WindowInv
    <3> QED
      BY <3>1, GuardAssumption
  <2> QED
    BY <2>4, <2>5
<1> QED
  BY <1>1, QuotaInvInit, QuotaInvNext, PTL DEF Spec

-------------------------------------------------------------------------------
(* What the guards do to the two stores. *)
\* A call for a key adds no other to those tracked.
LEMMA OnlyItIsTracked ==
  ASSUME NEW key \in Subjects, Consume(key)
  PROVE  Tracked' \subseteq Tracked \cup {key}
<1>1. \A s \in Subjects : HitsLeft[s] > 0 => s \in Tracked
  BY DEF HitsLeft, IsLive
<1>2. \A s \in Subjects \ {key} : hits'[s] = HitsLeft[s]
  BY DEF Consume, StartWindow, CountHit, RefuseSubject, RefuseNewSubject, Refuse, HitsLeft
<1> QED
  BY <1>1, <1>2 DEF Tracked

\* Whatever keys are presented, and however callers and numbers are mixed, only the
\* configured keys are counted, and a number pays for what reached the handler alone.
THEOREM OwnersSpendTheirQuotas == Spec => []QuotasAreSpentByTheirOwners
<1> DEFINE Known == Tracked \subseteq ApiKeys
<1>1. Init => Known
  BY DEF Init, RateInit, Tracked
<1>2. Known /\ [Next]_vars => Known'
  <2> SUFFICES ASSUME Known, [Next]_vars PROVE Known'
    OBVIOUS
  <2>1. ASSUME hits' = hits PROVE Known'
    BY <2>1 DEF Tracked
  <2>2. ASSUME NEW key \in ApiKeys, Consume(key) PROVE Known'
    BY <2>2, OnlyItIsTracked, GuardAssumption
  <2>3. CASE UNCHANGED vars
    BY <2>1, <2>3 DEF vars, callerStore
  <2>4. CASE Health \/ Tick
    BY <2>1, <2>4 DEF Health, Tick, RateTick, callerStore
  <2>5. ASSUME NEW key \in OtherKeys, Unauthorized(key) PROVE Known'
    BY <2>1, <2>5 DEF Unauthorized, callerStore
  <2>6. ASSUME NEW key \in ApiKeys, CallerLimited(key) \/ PlainRoute(key) PROVE Consume(key)
    BY <2>6 DEF CallerLimited, PlainRoute, CallerAllowed, Conclude, Consume
  <2>7. ASSUME NEW key \in ApiKeys, NEW phone \in Phones,
               AuthWithoutNumber(key, phone) \/ AuthPassed(key, phone) \/ AuthLimited(key, phone)
        PROVE  Consume(key)
    BY <2>7 DEF AuthWithoutNumber, PlainRoute, AuthPassed, AuthLimited, CallerAllowed, Conclude, Consume
  <2> QED
    BY <2>2, <2>3, <2>4, <2>5, <2>6, <2>7 DEF Next
<1>3. Known /\ QuotaInv => QuotasAreSpentByTheirOwners
  <2> SUFFICES ASSUME QuotaInv, NEW d \in Numbers, Phone!IsLive(d)
               PROVE  phoneHits[d] = Cardinality(Since(d))
    BY DEF QuotasAreSpentByTheirOwners, Since
  <2>1. PhoneTypes /\ WindowInv(d)
    BY DEF QuotaInv
  <2>2. PhoneLive(d)
    BY <2>1, PhoneDropped
  <2> QED
    BY <2>1, <2>2 DEF WindowInv
<1> QED
  BY <1>1, <1>2, <1>3, QuotaInvInit, QuotaInvNext, PTL DEF Spec

\* A request is one call of the callers' store or none, and an auth request one
\* of the numbers' store or none: each behaves as a store of its own.
THEOREM GuardsUseTheStores == Spec => RateSpec /\ Phone!RateSpec
<1>1. Init => RateInit /\ Phone!RateInit
  BY DEF Init
<1>2. [Next]_vars => [RateNext]_rateVars
  <2> SUFFICES ASSUME [Next]_vars PROVE RateNext \/ UNCHANGED rateVars
    OBVIOUS
  <2>1. CASE UNCHANGED vars
    BY <2>1 DEF vars, callerStore, rateVars
  <2>2. CASE Health
    BY <2>2 DEF Health, Conclude, callerStore, rateVars
  <2>3. CASE Tick
    BY <2>3 DEF Tick, RateNext
  <2>4. ASSUME NEW key \in OtherKeys, Unauthorized(key) PROVE UNCHANGED rateVars
    BY <2>4 DEF Unauthorized, Conclude, callerStore, rateVars
  <2>5. ASSUME NEW key \in ApiKeys, CallerLimited(key) \/ PlainRoute(key) PROVE Consume(key)
    BY <2>5 DEF CallerLimited, PlainRoute, CallerAllowed, Conclude, Consume
  <2>6. ASSUME NEW key \in ApiKeys, NEW phone \in Phones,
               AuthWithoutNumber(key, phone) \/ AuthPassed(key, phone) \/ AuthLimited(key, phone)
        PROVE  Consume(key)
    BY <2>6 DEF AuthWithoutNumber, PlainRoute, AuthPassed, AuthLimited, CallerAllowed, Conclude, Consume
  <2> QED
    BY <2>1, <2>2, <2>3, <2>4, <2>5, <2>6, GuardAssumption DEF Next, RateNext
<1>3. [Next]_vars => [Phone!RateNext]_(Phone!rateVars)
  <2> SUFFICES ASSUME [Next]_vars PROVE Phone!RateNext \/ UNCHANGED Phone!rateVars
    OBVIOUS
  <2>1. CASE UNCHANGED vars
    BY <2>1 DEF vars, phoneStore, Phone!rateVars
  <2>2. CASE Health
    BY <2>2 DEF Health, Conclude, phoneStore, Phone!rateVars
  <2>3. CASE Tick
    BY <2>3 DEF Tick, Phone!RateNext
  <2>4. ASSUME NEW key \in OtherKeys, Unauthorized(key) PROVE UNCHANGED Phone!rateVars
    BY <2>4 DEF Unauthorized, Conclude, phoneStore, Phone!rateVars
  <2>5. ASSUME NEW key \in ApiKeys, CallerLimited(key) \/ PlainRoute(key) PROVE UNCHANGED Phone!rateVars
    BY <2>5 DEF CallerLimited, PlainRoute, Conclude, phoneStore, Phone!rateVars
  <2>6. ASSUME NEW key \in ApiKeys, NEW phone \in Phones, AuthWithoutNumber(key, phone)
        PROVE  UNCHANGED Phone!rateVars
    BY <2>6 DEF AuthWithoutNumber, PlainRoute, Conclude, phoneStore, Phone!rateVars
  <2>7. ASSUME NEW key \in ApiKeys, NEW phone \in Phones, AuthPassed(key, phone) \/ AuthLimited(key, phone)
        PROVE  Digits[phone] \in Numbers /\ Phone!Consume(Digits[phone])
    BY <2>7 DEF AuthPassed, AuthLimited, Conclude, Phone!Consume, Numbers
  <2> QED
    BY <2>1, <2>2, <2>3, <2>4, <2>5, <2>6, <2>7 DEF Next, Phone!RateNext
<1> QED
  BY <1>1, <1>2, <1>3, PTL DEF Spec, RateSpec, Phone!RateSpec
===============================================================================
