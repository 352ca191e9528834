--------------------------- MODULE AlertQueue_proofs --------------------------
(***************************************************************************)
(* The alert queue for every queue size, concurrency and number of         *)
(* retries: its bounds and work conservation, the drain on shutdown, the   *)
(* silence of repeated alerts, and the books of what was dropped.          *)
(***************************************************************************)
EXTENDS AlertQueue, SequenceTheorems, WellFoundedInduction, TLAPS

\* The inductive invariant: the two ceilings, work conservation, and the types
\* of the two sequences they speak of.
QueueInv ==
  /\ queue \in Seq(Payload)
  /\ inFlight \in Seq(Sending)
  /\ droppedCount \in Nat
  /\ Bounds
  /\ NothingWaitsForAFreeSlot

\* What pump leaves behind: nothing is started beyond the ceiling, and the
\* queue is empty or every slot is taken (alert.service.ts:124).
LEMMA PumpFills ==
  ASSUME NEW q \in Seq(Payload), NEW f \in Seq(Sending), Len(f) <= MaxConcurrent, Pump(q, f)
  PROVE  /\ queue' \in Seq(Payload)
         /\ inFlight' \in Seq(Sending)
         /\ Len(queue') <= Len(q)
         /\ Len(f) < MaxConcurrent /\ q # <<>> => Len(queue') < Len(q)
         /\ Len(inFlight') <= MaxConcurrent
         /\ queue' # <<>> => Len(inFlight') = MaxConcurrent
<1> DEFINE room == MaxConcurrent - Len(f)
           n == IF room < Len(q) THEN room ELSE Len(q)
           started == [i \in 1..n |-> Start(q[i])]
<1>1. Len(f) \in Nat /\ Len(q) \in Nat /\ n \in 0..Len(q) /\ n <= room
  BY AlertAssumption
<1>2. \A i \in 1..n : Start(q[i]) \in Sending
  BY <1>1, AlertAssumption DEF Start, Sending
<1>3. started \in Seq(Sending) /\ Len(started) = n
  BY <1>1, <1>2
<1>4. inFlight' = f \o started /\ queue' = SubSeq(q, n + 1, Len(q))
  BY DEF Pump
<1>5. queue' \in Seq(Payload) /\ Len(queue') = Len(q) - n
  BY <1>1, <1>4
<1>6. inFlight' \in Seq(Sending) /\ Len(inFlight') = Len(f) + n
  <2> HIDE DEF started, n, room
  <2>1. f \o started \in Seq(Sending) /\ Len(f \o started) = Len(f) + Len(started)
    BY <1>3, ConcatProperties
  <2> QED
    BY <1>3, <1>4, <2>1
<1>7. q # <<>> => Len(q) > 0
  OBVIOUS
<1>8. queue' # <<>> => n < Len(q)
  BY <1>1, <1>5
<1> QED
  BY <1>1, <1>5, <1>6, <1>7, <1>8, AlertAssumption

\* A delivery that ends leaves a shorter sequence of requests.
LEMMA RemoveAtShortens ==
  ASSUME NEW f \in Seq(Sending), NEW i \in 1..Len(f)
  PROVE  RemoveAt(f, i) \in Seq(Sending) /\ Len(RemoveAt(f, i)) = Len(f) - 1
<1> DEFINE before == SubSeq(f, 1, i - 1)
           after == SubSeq(f, i + 1, Len(f))
<1>1. Len(f) \in Nat /\ i \in Nat /\ 1 <= i /\ i <= Len(f)
  OBVIOUS
<1>2. before \in Seq(Sending) /\ Len(before) = i - 1
  BY <1>1
<1>3. after \in Seq(Sending) /\ Len(after) = Len(f) - i
  BY <1>1
<1>4. RemoveAt(f, i) = before \o after
  BY DEF RemoveAt
<1>5. before \o after \in Seq(Sending) /\ Len(before \o after) = Len(before) + Len(after)
  <2> HIDE DEF before, after
  <2> QED
    BY <1>2, <1>3, ConcatProperties
<1> QED
  <2> HIDE DEF before, after
  <2> QED
    BY <1>1, <1>2, <1>3, <1>4, <1>5

\* An empty queue starts nothing.
LEMMA PumpOfNothing ==
  ASSUME NEW f \in Seq(Sending), Len(f) <= MaxConcurrent, Pump(<<>>, f)
  PROVE  queue' = <<>> /\ inFlight' = f
<1>1. Len(f) \in Nat
  OBVIOUS
<1> DEFINE room == MaxConcurrent - Len(f)
           n == IF room < Len(<<>>) THEN room ELSE Len(<<>>)
<1>2. n = 0
  BY <1>1, AlertAssumption
<1>3. inFlight' = f \o [i \in 1..0 |-> Start(<<>>[i])] /\ queue' = SubSeq(<<>>, 1, 0)
  <2>1. inFlight' = f \o [i \in 1..n |-> Start(<<>>[i])] /\ queue' = SubSeq(<<>>, n + 1, Len(<<>>))
    BY DEF Pump
  <2> QED
    BY <1>2, <2>1
<1>4. [i \in 1..0 |-> Start(<<>>[i])] = <<>> /\ SubSeq(<<>>, 1, 0) = <<>>
  OBVIOUS
<1> QED
  BY <1>3, <1>4

\* A delivery that ends gives its slot back before the pump runs.
LEMMA FinishKeeps ==
  ASSUME QueueInv, NEW i \in DOMAIN inFlight, Finish(i)
  PROVE  QueueInv'
<1> DEFINE rest == RemoveAt(inFlight, i)
<1>1. i \in 1..Len(inFlight) /\ Len(inFlight) \in Nat
  BY DEF QueueInv
<1>2. rest \in Seq(Sending) /\ Len(rest) = Len(inFlight) - 1
  BY <1>1, RemoveAtShortens DEF QueueInv
<1>3. Pump(queue, rest)
  BY DEF Finish
<1>4. /\ queue' \in Seq(Payload) /\ inFlight' \in Seq(Sending)
      /\ Len(queue') <= Len(queue) /\ Len(inFlight') <= MaxConcurrent
      /\ queue' # <<>> => Len(inFlight') = MaxConcurrent
  <2>1. Len(rest) <= MaxConcurrent /\ queue \in Seq(Payload)
    BY <1>1, <1>2, AlertAssumption DEF QueueInv, Bounds
  <2> HIDE DEF rest
  <2> QED
    BY <1>2, <1>3, <2>1, PumpFills
<1>5. droppedCount' = droppedCount
  BY DEF Finish
<1> QED
  BY <1>4, <1>5, AlertAssumption DEF QueueInv, Bounds, NothingWaitsForAFreeSlot

\* An accepted alert either starts at once or takes a free place in the queue.
LEMMA AcceptKeeps ==
  ASSUME QueueInv, NEW a \in Alert, Accept(a)
  PROVE  QueueInv'
<1> DEFINE q == Append(queue, [alert |-> a, dropped |-> droppedCount])
<1>0. [alert |-> a, dropped |-> droppedCount] \in Payload /\ droppedCount' \in Nat
  BY DEF QueueInv, Payload, Accept
<1>1. q \in Seq(Payload) /\ q # <<>> /\ Len(q) = Len(queue) + 1 /\ Len(queue) \in Nat
  BY <1>0 DEF QueueInv
<1>2. Pump(q, inFlight) /\ Len(queue) < QueueMax
  BY DEF Accept
<1>3. inFlight \in Seq(Sending) /\ Len(inFlight) <= MaxConcurrent /\ Len(inFlight) \in Nat
  BY DEF QueueInv, Bounds
<1> HIDE DEF q
<1>4. /\ queue' \in Seq(Payload) /\ inFlight' \in Seq(Sending)
      /\ Len(queue') <= Len(q) /\ Len(inFlight') <= MaxConcurrent
      /\ queue' # <<>> => Len(inFlight') = MaxConcurrent
  BY <1>1, <1>2, <1>3, PumpFills
<1>5. Len(queue') <= QueueMax
  BY <1>1, <1>2, <1>4, AlertAssumption
<1> QED
  BY <1>0, <1>4, <1>5 DEF QueueInv, Bounds, NothingWaitsForAFreeSlot

LEMMA QueueInvInit == Init => QueueInv
  BY AlertAssumption DEF Init, QueueInv, Bounds, NothingWaitsForAFreeSlot

LEMMA QueueInvNext == QueueInv /\ [Next]_vars => QueueInv'
<1> SUFFICES ASSUME QueueInv, [Next]_vars PROVE QueueInv'
  OBVIOUS
<1> USE DEF QueueInv, Bounds, NothingWaitsForAFreeSlot
<1>1. ASSUME UNCHANGED <<queue, inFlight>>, droppedCount' \in Nat PROVE QueueInv'
  BY <1>1
<1>2. ASSUME NEW a \in Alert, DropWhenFull(a) PROVE QueueInv'
  BY <1>2, <1>1 DEF DropWhenFull
<1>3. ASSUME NEW a \in Alert, Suppress(a) PROVE QueueInv'
  BY <1>3, <1>1 DEF Suppress
<1>4. ASSUME NEW a \in Alert, Accept(a) PROVE QueueInv'
  BY <1>4, AcceptKeeps
<1>5. ASSUME NEW k \in Keys, WindowLapses(k) PROVE QueueInv'
  BY <1>5, <1>1 DEF WindowLapses
<1>6. ASSUME NEW i \in DOMAIN inFlight, RequestSucceeds(i) PROVE QueueInv'
  BY <1>6, FinishKeeps DEF RequestSucceeds
<1>7. ASSUME NEW i \in DOMAIN inFlight, RequestFailsForGood(i) \/ BackoffAborted(i)
      PROVE QueueInv'
  BY <1>7, FinishKeeps DEF RequestFailsForGood, BackoffAborted, GiveUp
<1>15. CASE LogWindowLapses
  BY <1>15, <1>1 DEF LogWindowLapses
<1>8. ASSUME NEW i \in DOMAIN inFlight, RequestFails(i) PROVE QueueInv'
  <2>1. inFlight' = [inFlight EXCEPT ![i].phase = "backoff"] /\ UNCHANGED <<queue, droppedCount>>
    BY <1>8 DEF RequestFails
  <2>2. inFlight[i] \in Sending /\ i \in 1..Len(inFlight)
    OBVIOUS
  <2>3. [inFlight[i] EXCEPT !.phase = "backoff"] \in Sending
    BY <1>8, <2>2 DEF Sending, RequestFails
  <2>4. inFlight' \in Seq(Sending) /\ Len(inFlight') = Len(inFlight)
    BY <2>1, <2>2, <2>3
  <2> QED
    BY <2>1, <2>4
<1>9. ASSUME NEW i \in DOMAIN inFlight, Retry(i) PROVE QueueInv'
  <2>1. inFlight' = [inFlight EXCEPT ![i] = Again(inFlight[i])] /\ UNCHANGED <<queue, droppedCount>>
    BY <1>9 DEF Retry
  <2>2. inFlight[i] \in Sending /\ i \in 1..Len(inFlight) /\ inFlight[i].phase = "backoff"
    BY <1>9 DEF Retry
  <2>3. /\ inFlight[i].payload \in Payload /\ inFlight[i].attempt \in Nat
        /\ inFlight[i].attempt < MaxRetries
    BY <2>2, AlertAssumption DEF Sending
  <2>4. Again(inFlight[i]) \in Sending
    BY <2>3, AlertAssumption DEF Again, Sending
  <2>5. inFlight' \in Seq(Sending) /\ Len(inFlight') = Len(inFlight)
    BY <2>1, <2>2, <2>4
  <2> QED
    BY <2>1, <2>5
<1>10. CASE BeginShutdown
  BY <1>10, <1>1 DEF BeginShutdown
<1>11. ASSUME EndHook PROVE QueueInv'
  BY <1>11, AlertAssumption DEF EndHook
<1>12. CASE CallHook
  BY <1>12, <1>11, <1>1 DEF CallHook
<1>13. CASE DrainTimesOut \/ DrainDone
  BY <1>13, <1>11 DEF DrainTimesOut, DrainDone
<1>14. CASE UNCHANGED vars
  BY <1>14, <1>1 DEF vars
<1> QED
  BY <1>2, <1>3, <1>4, <1>5, <1>6, <1>7, <1>8, <1>9, <1>10, <1>12, <1>13, <1>14,
     <1>15 DEF Next, Raise, Delivery, Deliver

\* In every behaviour, at every size, the queue and the requests in flight stay
\* within their ceilings (alert.service.ts:89 and :125).
THEOREM AlertBounds == Spec => []Bounds
<1>1. QueueInv => Bounds
  BY DEF QueueInv
<1> QED
  BY <1>1, QueueInvInit, QueueInvNext, PTL DEF Spec

\* No alert ever waits while fewer than MaxConcurrent requests are in flight:
\* no way of accepting, failing or retrying strands the queue.
THEOREM AlertWorkConserving == Spec => []NothingWaitsForAFreeSlot
<1>1. QueueInv => NothingWaitsForAFreeSlot
  BY DEF QueueInv
<1> QED
  BY <1>1, QueueInvInit, QueueInvNext, PTL DEF Spec

\* The other inductive invariant: the hook is woken only when nothing is left,
\* and nothing can be added then, because draining stopped the alerts.
DrainInv ==
  /\ hook \in {"none", "draining", "woken", "ended"}
  /\ hook # "none" => accepting = FALSE
  /\ DrainIsComplete

\* An early end of the drain (not its timeout) loses no alert.
THEOREM AlertDrainComplete == Spec => []DrainIsComplete
<1>1. Init => DrainInv
  BY DEF Init, DrainInv, DrainIsComplete
<1>2. QueueInv /\ DrainInv /\ [Next]_vars => DrainInv'
  <2> SUFFICES ASSUME QueueInv, DrainInv, [Next]_vars PROVE DrainInv'
    OBVIOUS
  <2> USE DEF DrainInv, DrainIsComplete
  <2>1. ASSUME NEW a \in Alert, DropWhenFull(a) \/ Suppress(a) \/ Accept(a) PROVE DrainInv'
    BY <2>1 DEF DropWhenFull, Suppress, Accept, Raised
  <2>2. ASSUME NEW k \in Keys, WindowLapses(k) PROVE DrainInv'
    BY <2>2 DEF WindowLapses
  <2>3. ASSUME NEW i \in DOMAIN inFlight, RequestSucceeds(i) \/ RequestFailsForGood(i) \/ BackoffAborted(i)
        PROVE DrainInv'
    <3>1. Finish(i) /\ inFlight # <<>>
      BY <2>3 DEF RequestSucceeds, RequestFailsForGood, BackoffAborted, GiveUp, QueueInv
    <3>2. hook # "woken"
      BY <3>1
    <3>3. /\ accepting' = accepting
          /\ hook' = hook \/ (hook = "draining" /\ hook' = "woken" /\ queue' = <<>> /\ inFlight' = <<>>)
      BY <3>1 DEF Finish
    <3> QED
      BY <3>2, <3>3
  <2>4. ASSUME NEW i \in DOMAIN inFlight, RequestFails(i) \/ Retry(i) PROVE DrainInv'
    <3>1. inFlight # <<>>
      BY <2>4 DEF QueueInv
    <3> QED
      BY <3>1, <2>4 DEF RequestFails, Retry
  <2>8. CASE LogWindowLapses
    BY <2>8 DEF LogWindowLapses
  <2>5. CASE BeginShutdown
    BY <2>5 DEF BeginShutdown
  <2>6. CASE CallHook \/ DrainTimesOut \/ DrainDone
    BY <2>6 DEF CallHook, DrainTimesOut, DrainDone, EndHook
  <2>7. CASE UNCHANGED vars
    BY <2>7 DEF vars
  <2> QED
    BY <2>1, <2>2, <2>3, <2>4, <2>5, <2>6, <2>7, <2>8
       DEF Next, Raise, Delivery, Deliver
<1>3. DrainInv => DrainIsComplete
  BY DEF DrainInv
<1> QED
  BY <1>1, <1>2, <1>3, QueueInvInit, QueueInvNext, PTL DEF Spec

\* What an ended hook leaves: nothing is accepted and nothing waits.
EndedInv ==
  /\ hook # "none" => accepting = FALSE
  /\ hook = "ended" => queue = <<>>

\* No step starts a request once the hook has ended: a delivery that ends finds
\* nothing to pump, and a retry looks at the abort (alert.service.ts:74-75).
THEOREM AlertNothingStartsAfterTheHook == Spec => NothingStartsAfterTheHook
<1>1. Init => EndedInv
  BY DEF Init, EndedInv
<1> DEFINE Quiet == hook = "ended" => inFlight' = inFlight \/ Len(inFlight') < Len(inFlight)
<1>2. QueueInv /\ EndedInv /\ [Next]_vars => EndedInv' /\ Quiet
  <2> SUFFICES ASSUME QueueInv, EndedInv, [Next]_vars PROVE EndedInv' /\ Quiet
    OBVIOUS
  <2> USE DEF EndedInv
  <2>1. ASSUME NEW a \in Alert, Raise(a) PROVE EndedInv' /\ Quiet
    BY <2>1 DEF Raise, DropWhenFull, Suppress, Accept, Raised
  <2>2. ASSUME NEW i \in DOMAIN inFlight, Finish(i) PROVE EndedInv' /\ Quiet
    <3> DEFINE rest == RemoveAt(inFlight, i)
    <3>1. i \in 1..Len(inFlight) /\ Len(inFlight) \in Nat /\ inFlight \in Seq(Sending)
      BY DEF QueueInv
    <3>2. rest \in Seq(Sending) /\ Len(rest) = Len(inFlight) - 1
      BY <3>1, RemoveAtShortens
    <3>3. Pump(queue, rest) /\ accepting' = accepting /\ hook' \in {hook, "woken"}
          /\ (hook' # hook => hook = "draining")
      BY <2>2 DEF Finish
    <3>4. ASSUME hook = "ended" PROVE queue' = <<>> /\ inFlight' = rest
      <4>1. queue = <<>> /\ Len(rest) <= MaxConcurrent /\ Len(rest) \in Nat
        BY <3>1, <3>2, <3>4, AlertAssumption DEF QueueInv, Bounds
      <4>2. Pump(<<>>, rest)
        BY <3>3, <4>1
      <4> HIDE DEF rest
      <4>3. <<>> \in Seq(Payload) /\ rest \in Seq(Sending)
        BY <3>2
      <4> QED
        BY <4>1, <4>2, <4>3, AlertAssumption, PumpOfNothing
    <3> QED
      BY <3>1, <3>2, <3>3, <3>4
  <2>3. ASSUME NEW i \in DOMAIN inFlight, Deliver(i) PROVE EndedInv' /\ Quiet
    BY <2>2, <2>3 DEF Deliver, RequestSucceeds, RequestFailsForGood, BackoffAborted, GiveUp,
                      RequestFails, Retry, Aborted
  <2>4. ASSUME NEW k \in Keys, WindowLapses(k) PROVE EndedInv' /\ Quiet
    BY <2>4 DEF WindowLapses
  <2>5. CASE LogWindowLapses \/ BeginShutdown
    BY <2>5 DEF LogWindowLapses, BeginShutdown
  <2>6. CASE CallHook \/ DrainTimesOut \/ DrainDone
    BY <2>6 DEF CallHook, DrainTimesOut, DrainDone, EndHook
  <2>7. CASE UNCHANGED vars
    BY <2>7 DEF vars
  <2> QED
    BY <2>1, <2>3, <2>4, <2>5, <2>6, <2>7 DEF Next, Delivery
<1> QED
  BY <1>1, <1>2, QueueInvInit, QueueInvNext, PTL DEF Spec, NothingStartsAfterTheHook

-------------------------------------------------------------------------------
(* The windows of the deduplicator. *)
LEMMA LeastNat ==
  ASSUME NEW T, T \subseteq Nat, T # {}
  PROVE  \E x \in T : \A y \in T : x <= y
<1> DEFINE R == OpToRel(<, Nat)
<1>1. PICK x \in T : \A y \in T : ~(<<y, x>> \in R)
  <2>1. IsWellFoundedOn(R, Nat)
    BY NatLessThanWellFounded
  <2> HIDE DEF R
  <2> QED
    BY <2>1, WFMin
<1>2. ASSUME NEW y \in T PROVE x <= y
  <2>1. x \in Nat /\ y \in Nat
    OBVIOUS
  <2>2. ~(<<y, x>> \in R)
    BY <1>1
  <2>3. ~(y < x)
    BY <2>1, <2>2 DEF OpToRel
  <2> QED
    BY <2>1, <2>3
<1> QED
  BY <1>2

\* A key taken out of the windows leaves nothing but other windows.
LEMMA RemoveFirstKeeps ==
  ASSUME NEW w \in Seq(Keys), NEW k \in Keys, \E i \in 1..Len(w) : w[i] = k
  PROVE  RemoveFirst(w, k) \in Seq(Keys) /\ ToSet(RemoveFirst(w, k)) \subseteq ToSet(w)
<1> DEFINE I == {i \in 1..Len(w) : w[i] = k}
           j == Min(I)
<1>1. I \subseteq Nat /\ I # {}
  OBVIOUS
<1>2. j \in I
  <2> HIDE DEF I
  <2> QED
    BY <1>1, LeastNat DEF Min
<1>3. SelectInSeq(w, LAMBDA v : v = k) = j
  BY <1>1 DEF SelectInSeq
<1>4. RemoveFirst(w, k) = RemoveAt(w, j) /\ j \in 1..Len(w)
  BY <1>2, <1>3 DEF RemoveFirst
<1> HIDE DEF j
<1> DEFINE before == SubSeq(w, 1, j - 1)
           after == SubSeq(w, j + 1, Len(w))
<1>5. /\ before \in Seq(Keys) /\ Len(before) = j - 1 /\ \A i \in 1..(j - 1) : before[i] = w[i]
      /\ after \in Seq(Keys) /\ Len(after) = Len(w) - j /\ \A i \in 1..(Len(w) - j) : after[i] = w[j + i]
  BY <1>4
<1>6. RemoveFirst(w, k) = before \o after
  BY <1>4 DEF RemoveAt
<1> HIDE DEF before, after
<1>7. /\ before \o after \in Seq(Keys) /\ Len(before \o after) = Len(w) - 1
      /\ \A i \in 1..Len(before \o after) :
           (before \o after)[i] = IF i <= Len(before) THEN before[i] ELSE after[i - Len(before)]
  <2>1. /\ before \o after \in Seq(Keys) /\ Len(before \o after) = Len(before) + Len(after)
        /\ \A i \in 1..(Len(before) + Len(after)) :
             (before \o after)[i] = IF i <= Len(before) THEN before[i] ELSE after[i - Len(before)]
    BY <1>5, ConcatProperties
  <2>2. Len(before) + Len(after) = Len(w) - 1
    BY <1>4, <1>5
  <2> QED
    BY <2>1, <2>2
<1>8. ASSUME NEW i \in 1..Len(before \o after) PROVE (before \o after)[i] \in ToSet(w)
  <2>1. CASE i <= j - 1
    BY <1>4, <1>5, <1>7, <2>1 DEF ToSet
  <2>2. CASE i > j - 1
    <3>1. (before \o after)[i] = after[i - (j - 1)] /\ i - (j - 1) \in 1..(Len(w) - j)
      BY <1>4, <1>5, <1>7, <2>2
    <3>2. (before \o after)[i] = w[j + (i - (j - 1))] /\ j + (i - (j - 1)) \in 1..Len(w)
      BY <1>4, <1>5, <3>1
    <3> QED
      BY <3>2 DEF ToSet
  <2> QED
    BY <1>4, <2>1, <2>2
<1>9. ToSet(before \o after) \subseteq ToSet(w)
  <2>1. \A x \in ToSet(before \o after) : \E i \in 1..Len(before \o after) : x = (before \o after)[i]
    BY <1>7 DEF ToSet
  <2> QED
    BY <1>8, <2>1
<1> QED
  BY <1>6, <1>7, <1>9

\* A key that opens its window is the only one to join those remembered.
LEMMA OpenWindowKeeps ==
  ASSUME windows \in Seq(Keys), NEW k \in Keys, OpenWindow(k)
  PROVE  windows' \in Seq(Keys) /\ ToSet(windows') \subseteq ToSet(windows) \cup {k}
<1> DEFINE rest == IF Remembered(k) THEN RemoveFirst(windows, k) ELSE windows
           kept == Append(rest, k)
<1>1. rest \in Seq(Keys) /\ ToSet(rest) \subseteq ToSet(windows)
  <2>1. CASE Remembered(k)
    <3>1. \E i \in 1..Len(windows) : windows[i] = k
      BY <2>1 DEF Remembered, ToSet
    <3> QED
      BY <2>1, <3>1, RemoveFirstKeeps
  <2>2. CASE ~Remembered(k)
    BY <2>2
  <2> QED
    BY <2>1, <2>2
<1>2. windows' = kept \/ windows' = Tail(kept)
  BY DEF OpenWindow
<1> HIDE DEF rest
<1>3. /\ kept \in Seq(Keys) /\ Len(kept) = Len(rest) + 1
      /\ \A i \in 1..Len(kept) : kept[i] \in ToSet(rest) \cup {k}
  BY <1>1 DEF ToSet
<1>4. Tail(kept) \in Seq(Keys) /\ \A i \in 1..Len(Tail(kept)) : Tail(kept)[i] \in ToSet(rest) \cup {k}
  <2> HIDE DEF kept
  <2>1. kept # <<>>
    BY <1>1, <1>3
  <2>2. Tail(kept) \in Seq(Keys) /\ \A i \in 1..Len(Tail(kept)) : Tail(kept)[i] = kept[i + 1] /\ i + 1 \in 1..Len(kept)
    BY <1>3, <2>1
  <2> QED
    BY <1>3, <2>2
<1> HIDE DEF kept
<1>5. ASSUME NEW w \in Seq(Keys), \A i \in 1..Len(w) : w[i] \in ToSet(rest) \cup {k}
      PROVE  ToSet(w) \subseteq ToSet(windows) \cup {k}
  <2>1. ToSet(w) \subseteq ToSet(rest) \cup {k}
    <3> DEFINE old == ToSet(rest) \cup {k}
    <3>1. \A i \in 1..Len(w) : w[i] \in old
      BY <1>5
    <3> HIDE DEF old
    <3>2. ToSet(w) \subseteq old
      BY <3>1 DEF ToSet
    <3> QED
      BY <3>2 DEF old
  <2> QED
    BY <1>1, <2>1
<1>6. CASE windows' = kept
  BY <1>3, <1>5, <1>6
<1>7. CASE windows' = Tail(kept)
  BY <1>4, <1>5, <1>7
<1> QED
  BY <1>2, <1>6, <1>7

\* A key is silenced only by its own window, and has been announced in it.
SilenceInv == windows \in Seq(Keys) /\ SilenceFollowsAnAlert

\* Every key that is silenced has been queued in the same window: an alert that a
\* full queue drops opens none.
THEOREM AlertSilenceFollowsAnAlert == Spec => []SilenceFollowsAnAlert
<1>1. Init => SilenceInv
  BY DEF Init, SilenceInv, SilenceFollowsAnAlert, IsSuppressed, Remembered, ToSet
<1>2. SilenceInv /\ [Next]_vars => SilenceInv'
  <2> SUFFICES ASSUME SilenceInv, [Next]_vars PROVE SilenceInv'
    OBVIOUS
  <2> USE DEF SilenceInv, SilenceFollowsAnAlert, IsSuppressed, Remembered
  <2>1. ASSUME UNCHANGED <<windows, lapsed, announced>> PROVE SilenceInv'
    BY <2>1
  <2>2. ASSUME NEW a \in Alert, DropWhenFull(a) \/ Suppress(a) PROVE SilenceInv'
    BY <2>1, <2>2 DEF DropWhenFull, Suppress, CountRepeat, dedupVars
  <2>3. ASSUME NEW a \in Alert, Accept(a) PROVE SilenceInv'
    <3>1. CASE a \notin Keys
      BY <2>1, <2>3, <3>1 DEF Accept, dedupVars
    <3>2. CASE a \in Keys
      <4>1. OpenWindow(a) /\ announced' = (announced \cup {a}) \cap ToSet(windows')
        BY <2>3, <3>2 DEF Accept
      <4>2. windows' \in Seq(Keys) /\ ToSet(windows') \subseteq ToSet(windows) \cup {a}
        BY <3>2, <4>1, OpenWindowKeeps
      <4>3. lapsed' = (lapsed \ {a}) \cap ToSet(windows')
        BY <4>1 DEF OpenWindow
      <4> HIDE DEF SilenceInv
      <4>4. \A k \in Keys : k \in ToSet(windows) /\ k \notin lapsed => k \in announced
        BY DEF SilenceInv
      <4>5. \A k \in Keys : k \in ToSet(windows') /\ k \notin lapsed' => k \in announced'
        BY <4>1, <4>2, <4>3, <4>4
      <4> QED
        BY <4>2, <4>5 DEF SilenceInv
    <3> QED
      BY <3>1, <3>2
  <2>4. ASSUME NEW k \in Keys, WindowLapses(k) PROVE SilenceInv'
    BY <2>4 DEF WindowLapses
  <2>5. CASE LogWindowLapses \/ BeginShutdown
    BY <2>1, <2>5 DEF LogWindowLapses, BeginShutdown, dedupVars, ghosts
  <2>6. ASSUME NEW i \in DOMAIN inFlight, Deliver(i) PROVE SilenceInv'
    BY <2>1, <2>6 DEF Deliver, RequestSucceeds, RequestFailsForGood, BackoffAborted, GiveUp,
                      RequestFails, Retry, Finish, dedupVars, ghosts
  <2>7. CASE CallHook \/ DrainTimesOut \/ DrainDone
    BY <2>1, <2>7 DEF CallHook, DrainTimesOut, DrainDone, EndHook, dedupVars, ghosts
  <2>8. CASE UNCHANGED vars
    BY <2>1, <2>8 DEF vars, dedupVars, ghosts
  <2> QED
    BY <2>2, <2>3, <2>4, <2>5, <2>6, <2>7, <2>8 DEF Next, Raise, Delivery
<1>3. SilenceInv => SilenceFollowsAnAlert
  BY DEF SilenceInv
<1> QED
  BY <1>1, <1>2, <1>3, PTL DEF Spec

-------------------------------------------------------------------------------
(* The counts of dropped alerts.  Carried is the last of the sums of the counts *)
(* of the first alerts of a sequence.                                           *)
IsSums(q, s) == /\ s \in [0..Len(q) -> Int] /\ s[0] = 0
                /\ \A n \in 1..Len(q) : s[n] = s[n - 1] + q[n].dropped

LEMMA CountsOf ==
  ASSUME NEW q \in Seq(Payload)
  PROVE  Len(q) \in Nat /\ \A i \in 1..Len(q) : q[i].dropped \in Nat
<1>1. \A i \in 1..Len(q) : q[i] \in Payload
  OBVIOUS
<1>2. \A p \in Payload : p.dropped \in Nat
  BY DEF Payload
<1> QED
  BY <1>1, <1>2

LEMMA SumsExist ==
  ASSUME NEW q \in Seq(Payload)
  PROVE  \E s : IsSums(q, s)
<1> DEFINE Upto(n, s) == /\ s \in [0..n -> Int] /\ s[0] = 0
                         /\ \A i \in 1..n : s[i] = s[i - 1] + q[i].dropped
           T == {n \in 0..Len(q) : ~\E s : Upto(n, s)}
<1>1. Len(q) \in Nat /\ \A i \in 1..Len(q) : q[i].dropped \in Nat
  BY CountsOf
<1>2. ASSUME T # {} PROVE FALSE
  <2>1. T \subseteq Nat
    OBVIOUS
  <2>2. PICK m \in T : \A y \in T : m <= y
    <3> HIDE DEF T
    <3> QED
      BY <1>2, <2>1, LeastNat
  <2>3. m # 0
    <3>1. Upto(0, [i \in 0..0 |-> 0])
      OBVIOUS
    <3> QED
      BY <3>1
  <2>4. m - 1 \in 0..Len(q) /\ m - 1 \notin T /\ m \in 1..Len(q)
    <3>1. m \in 0..Len(q)
      BY <2>2
    <3>2. m - 1 \in 0..Len(q) /\ m \in 1..Len(q) /\ ~(m <= m - 1)
      BY <1>1, <2>3, <3>1
    <3> HIDE DEF T
    <3> QED
      BY <2>2, <3>2
  <2>5. PICK s : Upto(m - 1, s)
    BY <2>4
  <2> DEFINE t == [i \in 0..m |-> IF i = m THEN s[m - 1] + q[m].dropped ELSE s[i]]
  <2>6. t \in [0..m -> Int]
    BY <1>1, <2>4, <2>5
  <2>7. t[0] = 0 /\ t[m] = t[m - 1] + q[m].dropped
    BY <1>1, <2>4, <2>5
  <2>8. \A i \in 1..(m - 1) : t[i] = s[i] /\ t[i - 1] = s[i - 1]
    BY <1>1, <2>4
  <2>9. \A i \in 1..m : t[i] = t[i - 1] + q[i].dropped
    <3> SUFFICES ASSUME NEW i \in 1..m PROVE t[i] = t[i - 1] + q[i].dropped
      OBVIOUS
    <3> HIDE DEF t
    <3>1. CASE i = m
      BY <2>7, <3>1
    <3>2. CASE i \in 1..(m - 1)
      BY <2>5, <2>8, <3>2
    <3> QED
      BY <2>4, <3>1, <3>2
  <2> HIDE DEF t
  <2> QED
    BY <2>2, <2>6, <2>7, <2>9
<1>3. \E s : Upto(Len(q), s)
  <2>1. Len(q) \in 0..Len(q)
    BY <1>1
  <2> HIDE DEF Upto
  <2> QED
    BY <1>2, <2>1
<1> QED
  BY <1>3 DEF IsSums

\* Whatever sums a sequence up is what Carried returns.
LEMMA CarriedIs ==
  ASSUME NEW q \in Seq(Payload), NEW s, IsSums(q, s)
  PROVE  Carried(q) = s[Len(q)] /\ Carried(q) \in Int
<1> DEFINE Step(f) == [n \in 0..Len(q) |-> IF n = 0 THEN 0 ELSE f[n - 1] + q[n].dropped]
           c == CHOOSE f : f = Step(f)
<1>1. Len(q) \in Nat /\ \A i \in 1..Len(q) : q[i].dropped \in Nat
  BY CountsOf
<1>2. s = Step(s)
  <2>1. \A n \in 0..Len(q) : s[n] = Step(s)[n]
    BY <1>1 DEF IsSums
  <2> QED
    BY <2>1 DEF IsSums
<1>3. c = Step(c)
  <2> HIDE DEF Step
  <2> QED
    BY <1>2
<1>4. Carried(q) = c[Len(q)]
  BY DEF Carried
<1> HIDE DEF c
<1>5. c[0] = 0 /\ \A n \in 1..Len(q) : c[n] = c[n - 1] + q[n].dropped
  BY <1>1, <1>3
<1> HIDE DEF Step
<1> DEFINE T == {n \in 0..Len(q) : c[n] # s[n]}
<1>6. ASSUME T # {} PROVE FALSE
  <2>1. T \subseteq Nat
    OBVIOUS
  <2>2. PICK m \in T : \A y \in T : m <= y
    <3> HIDE DEF T
    <3> QED
      BY <1>6, <2>1, LeastNat
  <2>3. m \in 1..Len(q)
    BY <1>1, <1>5, <2>2 DEF IsSums
  <2>4. m - 1 \in 0..Len(q) /\ m - 1 \notin T
    BY <1>1, <2>2, <2>3
  <2>5. c[m - 1] = s[m - 1]
    BY <2>4
  <2> QED
    BY <1>5, <2>2, <2>3, <2>5 DEF IsSums
<1>7. c[Len(q)] = s[Len(q)]
  BY <1>1, <1>6
<1> QED
  BY <1>1, <1>4, <1>7 DEF IsSums

LEMMA CarriedConcat ==
  ASSUME NEW q \in Seq(Payload), NEW r \in Seq(Payload)
  PROVE  Carried(q \o r) = Carried(q) + Carried(r) /\ Carried(q) \in Int /\ Carried(r) \in Int
<1>1. /\ q \o r \in Seq(Payload) /\ Len(q \o r) = Len(q) + Len(r)
      /\ Len(q) \in Nat /\ Len(r) \in Nat
      /\ \A i \in 1..Len(q) : (q \o r)[i] = q[i]
      /\ \A i \in 1..Len(r) : (q \o r)[Len(q) + i] = r[i]
  OBVIOUS
<1> DEFINE all == q \o r
<1>2. all \in Seq(Payload)
  BY <1>1
<1>3. PICK s : IsSums(all, s)
  <2> HIDE DEF all
  <2> QED
    BY <1>2, SumsExist
<1>4. Carried(all) = s[Len(all)]
  <2> HIDE DEF all
  <2> QED
    BY <1>2, <1>3, CarriedIs
<1>5. /\ s \in [0..(Len(q) + Len(r)) -> Int] /\ s[0] = 0
      /\ \A n \in 1..(Len(q) + Len(r)) : s[n] = s[n - 1] + all[n].dropped
  BY <1>1, <1>3 DEF IsSums
<1>6. /\ \A i \in 1..Len(q) : all[i] = q[i]
      /\ \A i \in 1..Len(r) : all[Len(q) + i] = r[i]
  BY <1>1
<1>7. Carried(all) = s[Len(q) + Len(r)]
  BY <1>1, <1>4
<1> HIDE DEF all
<1> DEFINE u == [n \in 0..Len(q) |-> s[n]]
           t == [n \in 0..Len(r) |-> s[Len(q) + n] - s[Len(q)]]
<1>8. IsSums(q, u)
  <2>1. u \in [0..Len(q) -> Int] /\ u[0] = 0
    BY <1>1, <1>5
  <2>2. ASSUME NEW n \in 1..Len(q) PROVE u[n] = u[n - 1] + q[n].dropped
    <3>1. n \in 1..(Len(q) + Len(r)) /\ n - 1 \in 0..Len(q) /\ n \in 0..Len(q)
      BY <1>1
    <3>2. s[n] = s[n - 1] + q[n].dropped
      BY <1>5, <1>6, <3>1
    <3> QED
      BY <3>1, <3>2
  <2> QED
    BY <2>1, <2>2 DEF IsSums
<1>9. IsSums(r, t)
  <2>1. t \in [0..Len(r) -> Int]
    <3> SUFFICES ASSUME NEW n \in 0..Len(r) PROVE s[Len(q) + n] - s[Len(q)] \in Int
      OBVIOUS
    <3>1. Len(q) + n \in 0..(Len(q) + Len(r)) /\ Len(q) \in 0..(Len(q) + Len(r))
      BY <1>1
    <3>2. s \in [0..(Len(q) + Len(r)) -> Int]
      BY <1>5
    <3>3. s[Len(q) + n] \in Int /\ s[Len(q)] \in Int
      BY <3>1, <3>2
    <3> QED
      BY <3>3
  <2>2. t[0] = 0
    <3>1. s[Len(q)] \in Int /\ Len(q) + 0 = Len(q) /\ 0 \in 0..Len(r)
      BY <1>1, <1>5
    <3> QED
      BY <3>1
  <2>3. ASSUME NEW n \in 1..Len(r) PROVE t[n] = t[n - 1] + r[n].dropped
    <3>1. /\ Len(q) + n \in 1..(Len(q) + Len(r)) /\ (Len(q) + n) - 1 = Len(q) + (n - 1)
          /\ n - 1 \in 0..Len(r) /\ n \in 0..Len(r)
          /\ Len(q) + (n - 1) \in 0..(Len(q) + Len(r)) /\ Len(q) \in 0..(Len(q) + Len(r))
          /\ Len(q) + n \in 0..(Len(q) + Len(r))
      BY <1>1
    <3>2. s[Len(q) + n] = s[Len(q) + (n - 1)] + r[n].dropped
      BY <1>5, <1>6, <3>1
    <3>3. t[n] = s[Len(q) + n] - s[Len(q)] /\ t[n - 1] = s[Len(q) + (n - 1)] - s[Len(q)]
      BY <3>1
    <3>4. s[Len(q)] \in Int /\ s[Len(q) + (n - 1)] \in Int
      <4>1. s \in [0..(Len(q) + Len(r)) -> Int]
        BY <1>5
      <4> QED
        BY <3>1, <4>1
    <3>5. r[n].dropped \in Int
      <4>1. n \in 1..Len(r)
        OBVIOUS
      <4> QED
        BY <4>1, CountsOf
    <3> HIDE DEF t
    <3> QED
      BY <3>2, <3>3, <3>4, <3>5
  <2> QED
    BY <2>1, <2>2, <2>3 DEF IsSums
<1>10. Carried(q) = s[Len(q)] /\ Carried(q) \in Int
  <2>1. u[Len(q)] = s[Len(q)]
    BY <1>1
  <2> HIDE DEF u
  <2> QED
    BY <1>8, <2>1, CarriedIs
<1>11. Carried(r) = s[Len(q) + Len(r)] - s[Len(q)] /\ Carried(r) \in Int
  <2>1. t[Len(r)] = s[Len(q) + Len(r)] - s[Len(q)]
    BY <1>1
  <2> HIDE DEF t
  <2> QED
    BY <1>9, <2>1, CarriedIs
<1>12. s[Len(q) + Len(r)] \in Int
  BY <1>1, <1>5
<1> QED
  BY <1>7, <1>10, <1>11, <1>12 DEF all

LEMMA CarriedSmall ==
  ASSUME NEW p \in Payload
  PROVE  Carried(<<>>) = 0 /\ Carried(<<p>>) = p.dropped
<1>1. p.dropped \in Int
  BY DEF Payload
<1>2. IsSums(<<>>, [n \in 0..0 |-> 0])
  BY DEF IsSums
<1>3. IsSums(<<p>>, [n \in 0..1 |-> IF n = 0 THEN 0 ELSE p.dropped])
  <2> DEFINE s == [n \in 0..1 |-> IF n = 0 THEN 0 ELSE p.dropped]
  <2>1. s \in [0..1 -> Int] /\ s[0] = 0 /\ s[1] = p.dropped
    BY <1>1
  <2>2. Len(<<p>>) = 1 /\ <<p>>[1] = p
    OBVIOUS
  <2>3. \A n \in 1..1 : s[n] = s[n - 1] + <<p>>[n].dropped
    <3> HIDE DEF s
    <3> QED
      BY <1>1, <2>1, <2>2
  <2> HIDE DEF s
  <2>4. IsSums(<<p>>, s)
    BY <2>1, <2>2, <2>3 DEF IsSums
  <2> QED
    BY <2>4 DEF s
<1>4. Carried(<<>>) = 0
  <2>1. <<>> \in Seq(Payload) /\ Len(<<>>) = 0
    OBVIOUS
  <2>2. Carried(<<>>) = [n \in 0..0 |-> 0][0]
    BY <1>2, <2>1, CarriedIs
  <2> QED
    BY <2>2
<1>5. Carried(<<p>>) = p.dropped
  <2>1. <<p>> \in Seq(Payload) /\ Len(<<p>>) = 1
    OBVIOUS
  <2>2. Carried(<<p>>) = [n \in 0..1 |-> IF n = 0 THEN 0 ELSE p.dropped][1]
    BY <1>3, <2>1, CarriedIs
  <2> QED
    BY <2>2
<1> QED
  BY <1>4, <1>5

\* What is on its way in a sequence of deliveries.
Payloads(f) == [i \in DOMAIN f |-> f[i].payload]

LEMMA PayloadsConcat ==
  ASSUME NEW f \in Seq(Sending), NEW g \in Seq(Sending)
  PROVE  /\ Payloads(f) \in Seq(Payload) /\ Len(Payloads(f)) = Len(f)
         /\ Payloads(f \o g) = Payloads(f) \o Payloads(g)
<1>1. ASSUME NEW h \in Seq(Sending)
      PROVE  /\ Payloads(h) \in Seq(Payload) /\ Len(Payloads(h)) = Len(h) /\ Len(h) \in Nat
             /\ \A i \in 1..Len(h) : Payloads(h)[i] = h[i].payload
  <2>1. /\ Len(h) \in Nat /\ DOMAIN h = 1..Len(h)
        /\ \A i \in 1..Len(h) : h[i] \in Sending
    OBVIOUS
  <2>2. \A i \in 1..Len(h) : h[i].payload \in Payload
    BY <2>1 DEF Sending
  <2> QED
    BY <2>1, <2>2 DEF Payloads
<1>2. /\ f \o g \in Seq(Sending) /\ Len(f \o g) = Len(f) + Len(g)
      /\ \A i \in 1..(Len(f) + Len(g)) : (f \o g)[i] = IF i <= Len(f) THEN f[i] ELSE g[i - Len(f)]
  BY ConcatProperties
<1> DEFINE all == f \o g
<1>3. /\ Payloads(all) \in Seq(Payload) /\ Len(Payloads(all)) = Len(f) + Len(g)
      /\ \A i \in 1..(Len(f) + Len(g)) : Payloads(all)[i] = all[i].payload
  BY <1>1, <1>2
<1> DEFINE pf == Payloads(f)
           pg == Payloads(g)
<1>4. /\ pf \in Seq(Payload) /\ Len(pf) = Len(f) /\ \A i \in 1..Len(f) : pf[i] = f[i].payload
      /\ pg \in Seq(Payload) /\ Len(pg) = Len(g) /\ \A i \in 1..Len(g) : pg[i] = g[i].payload
      /\ Len(f) \in Nat /\ Len(g) \in Nat
  BY <1>1
<1> DEFINE pa == Payloads(all)
<1>5. \A i \in 1..(Len(f) + Len(g)) : all[i] = IF i <= Len(f) THEN f[i] ELSE g[i - Len(f)]
  BY <1>2
<1>6. pa \in Seq(Payload) /\ Len(pa) = Len(f) + Len(g) /\ \A i \in 1..(Len(f) + Len(g)) : pa[i] = all[i].payload
  BY <1>3
<1> HIDE DEF all, pf, pg, pa
<1>7. /\ pf \o pg \in Seq(Payload) /\ Len(pf \o pg) = Len(f) + Len(g)
      /\ \A i \in 1..(Len(f) + Len(g)) : (pf \o pg)[i] = IF i <= Len(f) THEN pf[i] ELSE pg[i - Len(f)]
  <2>1. \A u, v \in Seq(Payload) :
          /\ u \o v \in Seq(Payload) /\ Len(u \o v) = Len(u) + Len(v)
          /\ \A i \in 1..(Len(u) + Len(v)) : (u \o v)[i] = IF i <= Len(u) THEN u[i] ELSE v[i - Len(u)]
    BY ConcatProperties
  <2>2. /\ pf \o pg \in Seq(Payload) /\ Len(pf \o pg) = Len(pf) + Len(pg)
        /\ \A i \in 1..(Len(pf) + Len(pg)) : (pf \o pg)[i] = IF i <= Len(pf) THEN pf[i] ELSE pg[i - Len(pf)]
    BY <1>4, <2>1
  <2>3. Len(pf) = Len(f) /\ Len(pg) = Len(g)
    BY <1>4
  <2> QED
    BY <2>2, <2>3
<1>8. ASSUME NEW i \in 1..(Len(f) + Len(g)) PROVE pa[i] = (pf \o pg)[i]
  <2>1. CASE i <= Len(f)
    <3>1. i \in 1..Len(f)
      BY <1>4, <2>1
    <3> QED
      BY <1>4, <1>5, <1>6, <1>7, <2>1, <3>1
  <2>2. CASE ~(i <= Len(f))
    <3>1. i - Len(f) \in 1..Len(g)
      BY <1>4, <2>2
    <3> QED
      BY <1>4, <1>5, <1>6, <1>7, <2>2, <3>1
  <2> QED
    BY <2>1, <2>2
<1>9. pa = pf \o pg
  <2> DEFINE joined == pf \o pg
  <2>1. joined \in Seq(Payload) /\ Len(joined) = Len(pa) /\ \A i \in 1..Len(pa) : pa[i] = joined[i]
    BY <1>6, <1>7, <1>8
  <2> HIDE DEF joined
  <2>2. pa = joined
    BY <1>6, <2>1, SeqEqual
  <2> QED
    BY <2>2 DEF joined
<1> QED
  BY <1>4, <1>9 DEF all, pf, pg, pa

\* The pump moves counts from the queue into flight and keeps their sum.
LEMMA PumpKeepsCounts ==
  ASSUME NEW q \in Seq(Payload), NEW f \in Seq(Sending), Len(f) <= MaxConcurrent, Pump(q, f)
  PROVE  /\ Carried(queue') + Carried(Payloads(inFlight')) = Carried(q) + Carried(Payloads(f))
         /\ Carried(queue') \in Int /\ Carried(Payloads(inFlight')) \in Int
         /\ Carried(q) \in Int /\ Carried(Payloads(f)) \in Int
<1> DEFINE room == MaxConcurrent - Len(f)
           n == IF room < Len(q) THEN room ELSE Len(q)
           started == [i \in 1..n |-> Start(q[i])]
           first == SubSeq(q, 1, n)
           rest == SubSeq(q, n + 1, Len(q))
<1>1. Len(f) \in Nat /\ Len(q) \in Nat /\ n \in 0..Len(q) /\ \A i \in 1..Len(q) : q[i] \in Payload
  BY AlertAssumption
<1>2. \A i \in 1..n : Start(q[i]) \in Sending /\ Start(q[i]).payload = q[i]
  BY <1>1, AlertAssumption DEF Start, Sending
<1>3. started \in Seq(Sending) /\ Len(started) = n
  BY <1>1, <1>2
<1>4. inFlight' = f \o started /\ queue' = rest
  BY DEF Pump
<1>5. /\ first \in Seq(Payload) /\ Len(first) = n /\ \A i \in 1..n : first[i] = q[i]
      /\ rest \in Seq(Payload)
  <2> HIDE DEF n
  <2> QED
    BY <1>1
<1>6. Payloads(started) = first
  <2>1. DOMAIN started = 1..n /\ \A i \in 1..n : started[i].payload = q[i]
    BY <1>2
  <2>2. Payloads(started) = [i \in 1..n |-> q[i]]
    <3> HIDE DEF started, n
    <3> QED
      BY <2>1 DEF Payloads
  <2>3. first = [i \in 1..n |-> q[i]]
    <3> HIDE DEF n
    <3> QED
      BY <1>1
  <2> QED
    BY <2>2, <2>3
<1>7. q = first \o rest
  <2> HIDE DEF n
  <2>1. SubSeq(q, 1, n) \o SubSeq(q, n + 1, Len(q)) = SubSeq(q, 1, Len(q))
    <3>1. 1 \in 1..(Len(q) + 1) /\ n \in (1 - 1)..Len(q) /\ Len(q) \in n..Len(q)
      BY <1>1
    <3> QED
      BY <3>1, ConcatAdjacentSubSeq
  <2>2. SubSeq(q, 1, Len(q)) = q
    BY SubSeqFull
  <2> QED
    BY <2>1, <2>2
<1> HIDE DEF started, first, rest, n
<1>8. Payloads(inFlight') = Payloads(f) \o first /\ Payloads(f) \in Seq(Payload)
  BY <1>3, <1>4, <1>6, PayloadsConcat
<1>9. /\ Carried(q) = Carried(first) + Carried(rest) /\ Carried(first) \in Int /\ Carried(rest) \in Int
      /\ Carried(Payloads(inFlight')) = Carried(Payloads(f)) + Carried(first)
      /\ Carried(Payloads(f)) \in Int
  BY <1>5, <1>7, <1>8, CarriedConcat
<1> QED
  BY <1>4, <1>9

\* A delivery that ends takes its own count out of flight.
LEMMA RemoveAtTakesCount ==
  ASSUME NEW f \in Seq(Sending), NEW i \in 1..Len(f)
  PROVE  /\ Carried(Payloads(f)) = Carried(Payloads(RemoveAt(f, i))) + f[i].payload.dropped
         /\ Carried(Payloads(RemoveAt(f, i))) \in Int /\ f[i].payload.dropped \in Nat
<1> DEFINE before == SubSeq(f, 1, i - 1)
           upto == SubSeq(f, 1, i)
           after == SubSeq(f, i + 1, Len(f))
           one == <<f[i]>>
<1>1. Len(f) \in Nat /\ f[i] \in Sending
  OBVIOUS
<1>2. before \in Seq(Sending) /\ after \in Seq(Sending) /\ upto \in Seq(Sending) /\ one \in Seq(Sending)
  OBVIOUS
<1>3. f = upto \o after
  BY <1>1, ConcatAdjacentSubSeq, SubSeqFull
<1>4. upto = before \o one
  <2>1. upto = Append(before, f[i])
    BY <1>1
  <2> QED
    BY <1>1, <1>2, <2>1, AppendIsConcat
<1>5. Payloads(one) = <<f[i].payload>> /\ f[i].payload \in Payload
  BY <1>1 DEF Payloads, Sending
<1>6. RemoveAt(f, i) = before \o after
  BY DEF RemoveAt
<1> HIDE DEF before, upto, after, one
<1>7. /\ Payloads(f) = Payloads(upto) \o Payloads(after)
      /\ Payloads(upto) = Payloads(before) \o Payloads(one)
      /\ Payloads(RemoveAt(f, i)) = Payloads(before) \o Payloads(after)
      /\ Payloads(before) \in Seq(Payload) /\ Payloads(after) \in Seq(Payload)
      /\ Payloads(upto) \in Seq(Payload) /\ Payloads(one) \in Seq(Payload)
  <2>1. Payloads(f) = Payloads(upto) \o Payloads(after)
    BY <1>2, <1>3, PayloadsConcat
  <2>2. Payloads(upto) = Payloads(before) \o Payloads(one)
    BY <1>2, <1>4, PayloadsConcat
  <2>3. Payloads(RemoveAt(f, i)) = Payloads(before) \o Payloads(after)
    BY <1>2, <1>6, PayloadsConcat
  <2>4. Payloads(before) \in Seq(Payload) /\ Payloads(after) \in Seq(Payload)
    BY <1>2, PayloadsConcat
  <2>5. Payloads(upto) \in Seq(Payload) /\ Payloads(one) \in Seq(Payload)
    BY <1>2, PayloadsConcat
  <2> QED
    BY <2>1, <2>2, <2>3, <2>4, <2>5
<1>8. /\ Carried(Payloads(f)) = Carried(Payloads(upto)) + Carried(Payloads(after))
      /\ Carried(Payloads(upto)) = Carried(Payloads(before)) + Carried(Payloads(one))
      /\ Carried(Payloads(RemoveAt(f, i))) = Carried(Payloads(before)) + Carried(Payloads(after))
      /\ Carried(Payloads(before)) \in Int /\ Carried(Payloads(after)) \in Int
  BY <1>7, CarriedConcat
<1>9. Carried(Payloads(one)) = f[i].payload.dropped /\ f[i].payload.dropped \in Nat
  BY <1>5, CarriedSmall DEF Payload
<1> QED
  BY <1>8, <1>9

LEMMA CarriedInt ==
  ASSUME NEW q \in Seq(Payload)
  PROVE  Carried(q) \in Int
  BY CarriedConcat

\* The books in terms of Payloads, with the types of their entries.
BooksInv ==
  /\ lost \in Int /\ told \in Int /\ forfeited \in Int
  /\ lost = droppedCount + Carried(queue) + Carried(Payloads(inFlight)) + told + forfeited

LEMMA BooksInvInit == Init => BooksInv
<1>1. Carried(<<>>) = 0
  <2>1. <<>> \in Seq(Payload)
    OBVIOUS
  <2>2. [alert |-> Info, dropped |-> 0] \in Payload
    BY DEF Payload, Alert
  <2> QED
    BY <2>2, CarriedSmall
<1>2. Payloads(<<>>) = <<>>
  BY DEF Payloads
<1> QED
  BY <1>1, <1>2 DEF Init, BooksInv

\* The end of a delivery, whoever takes its count.
LEMMA FinishMovesCount ==
  ASSUME QueueInv, NEW i \in DOMAIN inFlight, Finish(i)
  PROVE  /\ Carried(queue') + Carried(Payloads(inFlight')) + inFlight[i].payload.dropped
              = Carried(queue) + Carried(Payloads(inFlight))
         /\ Carried(queue') \in Int /\ Carried(Payloads(inFlight')) \in Int
         /\ Carried(queue) \in Int /\ Carried(Payloads(inFlight)) \in Int
         /\ inFlight[i].payload.dropped \in Nat
<1> DEFINE rest == RemoveAt(inFlight, i)
<1>1. i \in 1..Len(inFlight) /\ Len(inFlight) \in Nat /\ inFlight \in Seq(Sending) /\ queue \in Seq(Payload)
  BY DEF QueueInv
<1>2. rest \in Seq(Sending) /\ Len(rest) = Len(inFlight) - 1
  BY <1>1, RemoveAtShortens
<1>3. Pump(queue, rest)
  BY DEF Finish
<1>4. /\ Carried(Payloads(inFlight)) = Carried(Payloads(rest)) + inFlight[i].payload.dropped
      /\ Carried(Payloads(rest)) \in Int /\ inFlight[i].payload.dropped \in Nat
  BY <1>1, RemoveAtTakesCount
<1>5. Len(rest) <= MaxConcurrent
  BY <1>1, <1>2, AlertAssumption DEF QueueInv, Bounds
<1> HIDE DEF rest
<1>6. /\ Carried(queue') + Carried(Payloads(inFlight')) = Carried(queue) + Carried(Payloads(rest))
      /\ Carried(queue') \in Int /\ Carried(Payloads(inFlight')) \in Int /\ Carried(queue) \in Int
  BY <1>1, <1>2, <1>3, <1>5, PumpKeepsCounts
<1> QED
  BY <1>4, <1>6

LEMMA CountMoves ==
  ASSUME NEW all \in Int, NEW kept \in Int, NEW q \in Int, NEW f \in Int, NEW t \in Int, NEW g \in Int,
         NEW q1 \in Int, NEW f1 \in Int, NEW count \in Int,
         all = kept + q + f + t + g, q1 + f1 + count = q + f
  PROVE  all = kept + q1 + f1 + (t + count) + g /\ all = kept + q1 + f1 + t + (g + count)
  OBVIOUS

LEMMA BooksInvNext == QueueInv /\ BooksInv /\ [Next]_vars => BooksInv'
<1> SUFFICES ASSUME QueueInv, BooksInv, [Next]_vars PROVE BooksInv'
  OBVIOUS
<1>1. /\ queue \in Seq(Payload) /\ inFlight \in Seq(Sending) /\ droppedCount \in Nat
      /\ Len(inFlight) <= MaxConcurrent
  BY DEF QueueInv, Bounds
<1>2. /\ Carried(queue) \in Int /\ Carried(Payloads(inFlight)) \in Int
      /\ lost \in Int /\ told \in Int /\ forfeited \in Int
      /\ lost = droppedCount + Carried(queue) + Carried(Payloads(inFlight)) + told + forfeited
  BY <1>1, CarriedInt, PayloadsConcat DEF BooksInv
<1>3. ASSUME UNCHANGED <<lost, droppedCount, queue, told, forfeited>>, Payloads(inFlight') = Payloads(inFlight)
      PROVE  BooksInv'
  BY <1>2, <1>3 DEF BooksInv
<1>4. ASSUME NEW a \in Alert, DropWhenFull(a) PROVE BooksInv'
  <2>1. /\ droppedCount' = droppedCount + 1 /\ lost' = lost + 1
        /\ UNCHANGED <<queue, inFlight, told, forfeited>>
    BY <1>4 DEF DropWhenFull, outcomes
  <2>2. Carried(queue)' = Carried(queue) /\ Carried(Payloads(inFlight))' = Carried(Payloads(inFlight))
    BY <2>1
  <2> DEFINE q == Carried(queue)
             f == Carried(Payloads(inFlight))
  <2> HIDE DEF q, f
  <2>3. /\ q \in Int /\ f \in Int /\ lost = droppedCount + q + f + told + forfeited
        /\ lost \in Int /\ told \in Int /\ forfeited \in Int /\ droppedCount \in Nat
    BY <1>1, <1>2 DEF q, f
  <2>4. lost' = droppedCount' + q + f + told' + forfeited'
    BY <2>1, <2>3
  <2>5. lost' \in Int /\ told' \in Int /\ forfeited' \in Int
    BY <2>1, <2>3
  <2> QED
    BY <2>2, <2>4, <2>5 DEF BooksInv, q, f
<1>5. ASSUME NEW a \in Alert, Suppress(a) PROVE BooksInv'
  BY <1>3, <1>5 DEF Suppress, outcomes
<1>6. ASSUME NEW a \in Alert, Accept(a) PROVE BooksInv'
  <2> DEFINE p == [alert |-> a, dropped |-> droppedCount]
             q == Append(queue, p)
  <2>1. p \in Payload /\ p.dropped = droppedCount
    BY <1>1 DEF Payload
  <2>2. Pump(q, inFlight) /\ droppedCount' = 0 /\ UNCHANGED <<lost, told, forfeited>>
    BY <1>6 DEF Accept, outcomes
  <2> HIDE DEF p
  <2>3. q \in Seq(Payload) /\ q = queue \o <<p>> /\ <<p>> \in Seq(Payload)
    BY <1>1, <2>1, AppendIsConcat
  <2> HIDE DEF q
  <2>4. Carried(q) = Carried(queue) + droppedCount
    BY <1>1, <2>1, <2>3, CarriedConcat, CarriedSmall
  <2>5. /\ Carried(queue') + Carried(Payloads(inFlight')) = Carried(q) + Carried(Payloads(inFlight))
        /\ Carried(queue') \in Int /\ Carried(Payloads(inFlight')) \in Int
    BY <1>1, <2>2, <2>3, PumpKeepsCounts
  <2> QED
    BY <1>1, <1>2, <2>2, <2>4, <2>5 DEF BooksInv
<1>7. ASSUME NEW k \in Keys, WindowLapses(k) PROVE BooksInv'
  BY <1>3, <1>7 DEF WindowLapses, outcomes
<1>8. CASE LogWindowLapses \/ BeginShutdown
  BY <1>3, <1>8 DEF LogWindowLapses, BeginShutdown, ghosts, outcomes
<1>9. ASSUME NEW i \in DOMAIN inFlight, RequestSucceeds(i) PROVE BooksInv'
  <2>1. /\ Finish(i) /\ told' = told + inFlight[i].payload.dropped
        /\ UNCHANGED <<lost, droppedCount, forfeited>>
    BY <1>9 DEF RequestSucceeds, Finish
  <2> DEFINE count == inFlight[i].payload.dropped
  <2>2. /\ Carried(queue') + Carried(Payloads(inFlight')) + count = Carried(queue) + Carried(Payloads(inFlight))
        /\ Carried(queue') \in Int /\ Carried(Payloads(inFlight')) \in Int /\ count \in Nat
    BY <2>1, FinishMovesCount
  <2>3. told' = told + count
    BY <2>1
  <2> HIDE DEF count
  <2>4. lost' \in Int /\ told' \in Int /\ forfeited' \in Int
    BY <1>2, <2>1, <2>2, <2>3
  <2> DEFINE q == Carried(queue)
             f == Carried(Payloads(inFlight))
             q1 == Carried(queue')
             f1 == Carried(Payloads(inFlight'))
  <2>5. /\ q \in Int /\ f \in Int /\ q1 \in Int /\ f1 \in Int /\ count \in Int /\ droppedCount \in Int
        /\ lost = droppedCount + q + f + told + forfeited /\ q1 + f1 + count = q + f
    BY <1>1, <1>2, <2>2
  <2> HIDE DEF q, f, q1, f1
  <2>6. lost = droppedCount + q1 + f1 + (told + count) + forfeited
    BY <1>2, <2>5, CountMoves
  <2>7. lost' = lost /\ droppedCount' = droppedCount /\ told' = (told + count) /\ forfeited' = forfeited
    BY <2>1, <2>3
  <2>8. lost' = droppedCount' + q1 + f1 + told' + forfeited'
    BY <2>6, <2>7
  <2> QED
    BY <2>4, <2>8 DEF BooksInv, q1, f1
<1>10. ASSUME NEW i \in DOMAIN inFlight, RequestFailsForGood(i) \/ BackoffAborted(i) PROVE BooksInv'
  <2>1. /\ Finish(i) /\ forfeited' = forfeited + inFlight[i].payload.dropped
        /\ UNCHANGED <<lost, droppedCount, told>>
    BY <1>10 DEF RequestFailsForGood, BackoffAborted, GiveUp, Finish
  <2> DEFINE count == inFlight[i].payload.dropped
  <2>2. /\ Carried(queue') + Carried(Payloads(inFlight')) + count = Carried(queue) + Carried(Payloads(inFlight))
        /\ Carried(queue') \in Int /\ Carried(Payloads(inFlight')) \in Int /\ count \in Nat
    BY <2>1, FinishMovesCount
  <2>3. forfeited' = forfeited + count
    BY <2>1
  <2> HIDE DEF count
  <2>4. lost' \in Int /\ told' \in Int /\ forfeited' \in Int
    BY <1>2, <2>1, <2>2, <2>3
  <2> DEFINE q == Carried(queue)
             f == Carried(Payloads(inFlight))
             q1 == Carried(queue')
             f1 == Carried(Payloads(inFlight'))
  <2>5. /\ q \in Int /\ f \in Int /\ q1 \in Int /\ f1 \in Int /\ count \in Int /\ droppedCount \in Int
        /\ lost = droppedCount + q + f + told + forfeited /\ q1 + f1 + count = q + f
    BY <1>1, <1>2, <2>2
  <2> HIDE DEF q, f, q1, f1
  <2>6. lost = droppedCount + q1 + f1 + told + (forfeited + count)
    BY <1>2, <2>5, CountMoves
  <2>7. lost' = lost /\ droppedCount' = droppedCount /\ told' = told /\ forfeited' = (forfeited + count)
    BY <2>1, <2>3
  <2>8. lost' = droppedCount' + q1 + f1 + told' + forfeited'
    BY <2>6, <2>7
  <2> QED
    BY <2>4, <2>8 DEF BooksInv, q1, f1
<1>11. ASSUME NEW i \in DOMAIN inFlight, RequestFails(i) \/ Retry(i) PROVE BooksInv'
  <2>1. /\ \/ inFlight' = [inFlight EXCEPT ![i] = [inFlight[i] EXCEPT !.phase = "backoff"]]
           \/ inFlight' = [inFlight EXCEPT ![i] = Again(inFlight[i])]
        /\ UNCHANGED <<lost, droppedCount, queue, told, forfeited>>
    BY <1>11 DEF RequestFails, Retry, ghosts, outcomes
  <2>2. /\ inFlight[i] \in Sending /\ DOMAIN inFlight = 1..Len(inFlight)
    BY <1>1
  <2>3. /\ [inFlight[i] EXCEPT !.phase = "backoff"].payload = inFlight[i].payload
        /\ Again(inFlight[i]).payload = inFlight[i].payload
    BY <2>2 DEF Sending, Again
  <2>4. DOMAIN inFlight' = DOMAIN inFlight /\ \A j \in DOMAIN inFlight : inFlight'[j].payload = inFlight[j].payload
    BY <2>1, <2>2, <2>3
  <2>5. Payloads(inFlight') = Payloads(inFlight)
    BY <2>4 DEF Payloads
  <2> QED
    BY <1>3, <2>1, <2>5
<1>12. ASSUME EndHook PROVE BooksInv'
  <2>1. /\ queue' = <<>> /\ forfeited' = forfeited + Carried(queue)
        /\ UNCHANGED <<inFlight, droppedCount, lost, told>>
    BY <1>12 DEF EndHook
  <2>2. Carried(<<>>) = 0
    <3>1. [alert |-> Info, dropped |-> 0] \in Payload
      BY DEF Payload, Alert
    <3> QED
      BY <3>1, CarriedSmall
  <2> QED
    BY <1>1, <1>2, <2>1, <2>2 DEF BooksInv
<1>13. CASE CallHook \/ DrainTimesOut \/ DrainDone
  BY <1>3, <1>12, <1>13 DEF CallHook, DrainTimesOut, DrainDone, ghosts, outcomes
<1>14. CASE UNCHANGED vars
  BY <1>3, <1>14 DEF vars, ghosts, outcomes
<1> QED
  BY <1>4, <1>5, <1>6, <1>7, <1>8, <1>9, <1>10, <1>11, <1>13, <1>14 DEF Next, Raise, Delivery, Deliver

\* However alerts, drops, retries and the drain interleave, every dropped alert is
\* still counted somewhere, or its count was told or given up with a delivery.
THEOREM AlertDropsAreReported == Spec => []DropsAreReported
<1>1. BooksInv => DropsAreReported
  BY DEF BooksInv, DropsAreReported, Payloads
<1> QED
  BY <1>1, QueueInvInit, QueueInvNext, BooksInvInit, BooksInvNext, PTL DEF Spec

-------------------------------------------------------------------------------
(* The types. *)
LEMMA CarriedNat ==
  ASSUME NEW q \in Seq(Payload)
  PROVE  Carried(q) \in Nat
<1>1. Len(q) \in Nat /\ \A i \in 1..Len(q) : q[i].dropped \in Nat
  BY CountsOf
<1>2. PICK s : IsSums(q, s)
  BY SumsExist
<1> DEFINE T == {n \in 0..Len(q) : s[n] \notin Nat}
<1>3. ASSUME T # {} PROVE FALSE
  <2>1. T \subseteq Nat
    OBVIOUS
  <2>2. PICK m \in T : \A y \in T : m <= y
    <3> HIDE DEF T
    <3> QED
      BY <1>3, <2>1, LeastNat
  <2>3. m \in 0..Len(q) /\ s[m] \notin Nat
    OBVIOUS
  <2>4. m \in 1..Len(q)
    BY <1>1, <1>2, <2>3 DEF IsSums
  <2>5. m - 1 \in 0..Len(q) /\ ~(m <= m - 1)
    BY <1>1, <2>4
  <2>6. s[m - 1] \in Nat
    <3>1. m - 1 \notin T
      <4> HIDE DEF T
      <4> QED
        BY <2>2, <2>5
    <3> QED
      BY <2>5, <3>1
  <2>7. s[m] = s[m - 1] + q[m].dropped /\ q[m].dropped \in Nat
    BY <1>1, <1>2, <2>4 DEF IsSums
  <2> QED
    BY <2>3, <2>6, <2>7
<1>4. s[Len(q)] \in Nat
  BY <1>1, <1>3
<1> QED
  BY <1>2, <1>4, CarriedIs

\* What QueueInv leaves out of TypeOK.
RestInv ==
  /\ windows \in Seq(Keys) /\ lapsed \subseteq Keys /\ suppressed \in [Keys -> Nat]
  /\ accepting \in BOOLEAN /\ hook \in {"none", "draining", "woken", "ended"}
  /\ unlogged \in Nat /\ logged \in BOOLEAN
  /\ raised \in Nat /\ lost \in Nat /\ told \in Nat /\ forfeited \in Nat
  /\ announced \subseteq Keys

LEMMA OpenWindowTypes ==
  ASSUME RestInv, NEW k \in Keys, OpenWindow(k)
  PROVE  windows' \in Seq(Keys) /\ lapsed' \subseteq Keys /\ suppressed' \in [Keys -> Nat]
<1>1. windows' \in Seq(Keys)
  BY OpenWindowKeeps DEF RestInv
<1>2. lapsed' \subseteq lapsed
  BY DEF OpenWindow
<1>3. suppressed' \in [Keys -> Nat]
  <2> DEFINE gone(j) == j = k \/ j \notin ToSet(windows')
  <2>1. suppressed' = [j \in Keys |-> IF gone(j) THEN 0 ELSE suppressed[j]]
    BY DEF OpenWindow
  <2>2. \A j \in Keys : suppressed[j] \in Nat
    BY DEF RestInv
  <2> HIDE DEF gone
  <2> QED
    BY <2>1, <2>2
<1> QED
  BY <1>1, <1>2, <1>3 DEF RestInv

LEMMA RestInvNext == QueueInv /\ RestInv /\ [Next]_vars => RestInv'
<1> SUFFICES ASSUME QueueInv, RestInv, [Next]_vars PROVE RestInv'
  OBVIOUS
<1>1. Carried(queue) \in Nat
  BY CarriedNat DEF QueueInv
<1>2. ASSUME NEW i \in DOMAIN inFlight PROVE inFlight[i].payload.dropped \in Nat
  <2>1. inFlight[i] \in Sending
    BY DEF QueueInv
  <2>2. inFlight[i].payload \in Payload
    BY <2>1 DEF Sending
  <2> QED
    BY <2>2 DEF Payload
<1>3. ASSUME NEW a \in Alert, Raise(a) PROVE RestInv'
  <2>1. raised' \in Nat /\ UNCHANGED <<unlogged, logged, accepting, hook, told, forfeited>>
    BY <1>3 DEF Raise, DropWhenFull, Suppress, Accept, Raised, logVars, outcomes, RestInv
  <2>2. CASE DropWhenFull(a)
    BY <2>1, <2>2 DEF DropWhenFull, dedupVars, RestInv
  <2>3. CASE Suppress(a)
    <3>1. a \in Keys /\ suppressed' = [suppressed EXCEPT ![a] = suppressed[a] + 1]
      BY <2>3 DEF Suppress, IsSuppressed, CountRepeat
    <3>2. suppressed' \in [Keys -> Nat]
      BY <3>1 DEF RestInv
    <3> QED
      BY <2>1, <2>3, <3>2 DEF Suppress, CountRepeat, RestInv
  <2>4. CASE Accept(a)
    <3>1. lost' = lost
      BY <2>4 DEF Accept
    <3>2. CASE a \in Keys
      <4>1. OpenWindow(a) /\ announced' \subseteq announced \cup {a}
        BY <2>4, <3>2 DEF Accept
      <4>2. windows' \in Seq(Keys) /\ lapsed' \subseteq Keys /\ suppressed' \in [Keys -> Nat]
        BY <3>2, <4>1, OpenWindowTypes
      <4> QED
        BY <2>1, <3>1, <3>2, <4>1, <4>2 DEF RestInv
    <3>3. CASE a \notin Keys
      BY <2>1, <2>4, <3>1, <3>3 DEF Accept, dedupVars, RestInv
    <3> QED
      BY <3>2, <3>3
  <2> QED
    BY <1>3, <2>2, <2>3, <2>4 DEF Raise
<1>4. ASSUME NEW k \in Keys, WindowLapses(k) PROVE RestInv'
  BY <1>4 DEF WindowLapses, logVars, outcomes, RestInv
<1>5. CASE LogWindowLapses \/ BeginShutdown
  BY <1>5 DEF LogWindowLapses, BeginShutdown, logVars, dedupVars, ghosts, outcomes, RestInv
<1>6. ASSUME NEW i \in DOMAIN inFlight, RequestFails(i) \/ Retry(i) PROVE RestInv'
  BY <1>6 DEF RequestFails, Retry, logVars, dedupVars, ghosts, outcomes, RestInv
<1>7. ASSUME NEW i \in DOMAIN inFlight, Finish(i)
      PROVE  /\ UNCHANGED <<windows, lapsed, suppressed, accepting, raised, lost, announced>>
             /\ hook' \in {"none", "draining", "woken", "ended"}
  BY <1>7 DEF Finish, dedupVars, RestInv
<1>8. ASSUME NEW i \in DOMAIN inFlight, RequestSucceeds(i) PROVE RestInv'
  <2>1. told' \in Nat
    BY <1>2, <1>8 DEF RequestSucceeds, RestInv
  <2>2. Finish(i) /\ UNCHANGED <<unlogged, logged, forfeited>>
    BY <1>8 DEF RequestSucceeds, logVars
  <2> QED
    BY <1>7, <2>1, <2>2 DEF RestInv
<1>9. ASSUME NEW i \in DOMAIN inFlight, RequestFailsForGood(i) \/ BackoffAborted(i) PROVE RestInv'
  <2>1. GiveUp(i)
    BY <1>9 DEF RequestFailsForGood, BackoffAborted
  <2>2. Finish(i) /\ told' = told /\ forfeited' \in Nat
    BY <1>2, <2>1 DEF GiveUp, RestInv
  <2>3. unlogged' \in Nat /\ logged' \in BOOLEAN
    <3>1. CASE UNCHANGED <<unlogged, logged>>
      BY <3>1 DEF RestInv
    <3>2. CASE logged' = TRUE /\ \E inLine \in {0, unlogged + 1} : unlogged' = unlogged + 1 - inLine
      <4>1. unlogged' \in Nat
        BY <3>2 DEF RestInv
      <4> QED
        BY <3>2, <4>1
    <3> QED
      BY <2>1, <3>1, <3>2 DEF GiveUp, LogFailure, logVars
  <2> QED
    BY <1>7, <2>2, <2>3 DEF RestInv
<1>10. ASSUME EndHook, accepting' \in BOOLEAN PROVE RestInv'
  BY <1>1, <1>10 DEF EndHook, logVars, dedupVars, RestInv
<1>11. CASE CallHook
  BY <1>10, <1>11 DEF CallHook, logVars, dedupVars, ghosts, outcomes, RestInv
<1>12. CASE DrainTimesOut \/ DrainDone
  BY <1>10, <1>12 DEF DrainTimesOut, DrainDone, RestInv
<1>13. CASE UNCHANGED vars
  BY <1>13 DEF vars, logVars, dedupVars, ghosts, outcomes, RestInv
<1> QED
  BY <1>3, <1>4, <1>5, <1>6, <1>8, <1>9, <1>11, <1>12, <1>13 DEF Next, Delivery, Deliver

\* Queue, deliveries, windows, counters and the hook keep their types: an alert in
\* backoff always has an attempt left, and no count ever goes below zero.
THEOREM AlertTypeCorrect == Spec => []TypeOK
<1>1. Init => RestInv
  <2> SUFFICES ASSUME Init PROVE RestInv
    OBVIOUS
  <2>1. suppressed \in [Keys -> Nat] /\ windows \in Seq(Keys) /\ lapsed \subseteq Keys /\ announced \subseteq Keys
    BY DEF Init
  <2>2. accepting \in BOOLEAN /\ logged \in BOOLEAN
    BY DEF Init
  <2> QED
    BY <2>1, <2>2 DEF Init, RestInv
<1>2. QueueInv /\ RestInv => TypeOK
  BY DEF QueueInv, RestInv, TypeOK
<1> QED
  BY <1>1, <1>2, QueueInvInit, QueueInvNext, RestInvNext, PTL DEF Spec
===============================================================================
