-------------------------------- MODULE AlertQueue ----------------------------
(***************************************************************************)
(* The background alert sender (alerts/alert.service.ts with its           *)
(* deduplicator, idle signal and alert-sender.ts): a bounded queue, at     *)
(* most MaxConcurrent requests in flight, one alert per key and window,    *)
(* and a shutdown hook that drains what is queued for a bounded time.      *)
(***************************************************************************)
EXTENDS Integers, SequencesExt

CONSTANTS Keys,          \* level and message of warnings and errors
          Info,          \* an alert of level info, never deduplicated
          QueueMax,      \* ALERT_QUEUE_MAX_SIZE
          MaxConcurrent, \* ALERT_MAX_CONCURRENT
          MaxRetries,    \* ALERT_MAX_RETRIES
          MaxKeys,       \* ALERT_DEDUP_MAX_KEYS
          MaxRaised      \* bound of the model: alerts raised in a behaviour

ASSUME AlertAssumption == /\ QueueMax \in Nat \ {0} /\ MaxConcurrent \in Nat \ {0}
                          /\ MaxRetries \in Nat /\ MaxKeys \in Nat \ {0}
                          /\ MaxRaised \in Nat /\ Info \notin Keys

VARIABLES
  queue,        \* alerts waiting to be sent
  inFlight,     \* alerts being sent, with the attempt each is at
  droppedCount, \* alerts dropped since one last reported the number
  unlogged,     \* failed deliveries no log line has told of yet
  logged,       \* a failure was logged, and its window is not over
  windows,      \* keys the deduplicator remembers, oldest window first
  lapsed,       \* remembered keys whose window is over
  suppressed,   \* repeats counted in the window of each remembered key
  accepting,    \* isAccepting
  hook,         \* the shutdown hook: not called, waiting, woken, ended
  raised, lost, told, forfeited, announced \* read by the properties and the bound only

dedupVars == <<windows, lapsed, suppressed>>
logVars == <<unlogged, logged>>
outcomes == <<told, forfeited>>
ghosts == <<raised, lost, outcomes, announced>>
vars == <<queue, inFlight, droppedCount, logVars, dedupVars, accepting, hook, ghosts>>

\* What may be raised, and the payload it becomes: the count of dropped alerts
\* travels with it.
Alert == Keys \cup {Info}
Payload == [alert : Alert, dropped : Nat]
\* An alert on its way; it waits for another attempt only while one is left.
Sending == {s \in [payload : Payload, attempt : 0..MaxRetries, phase : {"request", "backoff"}] :
              s.phase = "backoff" => s.attempt < MaxRetries}

\* The queue and the requests in flight never exceed their ceilings, whatever
\* the order of alerts, deliveries and retries.
Bounds == Len(queue) <= QueueMax /\ Len(inFlight) <= MaxConcurrent

TypeOK ==
  /\ queue \in Seq(Payload)
  /\ inFlight \in Seq(Sending)
  /\ Bounds
  /\ windows \in Seq(Keys)
  /\ lapsed \subseteq Keys
  /\ suppressed \in [Keys -> Nat]
  /\ accepting \in BOOLEAN
  /\ hook \in {"none", "draining", "woken", "ended"}
  /\ droppedCount \in Nat /\ unlogged \in Nat /\ logged \in BOOLEAN
  /\ raised \in Nat /\ lost \in Nat /\ told \in Nat /\ forfeited \in Nat
  /\ announced \subseteq Keys

Init ==
  /\ queue = <<>> /\ inFlight = <<>>
  /\ droppedCount = 0 /\ unlogged = 0 /\ logged = FALSE
  /\ windows = <<>> /\ lapsed = {} /\ suppressed = [k \in Keys |-> 0]
  /\ accepting = TRUE /\ hook = "none"
  /\ raised = 0 /\ lost = 0 /\ told = 0 /\ forfeited = 0 /\ announced = {}

-------------------------------------------------------------------------------
(* The deduplicator. *)
Remembered(k) == k \in ToSet(windows)
IsSuppressed(a) == a \in Keys /\ Remembered(a) /\ a \notin lapsed

CountRepeat(k) ==
  /\ suppressed' = [suppressed EXCEPT ![k] = @ + 1]
  /\ UNCHANGED <<windows, lapsed>>

\* The key opens a window as the newest; beyond MaxKeys the oldest is forgotten.
OpenWindow(k) ==
  LET kept == Append(IF Remembered(k) THEN RemoveFirst(windows, k) ELSE windows, k)
      next == IF Len(kept) > MaxKeys THEN Tail(kept) ELSE kept
  IN /\ windows' = next
     /\ lapsed' = (lapsed \ {k}) \cap ToSet(next)
     /\ suppressed' = [j \in Keys |-> IF j = k \/ j \notin ToSet(next) THEN 0 ELSE suppressed[j]]

(* The queue. *)
\* The dropped alerts the waiting ones report.
Carried(q) ==
  LET sum[n \in 0..Len(q)] == IF n = 0 THEN 0 ELSE sum[n - 1] + q[n].dropped
  IN sum[Len(q)]
Start(p) == [payload |-> p, attempt |-> 0, phase |-> "request"]
Again(s) == [payload |-> s.payload, attempt |-> s.attempt + 1, phase |-> "request"]

\* pump: moves waiting alerts into flight while there is room.
Pump(q, f) ==
  LET room == MaxConcurrent - Len(f)
      n == IF room < Len(q) THEN room ELSE Len(q)
  IN /\ inFlight' = f \o [i \in 1..n |-> Start(q[i])]
     /\ queue' = SubSeq(q, n + 1, Len(q))

(* Mutants of the end of a delivery: nothing starts, nobody is woken, or the
   hook is woken while a request is still in flight. *)
FinishWithoutPump(i) ==
  /\ inFlight' = RemoveAt(inFlight, i)
  /\ hook' = IF hook = "draining" /\ queue = <<>> /\ inFlight' = <<>> THEN "woken" ELSE hook
  /\ UNCHANGED <<queue, droppedCount, dedupVars, accepting, raised, lost, announced>>

FinishUnnoticed(i) ==
  /\ Pump(queue, RemoveAt(inFlight, i))
  /\ UNCHANGED <<hook, droppedCount, dedupVars, accepting, raised, lost, announced>>

FinishOnEmptyQueue(i) ==
  /\ Pump(queue, RemoveAt(inFlight, i))
  /\ hook' = IF hook = "draining" /\ queue' = <<>> THEN "woken" ELSE hook
  /\ UNCHANGED <<droppedCount, dedupVars, accepting, raised, lost, announced>>

\* A delivery is over: the next alert starts, and an idle queue wakes the hook.
Finish(i) ==
  /\ Pump(queue, RemoveAt(inFlight, i))
  /\ hook' = IF hook = "draining" /\ queue' = <<>> /\ inFlight' = <<>> THEN "woken" ELSE hook
  /\ UNCHANGED <<droppedCount, dedupVars, accepting, raised, lost, announced>>

-------------------------------------------------------------------------------
(* enqueue: the three outcomes of info, warning and error. *)
Raised == accepting /\ raised < MaxRaised /\ raised' = raised + 1

\* Mutant: the deduplicator is asked before the room in the queue.
DropAfterCheck(a) ==
  /\ Raised
  /\ Len(queue) >= QueueMax /\ ~IsSuppressed(a)
  /\ IF a \in Keys THEN OpenWindow(a) ELSE UNCHANGED dedupVars
  /\ droppedCount' = droppedCount + 1
  /\ lost' = lost + 1
  /\ UNCHANGED <<queue, inFlight, logVars, accepting, hook, outcomes, announced>>

DropWhenFull(a) ==
  /\ Raised
  /\ Len(queue) >= QueueMax
  /\ droppedCount' = droppedCount + 1
  /\ lost' = lost + 1
  /\ UNCHANGED <<queue, inFlight, logVars, dedupVars, accepting, hook, outcomes, announced>>

\* Mutant: a suppressed repeat takes the count of dropped alerts.
SuppressTakingCount(a) ==
  /\ Raised
  /\ Len(queue) < QueueMax
  /\ IsSuppressed(a)
  /\ CountRepeat(a)
  /\ droppedCount' = 0
  /\ UNCHANGED <<queue, inFlight, logVars, accepting, hook, lost, outcomes, announced>>

Suppress(a) ==
  /\ Raised
  /\ Len(queue) < QueueMax
  /\ IsSuppressed(a)
  /\ CountRepeat(a)
  /\ UNCHANGED <<queue, inFlight, droppedCount, logVars, accepting, hook, lost, outcomes, announced>>

\* The alert takes the counters with it.
Accept(a) ==
  /\ Raised
  /\ Len(queue) < QueueMax
  /\ ~IsSuppressed(a)
  /\ IF a \in Keys
     THEN OpenWindow(a) /\ announced' = (announced \cup {a}) \cap ToSet(windows')
     ELSE UNCHANGED <<dedupVars, announced>>
  /\ droppedCount' = 0
  /\ Pump(Append(queue, [alert |-> a, dropped |-> droppedCount]), inFlight)
  /\ UNCHANGED <<logVars, accepting, hook, lost, outcomes>>

\* info, warning and error: an alert from anywhere in the application.
Raise(a) == DropWhenFull(a) \/ Suppress(a) \/ Accept(a)

WindowLapses(k) ==
  /\ Remembered(k) /\ k \notin lapsed
  /\ lapsed' = lapsed \cup {k}
  /\ announced' = announced \ {k}
  /\ UNCHANGED <<queue, inFlight, droppedCount, logVars, windows, suppressed, accepting, hook,
                 raised, lost, outcomes>>

-------------------------------------------------------------------------------
(* deliver and sendAlert.  The abort of an ended hook is final. *)
Aborted == hook = "ended"

(* The log of failed deliveries (FailureLogThrottle.record): one line a window. *)
\* The first failure of a window tells of those since the last line; the others wait.
LogFailure ==
  LET inLine == IF logged THEN 0 ELSE unlogged + 1
  IN /\ unlogged' = unlogged + 1 - inLine
     /\ logged' = TRUE

LogWindowLapses ==
  /\ logged
  /\ logged' = FALSE
  /\ UNCHANGED <<queue, inFlight, droppedCount, unlogged, dedupVars, accepting, hook, ghosts>>

RequestSucceeds(i) ==
  /\ inFlight[i].phase = "request"
  /\ Finish(i)
  /\ told' = told + inFlight[i].payload.dropped
  /\ UNCHANGED <<logVars, forfeited>>

\* The delivery is given up; one the hook has cut off is not worth a log line.
GiveUp(i) ==
  /\ Finish(i)
  /\ forfeited' = forfeited + inFlight[i].payload.dropped
  /\ told' = told
  /\ IF Aborted THEN UNCHANGED logVars ELSE LogFailure

\* A final answer, the last attempt, or the abort.
RequestFailsForGood(i) ==
  /\ inFlight[i].phase = "request"
  /\ GiveUp(i)

RequestFails(i) ==
  /\ inFlight[i].phase = "request"
  /\ inFlight[i].attempt < MaxRetries /\ ~Aborted
  /\ inFlight' = [inFlight EXCEPT ![i].phase = "backoff"]
  /\ UNCHANGED <<queue, droppedCount, logVars, dedupVars, accepting, hook, ghosts>>

\* Mutant: a retry that does not look at the abort.
RetryRegardless(i) ==
  /\ inFlight[i].phase = "backoff"
  /\ inFlight' = [inFlight EXCEPT ![i] = Again(@)]
  /\ UNCHANGED <<queue, droppedCount, logVars, dedupVars, accepting, hook, ghosts>>

Retry(i) ==
  /\ inFlight[i].phase = "backoff" /\ ~Aborted
  /\ inFlight' = [inFlight EXCEPT ![i] = Again(@)]
  /\ UNCHANGED <<queue, droppedCount, logVars, dedupVars, accepting, hook, ghosts>>

BackoffAborted(i) ==
  /\ inFlight[i].phase = "backoff" /\ Aborted
  /\ GiveUp(i)

(* beginShutdown and onApplicationShutdown. *)
BeginShutdown ==
  /\ accepting
  /\ accepting' = FALSE
  /\ UNCHANGED <<queue, inFlight, droppedCount, logVars, dedupVars, hook, ghosts>>

EndHook ==
  /\ hook' = "ended"
  /\ queue' = <<>>
  /\ forfeited' = forfeited + Carried(queue)
  /\ UNCHANGED <<inFlight, droppedCount, logVars, dedupVars, raised, lost, told, announced>>

CallHook ==
  /\ hook = "none"
  /\ accepting' = FALSE
  /\ IF queue = <<>> /\ inFlight = <<>>
     THEN EndHook
     ELSE /\ hook' = "draining"
          /\ UNCHANGED <<queue, inFlight, droppedCount, logVars, dedupVars, ghosts>>

DrainTimesOut == hook = "draining" /\ EndHook /\ UNCHANGED accepting
DrainDone == hook = "woken" /\ EndHook /\ UNCHANGED accepting

Deliver(i) == \/ RequestSucceeds(i) \/ RequestFailsForGood(i) \/ RequestFails(i)
              \/ Retry(i) \/ BackoffAborted(i)
Delivery == \E i \in DOMAIN inFlight : Deliver(i)

Next ==
  \/ \E a \in Alert : Raise(a)
  \/ \E k \in Keys : WindowLapses(k)
  \/ LogWindowLapses
  \/ Delivery
  \/ BeginShutdown \/ CallHook \/ DrainTimesOut \/ DrainDone

\* Every request ends: it has a timeout.  The drain's own timer is given no
\* fairness, so that a drain which ends owes it to the idle signal alone.
Spec == Init /\ [][Next]_vars /\ WF_vars(Delivery) /\ WF_vars(DrainDone)

-------------------------------------------------------------------------------
\* The two ceilings hold, and no alert waits while a slot is free: every way a
\* delivery can end starts the next one, so a queue left behind by a failed
\* delivery cannot exist.
NothingWaitsForAFreeSlot == Bounds /\ (queue # <<>> => Len(inFlight) = MaxConcurrent)

\* What was lost stays on the books.  An alert dropped from a full queue is in
\* the counter, in an alert on its way or in one delivered: only a delivery that
\* is given up and the end of the hook take a count with them (alert.service.ts:117
\* hands it over for good).
DropsAreReported ==
  LET sending == [i \in DOMAIN inFlight |-> inFlight[i].payload]
  IN lost = droppedCount + Carried(queue) + Carried(sending) + told + forfeited

\* "A full queue drops the alert before it can open a dedup window it never
\* used" (alert.service.ts:88): a key is silenced only after an alert of it was
\* queued in the same window.
SilenceFollowsAnAlert == \A k \in Keys : IsSuppressed(k) => k \in announced

\* The hook ends early only when everything queued has been sent or given up.
DrainIsComplete == hook = "woken" => queue = <<>> /\ inFlight = <<>>

\* Once the hook has ended, no request starts: neither a queued alert nor a
\* retry whose wait the abort interrupted.
NothingStartsAfterTheHook ==
  [][hook = "ended" => inFlight' = inFlight \/ Len(inFlight') < Len(inFlight)]_vars

\* A drain ends without its timer: the last delivery always wakes the hook.
DrainEnds == hook = "draining" ~> hook = "ended"
===============================================================================
