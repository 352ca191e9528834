------------------------------- MODULE DigestRun ------------------------------
(***************************************************************************)
(* A digest run end to end (digest/digest.service.ts) with the collection  *)
(* it begins with (digest/post-collector.ts, utils/cancellable-delay.ts)   *)
(* and the scheduler that starts it.  A run is started by a request or by  *)
(* the schedule; code between two awaits is one step.  What Telegram, Grok *)
(* and the bot answer is any outcome the code tells apart.                 *)
(***************************************************************************)
EXTENDS Integers, FiniteSets

CONSTANTS
  Runs,      \* runs in the life of the model, each started at most once
  NoRun,
  Channels,  \* how many channels are configured: 1..Channels, read in this order
  Waits,     \* seconds a flood wait may last
  MaxWait,   \* DIGEST_FLOOD_WAIT_MAX_S
  MaxTotal,  \* DIGEST_FLOOD_WAIT_TOTAL_MAX_S
  MaxSize    \* bound of the model: messages of one digest

\* GramJS sleeps through short waits itself, so the ones seen here are positive.
ASSUME DigestAssumption ==
  /\ NoRun \notin Runs /\ IsFiniteSet(Runs)
  /\ Channels \in Nat \ {0} /\ MaxSize \in Nat \ {0}
  /\ Waits \subseteq Nat \ {0} /\ MaxWait \in Nat /\ MaxTotal \in Nat

VARIABLES
  isRunning, runAbort, \* the fields of DigestService
  isScheduled,         \* the cron job is registered
  pc,                  \* where each run is
  aborted,             \* its signal
  at,                  \* the channel it reads next
  floodWaitedS,
  read, unavailable,   \* channels read, and channels reported and skipped
  size, sent,          \* messages of its digest, and those delivered
  alerts,              \* alerts raised for it
  noticed              \* its failure notice reached the chat

service == <<isRunning, runAbort, pc>>
collection == <<at, floodWaitedS, read, unavailable>>
delivery == <<size, sent, noticed>>
vars == <<service, isScheduled, aborted, collection, delivery, alerts>>

Working == {"reading", "waiting", "preparing", "sending", "reporting"}
Ended == {"delivered", "failed", "cancelled", "lost"}
Alerts == {"flood", "gaps", "failed", "undelivered"}

TypeOK ==
  /\ isRunning \in BOOLEAN /\ isScheduled \in BOOLEAN
  /\ runAbort \in Runs \cup {NoRun}
  /\ pc \in [Runs -> {"idle"} \cup Working \cup Ended]
  /\ aborted \in [Runs -> BOOLEAN] /\ noticed \in [Runs -> BOOLEAN]
  /\ at \in [Runs -> 1..(Channels + 1)]
  /\ floodWaitedS \in [Runs -> 0..MaxTotal]
  /\ read \in [Runs -> SUBSET (1..Channels)]
  /\ unavailable \in [Runs -> SUBSET (1..Channels)]
  /\ size \in [Runs -> 0..MaxSize] /\ sent \in [Runs -> 0..MaxSize]
  /\ alerts \in [Runs -> SUBSET Alerts]

Init ==
  /\ isRunning = FALSE /\ runAbort = NoRun
  /\ isScheduled = TRUE
  /\ pc = [r \in Runs |-> "idle"]
  /\ aborted = [r \in Runs |-> FALSE]
  /\ at = [r \in Runs |-> 1]
  /\ floodWaitedS = [r \in Runs |-> 0]
  /\ read = [r \in Runs |-> {}] /\ unavailable = [r \in Runs |-> {}]
  /\ size = [r \in Runs |-> 0] /\ sent = [r \in Runs |-> 0]
  /\ alerts = [r \in Runs |-> {}]
  /\ noticed = [r \in Runs |-> FALSE]

Active(r) == pc[r] \in Working

-------------------------------------------------------------------------------
\* A run moves on, or ends through the `finally` of execute.
Go(r, step) ==
  /\ pc' = [pc EXCEPT ![r] = step]
  /\ UNCHANGED <<isRunning, runAbort>>

\* Mutant: an exit that misses the `finally`.
FinishUnreleased(r, outcome) ==
  /\ pc' = [pc EXCEPT ![r] = outcome]
  /\ UNCHANGED <<isRunning, runAbort>>

Finish(r, outcome) ==
  /\ pc' = [pc EXCEPT ![r] = outcome]
  /\ isRunning' = FALSE /\ runAbort' = NoRun

Alert(r, kind) == alerts' = [alerts EXCEPT ![r] = @ \cup {kind}]

\* reportFailure up to the notice it sends to the bot chat.
Fail(r) == Alert(r, "failed") /\ Go(r, "reporting")

\* start and runScheduled up to the first read.  While a run is in progress they
\* change nothing: the request gets a 409, the schedule raises a warning.
Execute(r) ==
  /\ pc[r] = "idle"
  /\ isRunning' = TRUE /\ runAbort' = r
  /\ pc' = [pc EXCEPT ![r] = "reading"]
  /\ UNCHANGED <<isScheduled, aborted, collection, delivery, alerts>>

Start(r) == ~isRunning /\ Execute(r)

RunScheduled(r) == isScheduled /\ ~isRunning /\ Execute(r)

-------------------------------------------------------------------------------
\* Mutant: the collector does not look at the signal.
ReadRegardless(r) == Go(r, "reading")

\* Each channel, and each new attempt at one, begins with throwIfCancelled.
ReadUnlessCancelled(r) ==
  IF aborted[r] THEN Finish(r, "cancelled") ELSE Go(r, "reading")

NextChannel(r) ==
  /\ at' = [at EXCEPT ![r] = @ + 1]
  /\ IF at[r] = Channels THEN Go(r, "preparing") ELSE ReadUnlessCancelled(r)
  /\ UNCHANGED <<isScheduled, aborted, floodWaitedS, delivery, alerts>>

ReadSucceeds(r) ==
  /\ pc[r] = "reading"
  /\ read' = [read EXCEPT ![r] = @ \cup {at[r]}]
  /\ NextChannel(r)
  /\ UNCHANGED unavailable

\* An HTTP failure of this channel only.
ReadSkipped(r) ==
  /\ pc[r] = "reading"
  /\ unavailable' = [unavailable EXCEPT ![r] = @ \cup {at[r]}]
  /\ NextChannel(r)
  /\ UNCHANGED read

\* No or a rejected session, a storage or Telegram outage, an unknown error.
ReadFails(r) ==
  /\ pc[r] = "reading"
  /\ Fail(r)
  /\ UNCHANGED <<isScheduled, aborted, collection, delivery>>

WithinLimits(r, w) == w <= MaxWait /\ floodWaitedS[r] + w <= MaxTotal

\* Mutant: a wait that does not count.
ReadFloodedUncounted(r, w) ==
  /\ pc[r] = "reading" /\ WithinLimits(r, w)
  /\ Alert(r, "flood")
  /\ IF aborted[r] THEN Finish(r, "cancelled") ELSE Go(r, "waiting")
  /\ UNCHANGED <<isScheduled, aborted, at, floodWaitedS, read, unavailable, delivery>>

\* delayUnlessCancelled rejects at once when the signal is already aborted.
ReadFlooded(r, w) ==
  /\ pc[r] = "reading" /\ WithinLimits(r, w)
  /\ floodWaitedS' = [floodWaitedS EXCEPT ![r] = @ + w]
  /\ Alert(r, "flood")
  /\ IF aborted[r] THEN Finish(r, "cancelled") ELSE Go(r, "waiting")
  /\ UNCHANGED <<isScheduled, aborted, at, read, unavailable, delivery>>

FloodTooLong(r, w) == ~WithinLimits(r, w) /\ ReadFails(r)

WaitEnds(r) ==
  /\ pc[r] = "waiting"
  /\ ReadUnlessCancelled(r)
  /\ UNCHANGED <<isScheduled, aborted, collection, delivery, alerts>>

\* Translation and summary replace what fails by the originals: no error gets out.
Prepare(r, n) ==
  /\ pc[r] = "preparing"
  /\ size' = [size EXCEPT ![r] = n]
  /\ Go(r, "sending")
  /\ UNCHANGED <<isScheduled, aborted, collection, sent, noticed, alerts>>

-------------------------------------------------------------------------------
Deliver(r) ==
  /\ pc[r] = "sending" /\ sent[r] + 1 < size[r]
  /\ sent' = [sent EXCEPT ![r] = @ + 1]
  /\ UNCHANGED <<service, isScheduled, aborted, collection, size, noticed, alerts>>

\* Mutant: no report of the gaps.
DeliverLastSilently(r) ==
  /\ pc[r] = "sending" /\ sent[r] + 1 = size[r]
  /\ sent' = [sent EXCEPT ![r] = @ + 1]
  /\ Finish(r, "delivered")
  /\ UNCHANGED <<isScheduled, aborted, collection, size, noticed, alerts>>

\* The last message, then reportGaps; a gap may also be a fallback of Prepare.
DeliverLast(r) ==
  /\ pc[r] = "sending" /\ sent[r] + 1 = size[r]
  /\ sent' = [sent EXCEPT ![r] = @ + 1]
  /\ \/ Alert(r, "gaps")
     \/ unavailable[r] = {} /\ UNCHANGED alerts
  /\ Finish(r, "delivered")
  /\ UNCHANGED <<isScheduled, aborted, collection, size, noticed>>

DeliveryFails(r) ==
  /\ pc[r] = "sending"
  /\ Fail(r)
  /\ UNCHANGED <<isScheduled, aborted, collection, delivery>>

NoticeDelivered(r) ==
  /\ pc[r] = "reporting"
  /\ noticed' = [noticed EXCEPT ![r] = TRUE]
  /\ Finish(r, "failed")
  /\ UNCHANGED <<isScheduled, aborted, collection, size, sent, alerts>>

NoticeFails(r) ==
  /\ pc[r] = "reporting"
  /\ Alert(r, "undelivered")
  /\ Finish(r, "failed")
  /\ UNCHANGED <<isScheduled, aborted, collection, delivery>>

-------------------------------------------------------------------------------
\* The onModuleDestroy hooks of the service and of the scheduler.  Requests are
\* still served for a while after it.
OnModuleDestroy ==
  /\ isScheduled' = FALSE
  /\ aborted' = [r \in Runs |-> aborted[r] \/ r = runAbort]
  /\ IF runAbort # NoRun /\ pc[runAbort] = "waiting"
     THEN Finish(runAbort, "cancelled") ELSE UNCHANGED service
  /\ UNCHANGED <<collection, delivery, alerts>>

\* The process dies, of itself or at the end of its shutdown, and is started again.
Restart ==
  /\ isRunning' = FALSE /\ runAbort' = NoRun /\ isScheduled' = TRUE
  /\ pc' = [r \in Runs |-> IF Active(r) THEN "lost" ELSE pc[r]]
  /\ UNCHANGED <<aborted, collection, delivery, alerts>>

Progress(r) ==
  \/ ReadSucceeds(r) \/ ReadSkipped(r) \/ ReadFails(r) \/ WaitEnds(r)
  \/ \E w \in Waits : ReadFlooded(r, w) \/ FloodTooLong(r, w)
  \/ \E n \in 1..MaxSize : Prepare(r, n)
  \/ Deliver(r) \/ DeliverLast(r) \/ DeliveryFails(r)
  \/ NoticeDelivered(r) \/ NoticeFails(r)

Next ==
  \/ \E r \in Runs : Start(r) \/ RunScheduled(r) \/ Progress(r)
  \/ OnModuleDestroy \/ Restart

Spec == Init /\ [][Next]_vars

\* Every wait of a run has an upper bound of its own: the read, Grok and bot calls
\* have timeouts and the flood wait is a timer.
FairSpec == Spec /\ \A r \in Runs : WF_vars(Progress(r))

-------------------------------------------------------------------------------
\* "One run at a time; the running flag is released in `finally`, whatever happens
\* inside" (digest.service.ts:63): the flag is up exactly while a run is at work,
\* and the abort handle is the handle of that run, so a shutdown reaches it.
FlagTracksTheRun ==
  /\ isRunning <=> \E r \in Runs : Active(r)
  /\ \A r \in Runs : Active(r) <=> r = runAbort

\* A run is over in one way only: a complete digest with its gaps told, no channel
\* lost between two attempts, each either read or reported unavailable; a failure
\* that was alerted, and told to the chat unless that is alerted too; or a
\* cancellation, of which the chat sees nothing.
OutcomeIsTold ==
  \A r \in Runs :
    /\ pc[r] \in {"preparing", "sending", "delivered"} =>
         read[r] \cup unavailable[r] = 1..Channels /\ read[r] \cap unavailable[r] = {}
    /\ pc[r] = "delivered" => /\ sent[r] = size[r] /\ "failed" \notin alerts[r]
                              /\ unavailable[r] # {} => "gaps" \in alerts[r]
    /\ pc[r] = "failed" => /\ "failed" \in alerts[r]
                           /\ noticed[r] # ("undelivered" \in alerts[r])
    /\ pc[r] = "cancelled" => aborted[r] /\ sent[r] = 0 /\ ~noticed[r]

\* The messages of a run, as the rest of the system sees them.
Phase(r) == CASE pc[r] \in {"sending", "delivered"} -> pc[r]
              [] pc[r] \in {"reporting", "failed", "cancelled", "lost"} -> "stopped"
              [] OTHER -> "making"
Delivery(r) == INSTANCE DigestDelivery WITH phase <- Phase(r), size <- size[r], sent <- sent[r]

\* Whatever a run meets, it sends nothing before its digest is made, and counts as
\* delivered with the last message of it (digest.service.ts:116-131).
EveryRunDelivers == \A r \in Runs : Delivery(r)!DeliverySpec

\* A collection told to stop begins no further read and no further wait.
AbortEndsCollection ==
  [][\A r \in Runs : aborted[r] /\ pc'[r] \in {"reading", "waiting"} =>
       pc'[r] = pc[r] /\ at'[r] = at[r] /\ floodWaitedS'[r] = floodWaitedS[r]]_vars

\* "Stops a run in progress on shutdown; it ends without sending anything"
\* (digest.service.ts:83): no message of its digest goes out once it is aborted.
AbortedRunSendsNothing ==
  [][\A r \in Runs : aborted[r] => sent'[r] = sent[r]]_vars

\* The flood budget is finite, so no answer of Telegram keeps a run, and with it
\* the running flag, for ever.
EveryRunEnds == \A r \in Runs : Active(r) ~> ~Active(r)
===============================================================================
