----------------------------- MODULE Digest_proofs -----------------------------
(***************************************************************************)
(* The digest for any number of runs, channels and posts, and whatever the *)
(* services answer.                                                        *)
(*                                                                         *)
(* 1. A run end to end (DigestRun): one at a time with its handle, a       *)
(*    collection that stops, an outcome that is told.                      *)
(* 2. What becomes of its posts (DigestContent): all of them are in the    *)
(*    digest, the gaps are counted, and the chat gets it in order.         *)
(* 3. What the digest is written in (MessageSplitter): messages of its     *)
(*    blocks that can be sent, with nothing dropped.                       *)
(* 4. What both have in common (DigestDelivery), which each implements.    *)
(***************************************************************************)
EXTENDS DigestRun, DigestContent,
        SequenceTheorems, FiniteSetTheorems, WellFoundedInduction, TLAPS

-------------------------------------------------------------------------------
(* 1. A run.                                                               *)

\* The flag and the handle are kept by the same two helpers of every step: what
\* FlagTracksTheRun adds to this is only that handles are runs.
FlagInv ==
  /\ pc \in [Runs -> {"idle"} \cup Working \cup Ended]
  /\ runAbort \in Runs \cup {NoRun}
  /\ isRunning = (runAbort # NoRun)
  /\ \A r \in Runs : Active(r) <=> r = runAbort

LEMMA FlagInvImplies == FlagInv => FlagTracksTheRun
  BY DigestAssumption DEF FlagInv, FlagTracksTheRun

\* A run at work that goes on, or ends, keeps the flag true to it.
LEMMA GoKeeps ==
  ASSUME FlagInv, NEW r \in Runs, Active(r), NEW step \in Working, Go(r, step)
  PROVE  FlagInv'
  BY DEF FlagInv, Go, Active, Working, Ended

LEMMA FinishKeeps ==
  ASSUME FlagInv, NEW r \in Runs, Active(r), NEW outcome \in Ended, Finish(r, outcome)
  PROVE  FlagInv'
<1>1. /\ pc' = [pc EXCEPT ![r] = outcome]
      /\ isRunning' = FALSE /\ runAbort' = NoRun /\ r = runAbort
  BY DEF FlagInv, Finish
<1>2. pc' \in [Runs -> {"idle"} \cup Working \cup Ended] /\ outcome \notin Working
  BY <1>1 DEF FlagInv, Working, Ended
<1>3. ASSUME NEW x \in Runs PROVE ~Active(x)'
  BY <1>1, <1>2 DEF FlagInv, Active
<1> QED
  BY <1>1, <1>2, <1>3, DigestAssumption DEF FlagInv

LEMMA ExecuteKeeps ==
  ASSUME FlagInv, NEW r \in Runs, ~isRunning, Execute(r)
  PROVE  FlagInv'
  BY DigestAssumption DEF FlagInv, Execute, Active, Working

\* One case per step of a run: each is a Go, a Finish, or leaves the service alone.
LEMMA ProgressKeeps ==
  ASSUME FlagInv, NEW r \in Runs, Progress(r)
  PROVE  FlagInv'
<1> DEFINE OneOf == \/ \E step \in Working : Go(r, step)
                    \/ \E outcome \in Ended : Finish(r, outcome)
                    \/ UNCHANGED service
<1>1. Active(r) /\ OneOf
  <2>1. CASE ReadSucceeds(r) \/ ReadSkipped(r)
    BY <2>1 DEF ReadSucceeds, ReadSkipped, NextChannel, ReadUnlessCancelled, Active, Working, Ended
  <2>2. CASE ReadFails(r) \/ DeliveryFails(r) \/ \E w \in Waits : FloodTooLong(r, w)
    BY <2>2 DEF ReadFails, DeliveryFails, FloodTooLong, Fail, Active, Working
  <2>3. CASE WaitEnds(r)
    BY <2>3 DEF WaitEnds, ReadUnlessCancelled, Active, Working, Ended
  <2>4. CASE \E w \in Waits : ReadFlooded(r, w)
    BY <2>4 DEF ReadFlooded, Active, Working, Ended
  <2>5. CASE \E n \in 1..MaxSize : Prepare(r, n)
    BY <2>5 DEF Prepare, Active, Working
  <2>6. CASE Deliver(r)
    BY <2>6 DEF Deliver, Active, Working
  <2>7. CASE DeliverLast(r) \/ NoticeDelivered(r) \/ NoticeFails(r)
    BY <2>7 DEF DeliverLast, NoticeDelivered, NoticeFails, Active, Working, Ended
  <2> QED
    BY <2>1, <2>2, <2>3, <2>4, <2>5, <2>6, <2>7 DEF Progress
<1>2. CASE UNCHANGED service
  BY <1>2 DEF service, FlagInv, Active
<1> QED
  BY <1>1, <1>2, GoKeeps, FinishKeeps

LEMMA DestroyKeeps ==
  ASSUME FlagInv, OnModuleDestroy
  PROVE  FlagInv'
<1>1. CASE runAbort # NoRun /\ pc[runAbort] = "waiting"
  <2>1. runAbort \in Runs /\ Active(runAbort) /\ "cancelled" \in Ended
    BY <1>1 DEF FlagInv, Ended
  <2> QED
    BY <1>1, <2>1, FinishKeeps DEF OnModuleDestroy
<1>2. CASE UNCHANGED service
  BY <1>2 DEF service, FlagInv, Active
<1> QED
  BY <1>1, <1>2 DEF OnModuleDestroy

LEMMA RestartKeeps ==
  ASSUME FlagInv, Restart
  PROVE  FlagInv'
<1>1. pc' \in [Runs -> {"idle"} \cup Working \cup Ended]
  BY DEF Restart, FlagInv, Ended
<1>2. \A r \in Runs : ~Active(r)'
  BY DEF Restart, Active, Working
<1> QED
  BY <1>1, <1>2, DigestAssumption DEF Restart, FlagInv

LEMMA FlagInvInit == Init => FlagInv
<1> SUFFICES ASSUME Init PROVE FlagInv
  OBVIOUS
<1>1. pc = [r \in Runs |-> "idle"] /\ isRunning = FALSE /\ runAbort = NoRun
  BY DEF Init
<1>2. \A r \in Runs : ~Active(r)
  BY <1>1 DEF Active, Working
<1>3. pc \in [Runs -> {"idle"} \cup Working \cup Ended]
  BY <1>1
<1> QED
  BY <1>1, <1>2, <1>3, DigestAssumption DEF FlagInv

LEMMA FlagInvNext == FlagInv /\ [Next]_vars => FlagInv'
<1> SUFFICES ASSUME FlagInv, [Next]_vars PROVE FlagInv'
  OBVIOUS
<1>1. ASSUME NEW r \in Runs, Start(r) \/ RunScheduled(r) PROVE FlagInv'
  BY <1>1, ExecuteKeeps DEF Start, RunScheduled
<1>2. CASE UNCHANGED vars
  BY <1>2 DEF vars, service, FlagInv, Active
<1> QED
  BY <1>1, <1>2, ProgressKeeps, DestroyKeeps, RestartKeeps DEF Next

\* There is one run at a time, the flag is up exactly while it is at work, and the
\* abort handle is always the handle of that run.
THEOREM DigestFlagTracksTheRun == Spec => []FlagTracksTheRun
  BY FlagInvInit, FlagInvNext, FlagInvImplies, PTL DEF Spec

-------------------------------------------------------------------------------
\* What the steps of one run must leave alone in the collection of another.
ShapeInv == at \in [Runs -> Int] /\ floodWaitedS \in [Runs -> Int]

LEMMA ShapeInvNext == FlagInv /\ ShapeInv /\ [Next]_vars => ShapeInv'
<1> SUFFICES ASSUME FlagInv, ShapeInv, [Next]_vars PROVE ShapeInv'
  OBVIOUS
<1>1. ASSUME NEW r \in Runs, Progress(r) PROVE ShapeInv'
  <2>1. CASE ReadSucceeds(r) \/ ReadSkipped(r)
    BY <2>1 DEF ReadSucceeds, ReadSkipped, NextChannel, ShapeInv
  <2>2. CASE \E w \in Waits : ReadFlooded(r, w)
    BY <2>2, DigestAssumption DEF ReadFlooded, ShapeInv
  <2>3. CASE UNCHANGED collection
    BY <2>3 DEF collection, ShapeInv
  <2> QED
    BY <1>1, <2>1, <2>2, <2>3
    DEF Progress, ReadFails, WaitEnds, FloodTooLong, Prepare, Deliver, DeliverLast,
        DeliveryFails, NoticeDelivered, NoticeFails
<1>2. ASSUME NEW r \in Runs, Start(r) \/ RunScheduled(r) PROVE ShapeInv'
  BY <1>2 DEF Start, RunScheduled, Execute, collection, ShapeInv
<1>3. CASE OnModuleDestroy \/ Restart \/ UNCHANGED vars
  BY <1>3 DEF OnModuleDestroy, Restart, vars, collection, ShapeInv
<1> QED
  BY <1>1, <1>2, <1>3 DEF Next

\* The step of another run leaves r where it is.
LEMMA OthersStay ==
  ASSUME FlagInv, ShapeInv, NEW r \in Runs, NEW x \in Runs \ {r}, Progress(x)
  PROVE  pc'[r] = pc[r] /\ at'[r] = at[r] /\ floodWaitedS'[r] = floodWaitedS[r]
<1>1. CASE ReadSucceeds(x) \/ ReadSkipped(x)
  BY <1>1 DEF ReadSucceeds, ReadSkipped, NextChannel, ReadUnlessCancelled, Go, Finish, FlagInv, ShapeInv
<1>2. CASE \E w \in Waits : ReadFlooded(x, w)
  BY <1>2 DEF ReadFlooded, Go, Finish, FlagInv, ShapeInv
<1>3. CASE UNCHANGED collection /\ \E step \in Working \cup Ended : Go(x, step) \/ Finish(x, step)
  BY <1>3 DEF collection, Go, Finish, FlagInv, ShapeInv
<1>4. CASE Deliver(x)
  BY <1>4 DEF Deliver, service, collection
<1>5. CASE ReadFails(x) \/ DeliveryFails(x) \/ \E w \in Waits : FloodTooLong(x, w)
  BY <1>3, <1>5 DEF ReadFails, DeliveryFails, FloodTooLong, Fail, Working
<1>6. CASE WaitEnds(x) \/ \E n \in 1..MaxSize : Prepare(x, n)
  BY <1>3, <1>6 DEF WaitEnds, ReadUnlessCancelled, Prepare, Working, Ended
<1>7. CASE DeliverLast(x) \/ NoticeDelivered(x) \/ NoticeFails(x)
  BY <1>3, <1>7 DEF DeliverLast, NoticeDelivered, NoticeFails, Ended
<1> QED
  BY <1>1, <1>2, <1>4, <1>5, <1>6, <1>7 DEF Progress

\* Its own step leads an aborted run to neither a read nor a wait.
LEMMA AbortedGoesNowhere ==
  ASSUME FlagInv, NEW r \in Runs, aborted[r], Progress(r), ~Deliver(r)
  PROVE  pc'[r] \notin {"reading", "waiting"}
<1> DEFINE Away == \E step \in {"preparing", "sending", "reporting"} \cup Ended :
                     Go(r, step) \/ Finish(r, step)
<1>1. CASE ReadSucceeds(r) \/ ReadSkipped(r)
  <2>1. Away
    BY <1>1 DEF ReadSucceeds, ReadSkipped, NextChannel, ReadUnlessCancelled, Ended
  <2> QED
    BY <2>1 DEF Go, Finish, FlagInv, Ended
<1>2. CASE WaitEnds(r) \/ \E w \in Waits : ReadFlooded(r, w)
  <2>1. Away
    BY <1>2 DEF WaitEnds, ReadFlooded, ReadUnlessCancelled, Ended
  <2> QED
    BY <2>1 DEF Go, Finish, FlagInv, Ended
<1>3. CASE \/ ReadFails(r) \/ DeliveryFails(r) \/ \E w \in Waits : FloodTooLong(r, w)
           \/ \E n \in 1..MaxSize : Prepare(r, n)
  <2>1. Away
    BY <1>3 DEF ReadFails, DeliveryFails, FloodTooLong, Fail, Prepare
  <2> QED
    BY <2>1 DEF Go, Finish, FlagInv, Ended
<1>4. CASE DeliverLast(r) \/ NoticeDelivered(r) \/ NoticeFails(r)
  <2>1. Away
    BY <1>4 DEF DeliverLast, NoticeDelivered, NoticeFails, Ended
  <2> QED
    BY <2>1 DEF Go, Finish, FlagInv, Ended
<1> QED
  BY <1>1, <1>2, <1>3, <1>4 DEF Progress

\* The signal of a run that has not begun is not aborted.
FreshInv == /\ aborted \in [Runs -> BOOLEAN]
            /\ \A r \in Runs : aborted[r] => pc[r] # "idle"

LEMMA FreshInvNext == FlagInv /\ FreshInv /\ [Next]_vars => FreshInv'
<1> SUFFICES ASSUME FlagInv, FreshInv, [Next]_vars PROVE FreshInv'
  OBVIOUS
<1>1. ASSUME NEW r \in Runs, Progress(r) PROVE FreshInv'
  <2>1. aborted' = aborted
    BY <1>1 DEF Progress, ReadSucceeds, ReadSkipped, NextChannel, ReadFails, WaitEnds, ReadFlooded,
                FloodTooLong, Prepare, Deliver, DeliverLast, DeliveryFails, NoticeDelivered, NoticeFails
  <2>2. \/ UNCHANGED pc
        \/ \E step \in Working \cup Ended : pc' = [pc EXCEPT ![r] = step]
    BY <1>1 DEF Progress, ReadSucceeds, ReadSkipped, NextChannel, ReadUnlessCancelled, ReadFails, WaitEnds,
                ReadFlooded, FloodTooLong, Prepare, Deliver, DeliverLast, DeliveryFails, NoticeDelivered,
                NoticeFails, Fail, Go, Finish, service, Working, Ended
  <2> QED
    BY <2>1, <2>2 DEF FreshInv, FlagInv, Working, Ended
<1>2. ASSUME NEW r \in Runs, Start(r) \/ RunScheduled(r) PROVE FreshInv'
  BY <1>2 DEF Start, RunScheduled, Execute, FreshInv, FlagInv
<1>3. CASE OnModuleDestroy
  <2>1. runAbort \in Runs => pc[runAbort] # "idle"
    BY DEF FlagInv, Active, Working
  <2>2. pc' = pc \/ pc' = [pc EXCEPT ![runAbort] = "cancelled"]
    BY <1>3 DEF OnModuleDestroy, Finish, service
  <2> QED
    BY <1>3, <2>1, <2>2 DEF OnModuleDestroy, FreshInv, FlagInv
<1>4. CASE Restart
  BY <1>4 DEF Restart, FreshInv, FlagInv
<1>5. CASE UNCHANGED vars
  BY <1>5 DEF vars, service, FreshInv
<1> QED
  BY <1>1, <1>2, <1>3, <1>4, <1>5 DEF Next

\* An aborted run starts no further read and no further wait, however its reads
\* end, and whatever other runs do.
THEOREM DigestAbortEndsCollection == Spec => AbortEndsCollection
<1> DEFINE Stays(r) == pc'[r] = pc[r] /\ at'[r] = at[r] /\ floodWaitedS'[r] = floodWaitedS[r]
           Stops == \A r \in Runs : aborted[r] /\ pc'[r] \in {"reading", "waiting"} => Stays(r)
<1>1. FlagInv /\ ShapeInv /\ FreshInv /\ [Next]_vars => [Stops]_vars
  <2> SUFFICES ASSUME FlagInv, ShapeInv, FreshInv, Next, NEW r \in Runs,
                      aborted[r], pc'[r] \in {"reading", "waiting"}
               PROVE  Stays(r)
    OBVIOUS
  <2>1. ASSUME NEW x \in Runs, Progress(x) PROVE Stays(r)
    <3>1. CASE x # r
      BY <2>1, <3>1, OthersStay
    <3>2. CASE x = r
      <4>1. Deliver(r)
        BY <2>1, <3>2, AbortedGoesNowhere
      <4> QED
        BY <4>1 DEF Deliver, service, collection
    <3> QED
      BY <3>1, <3>2
  <2>2. ASSUME NEW x \in Runs, Start(x) \/ RunScheduled(x) PROVE Stays(r)
    BY <2>2 DEF Start, RunScheduled, Execute, collection, FlagInv, FreshInv
  <2>3. CASE OnModuleDestroy
    BY <2>3 DEF OnModuleDestroy, Finish, service, collection, FlagInv
  <2>4. CASE Restart
    BY <2>4 DEF Restart, collection, FlagInv
  <2> QED
    BY <2>1, <2>2, <2>3, <2>4 DEF Next
<1>2. Init => ShapeInv /\ FreshInv
  BY DigestAssumption DEF Init, ShapeInv, FreshInv
<1> QED
  BY <1>1, <1>2, ShapeInvNext, FreshInvNext, FlagInvInit, FlagInvNext, PTL DEF Spec, AbortEndsCollection

-------------------------------------------------------------------------------
(* What has become of a run. *)
\* The channels before the one a collection is at have each been read or reported
\* unavailable; nothing has failed or been told before the run is at that.
RunInv(r) ==
  /\ pc[r] \in {"idle", "reading", "waiting"} =>
       at[r] \in 1..Channels /\ read[r] \cup unavailable[r] = 1..(at[r] - 1)
  /\ pc[r] \in {"preparing", "sending", "delivered"} => read[r] \cup unavailable[r] = 1..Channels
  /\ read[r] \cap unavailable[r] = {}
  /\ pc[r] \in {"idle", "reading", "waiting", "preparing", "sending", "delivered"} => "failed" \notin alerts[r]
  /\ pc[r] \in {"idle", "reading", "waiting", "preparing", "sending", "reporting"} =>
       ~noticed[r] /\ "undelivered" \notin alerts[r]
  /\ pc[r] \in {"idle", "reading", "waiting", "preparing", "cancelled"} => sent[r] = 0
  /\ pc[r] = "sending" => sent[r] < size[r]
  /\ pc[r] = "delivered" => sent[r] = size[r] /\ (unavailable[r] # {} => "gaps" \in alerts[r])
  /\ pc[r] = "reporting" => "failed" \in alerts[r]
  /\ pc[r] = "failed" => "failed" \in alerts[r] /\ noticed[r] # ("undelivered" \in alerts[r])
  /\ pc[r] = "cancelled" => aborted[r] /\ ~noticed[r]

OutcomeInv == TypeOK /\ \A r \in Runs : RunInv(r)

\* RunInv reads nothing of a run but what is its own, and of its signal only that
\* it stays aborted.
LEMMA RunKept ==
  ASSUME NEW r \in Runs, RunInv(r), pc'[r] = pc[r], aborted[r] => aborted'[r], at'[r] = at[r],
         read'[r] = read[r], unavailable'[r] = unavailable[r], size'[r] = size[r], sent'[r] = sent[r],
         alerts'[r] = alerts[r], noticed'[r] = noticed[r]
  PROVE  RunInv(r)'
  BY DEF RunInv

\* What a run is made of, for the steps that change a part of it.
LEMMA RunTypes ==
  ASSUME TypeOK, NEW r \in Runs
  PROVE  /\ at[r] \in 1..(Channels + 1) /\ floodWaitedS[r] \in 0..MaxTotal
         /\ read[r] \subseteq 1..Channels /\ unavailable[r] \subseteq 1..Channels
         /\ size[r] \in 0..MaxSize /\ sent[r] \in 0..MaxSize
         /\ alerts[r] \subseteq Alerts /\ noticed[r] \in BOOLEAN /\ aborted[r] \in BOOLEAN
  BY DEF TypeOK

LEMMA NextChannelKeeps ==
  ASSUME TypeOK, FlagInv', NEW r \in Runs, RunInv(r), pc[r] = "reading", NextChannel(r),
         \/ read' = [read EXCEPT ![r] = @ \cup {at[r]}] /\ UNCHANGED unavailable
         \/ unavailable' = [unavailable EXCEPT ![r] = @ \cup {at[r]}] /\ UNCHANGED read
  PROVE  TypeOK' /\ RunInv(r)'
<1>1. /\ at[r] \in 1..Channels /\ read[r] \cup unavailable[r] = 1..(at[r] - 1)
      /\ read[r] \cap unavailable[r] = {} /\ "failed" \notin alerts[r]
      /\ ~noticed[r] /\ "undelivered" \notin alerts[r] /\ sent[r] = 0
  BY DEF RunInv
<1>2. /\ at' = [at EXCEPT ![r] = at[r] + 1]
      /\ UNCHANGED <<isScheduled, aborted, floodWaitedS, delivery, alerts>>
      /\ \/ at[r] = Channels /\ pc' = [pc EXCEPT ![r] = "preparing"]
         \/ at[r] # Channels /\ aborted[r] /\ pc' = [pc EXCEPT ![r] = "cancelled"]
         \/ at[r] # Channels /\ ~aborted[r] /\ pc' = [pc EXCEPT ![r] = "reading"]
  BY DEF NextChannel, ReadUnlessCancelled, Go, Finish
<1>3. TypeOK'
  <2>1. at' \in [Runs -> 1..(Channels + 1)]
    BY <1>1, <1>2, DigestAssumption DEF TypeOK
  <2>2. read' \in [Runs -> SUBSET (1..Channels)] /\ unavailable' \in [Runs -> SUBSET (1..Channels)]
    <3>1. /\ read \in [Runs -> SUBSET (1..Channels)] /\ unavailable \in [Runs -> SUBSET (1..Channels)]
          /\ at[r] \in 1..Channels
      BY <1>1 DEF TypeOK
    <3>2. CASE read' = [read EXCEPT ![r] = @ \cup {at[r]}] /\ UNCHANGED unavailable
      BY <3>1, <3>2
    <3>3. CASE unavailable' = [unavailable EXCEPT ![r] = @ \cup {at[r]}] /\ UNCHANGED read
      BY <3>1, <3>3
    <3> QED
      BY <3>2, <3>3
  <2>3. pc' \in [Runs -> {"idle"} \cup Working \cup Ended] /\ isRunning' \in BOOLEAN /\ runAbort' \in Runs \cup {NoRun}
    BY DEF FlagInv
  <2> QED
    BY <1>2, <2>1, <2>2, <2>3 DEF TypeOK, delivery
<1>4. /\ at'[r] = at[r] + 1 /\ sent'[r] = sent[r] /\ size'[r] = size[r] /\ alerts'[r] = alerts[r]
      /\ noticed'[r] = noticed[r] /\ aborted'[r] = aborted[r]
      /\ \/ at[r] = Channels /\ pc'[r] = "preparing"
         \/ at[r] # Channels /\ aborted[r] /\ pc'[r] = "cancelled"
         \/ at[r] # Channels /\ pc'[r] = "reading"
  BY <1>2 DEF TypeOK, delivery
<1>5. /\ read'[r] \cup unavailable'[r] = (read[r] \cup unavailable[r]) \cup {at[r]}
      /\ read'[r] \cap unavailable'[r] = {}
  <2>1. at[r] \notin read[r] \cup unavailable[r]
    BY <1>1
  <2>2. CASE read'[r] = read[r] \cup {at[r]} /\ unavailable'[r] = unavailable[r]
    BY <1>1, <2>1, <2>2
  <2>3. CASE unavailable'[r] = unavailable[r] \cup {at[r]} /\ read'[r] = read[r]
    BY <1>1, <2>1, <2>3
  <2> QED
    BY <2>2, <2>3 DEF TypeOK
<1>6. read'[r] \cup unavailable'[r] = 1..(at'[r] - 1) /\ (at[r] # Channels => at'[r] \in 1..Channels)
  <2>1. (1..(at[r] - 1)) \cup {at[r]} = 1..at[r]
    BY <1>1
  <2>2. at'[r] - 1 = at[r]
    BY <1>1, <1>4
  <2> QED
    BY <1>1, <1>4, <1>5, <2>1, <2>2, DigestAssumption
<1>7. RunInv(r)'
  <2>1. CASE pc'[r] = "preparing"
    <3>1. at'[r] - 1 = Channels
      BY <1>4, <2>1, DigestAssumption
    <3> QED
      BY <1>1, <1>4, <1>5, <1>6, <2>1, <3>1 DEF RunInv
  <2>2. CASE pc'[r] = "cancelled" /\ aborted[r]
    BY <1>1, <1>4, <1>5, <2>2 DEF RunInv
  <2>3. CASE pc'[r] = "reading" /\ at[r] # Channels
    BY <1>1, <1>4, <1>5, <1>6, <2>3 DEF RunInv
  <2> QED
    BY <1>4, <2>1, <2>2, <2>3
<1> QED
  BY <1>3, <1>7

\* A step of a run that is not the reading of a channel: it may count a wait, plan
\* or send its messages, alert, and reach the chat.
LEMMA OwnStepKeeps ==
  ASSUME TypeOK, FlagInv', NEW r \in Runs, RunInv(r), Progress(r)
  PROVE  TypeOK' /\ RunInv(r)'
<1>1. /\ at[r] \in 1..(Channels + 1) /\ floodWaitedS[r] \in 0..MaxTotal
      /\ size[r] \in 0..MaxSize /\ sent[r] \in 0..MaxSize
      /\ alerts[r] \subseteq Alerts /\ noticed[r] \in BOOLEAN /\ aborted[r] \in BOOLEAN
  BY RunTypes
<1>2. pc' \in [Runs -> {"idle"} \cup Working \cup Ended] /\ isRunning' \in BOOLEAN /\ runAbort' \in Runs \cup {NoRun}
  BY DEF FlagInv
<1>3. CASE ReadSucceeds(r) \/ ReadSkipped(r)
  BY <1>3, NextChannelKeeps DEF ReadSucceeds, ReadSkipped
<1>4. CASE ReadFails(r) \/ DeliveryFails(r) \/ \E w \in Waits : FloodTooLong(r, w)
  <2>1. /\ pc[r] \in {"reading", "sending"} /\ pc' = [pc EXCEPT ![r] = "reporting"]
        /\ alerts' = [alerts EXCEPT ![r] = @ \cup {"failed"}]
        /\ UNCHANGED <<isScheduled, aborted, collection, delivery>>
    BY <1>4 DEF ReadFails, DeliveryFails, FloodTooLong, Fail, Go, Alert
  <2>2. TypeOK'
    BY <1>2, <2>1 DEF TypeOK, collection, delivery, Alerts
  <2>3. /\ pc'[r] = "reporting" /\ alerts'[r] = alerts[r] \cup {"failed"} /\ noticed'[r] = noticed[r]
        /\ read'[r] = read[r] /\ unavailable'[r] = unavailable[r]
    BY <2>1 DEF TypeOK, collection, delivery
  <2>4. RunInv(r)'
    BY <2>1, <2>3 DEF RunInv
  <2> QED
    BY <2>2, <2>4
<1>5. CASE WaitEnds(r)
  <2>1. /\ pc[r] = "waiting"
        /\ UNCHANGED <<isScheduled, aborted, collection, delivery, alerts>>
        /\ \/ aborted[r] /\ pc' = [pc EXCEPT ![r] = "cancelled"]
           \/ pc' = [pc EXCEPT ![r] = "reading"]
    BY <1>5 DEF WaitEnds, ReadUnlessCancelled, Go, Finish
  <2>2. TypeOK'
    BY <1>2, <2>1 DEF TypeOK, collection, delivery
  <2>3. pc'[r] = "reading" \/ (aborted[r] /\ pc'[r] = "cancelled")
    BY <2>1 DEF TypeOK
  <2>4. RunInv(r)'
    BY <2>1, <2>3 DEF RunInv, collection, delivery
  <2> QED
    BY <2>2, <2>4
<1>6. ASSUME NEW w \in Waits, ReadFlooded(r, w) PROVE TypeOK' /\ RunInv(r)'
  <2>1. /\ pc[r] = "reading" /\ floodWaitedS[r] + w <= MaxTotal
        /\ floodWaitedS' = [floodWaitedS EXCEPT ![r] = floodWaitedS[r] + w]
        /\ alerts' = [alerts EXCEPT ![r] = @ \cup {"flood"}]
        /\ UNCHANGED <<isScheduled, aborted, at, read, unavailable, delivery>>
        /\ \/ aborted[r] /\ pc' = [pc EXCEPT ![r] = "cancelled"]
           \/ pc' = [pc EXCEPT ![r] = "waiting"]
    BY <1>6 DEF ReadFlooded, WithinLimits, Alert, Go, Finish
  <2>2. floodWaitedS' \in [Runs -> 0..MaxTotal]
    <3>1. floodWaitedS[r] + w \in 0..MaxTotal
      BY <1>1, <2>1, DigestAssumption
    <3> QED
      BY <2>1, <3>1 DEF TypeOK
  <2>3. TypeOK'
    BY <1>2, <2>1, <2>2 DEF TypeOK, delivery, Alerts
  <2>4. /\ pc'[r] = "waiting" \/ (aborted[r] /\ pc'[r] = "cancelled")
        /\ alerts'[r] = alerts[r] \cup {"flood"}
    BY <2>1 DEF TypeOK
  <2>5. RunInv(r)'
    BY <2>1, <2>4 DEF RunInv, delivery
  <2> QED
    BY <2>3, <2>5
<1>7. ASSUME NEW n \in 1..MaxSize, Prepare(r, n) PROVE TypeOK' /\ RunInv(r)'
  <2>1. /\ pc[r] = "preparing" /\ pc' = [pc EXCEPT ![r] = "sending"] /\ size' = [size EXCEPT ![r] = n]
        /\ UNCHANGED <<isScheduled, aborted, collection, sent, noticed, alerts>>
    BY <1>7 DEF Prepare, Go
  <2>2. TypeOK'
    BY <1>2, <2>1, DigestAssumption DEF TypeOK, collection
  <2>3. pc'[r] = "sending" /\ size'[r] = n
    BY <2>1 DEF TypeOK
  <2>4. RunInv(r)'
    BY <2>1, <2>3, DigestAssumption DEF RunInv, collection
  <2> QED
    BY <2>2, <2>4
<1>8. CASE Deliver(r)
  <2>1. /\ pc[r] = "sending" /\ sent[r] + 1 < size[r] /\ sent' = [sent EXCEPT ![r] = sent[r] + 1]
        /\ UNCHANGED <<service, isScheduled, aborted, collection, size, noticed, alerts>>
    BY <1>8 DEF Deliver
  <2>2. TypeOK'
    <3>1. sent[r] + 1 \in 0..MaxSize
      BY <1>1, <2>1, DigestAssumption
    <3>2. sent' \in [Runs -> 0..MaxSize]
      BY <2>1, <3>1 DEF TypeOK
    <3> QED
      BY <1>2, <2>1, <3>2 DEF TypeOK, collection, service
  <2>3. sent'[r] = sent[r] + 1 /\ pc'[r] = "sending" /\ size'[r] = size[r]
    BY <2>1 DEF TypeOK, service
  <2>4. RunInv(r)'
    BY <1>1, <2>1, <2>3 DEF RunInv, collection
  <2> QED
    BY <2>2, <2>4
<1>9. CASE DeliverLast(r)
  <2>1. /\ pc[r] = "sending" /\ sent[r] + 1 = size[r] /\ sent' = [sent EXCEPT ![r] = sent[r] + 1]
        /\ pc' = [pc EXCEPT ![r] = "delivered"]
        /\ \/ alerts' = [alerts EXCEPT ![r] = @ \cup {"gaps"}]
           \/ unavailable[r] = {} /\ UNCHANGED alerts
        /\ UNCHANGED <<isScheduled, aborted, collection, size, noticed>>
    BY <1>9 DEF DeliverLast, Alert, Finish
  <2>2. TypeOK'
    <3>1. sent' \in [Runs -> 0..MaxSize]
      BY <1>1, <2>1 DEF TypeOK
    <3>2. alerts' \in [Runs -> SUBSET Alerts]
      BY <2>1 DEF TypeOK, Alerts
    <3> QED
      BY <1>2, <2>1, <3>1, <3>2 DEF TypeOK, collection
  <2>3. /\ sent'[r] = size[r] /\ size'[r] = size[r] /\ pc'[r] = "delivered"
        /\ alerts'[r] = alerts[r] \cup {"gaps"} \/ (unavailable[r] = {} /\ alerts'[r] = alerts[r])
    BY <2>1 DEF TypeOK
  <2>4. RunInv(r)'
    BY <2>1, <2>3 DEF RunInv, collection
  <2> QED
    BY <2>2, <2>4
<1>10. CASE NoticeDelivered(r) \/ NoticeFails(r)
  <2>1. /\ pc[r] = "reporting" /\ pc' = [pc EXCEPT ![r] = "failed"]
        /\ UNCHANGED <<isScheduled, aborted, collection, size, sent>>
        /\ \/ noticed' = [noticed EXCEPT ![r] = TRUE] /\ UNCHANGED alerts
           \/ alerts' = [alerts EXCEPT ![r] = @ \cup {"undelivered"}] /\ UNCHANGED noticed
    BY <1>10 DEF NoticeDelivered, NoticeFails, Alert, Finish, delivery
  <2>2. TypeOK'
    <3>1. noticed' \in [Runs -> BOOLEAN]
      BY <2>1, Zenon DEF TypeOK
    <3>2. alerts' \in [Runs -> SUBSET Alerts]
      BY <2>1 DEF TypeOK, Alerts
    <3> QED
      BY <1>2, <2>1, <3>1, <3>2 DEF TypeOK, collection
  <2>3. /\ pc'[r] = "failed"
        /\ \/ noticed'[r] = TRUE /\ alerts'[r] = alerts[r]
           \/ noticed'[r] = noticed[r] /\ alerts'[r] = alerts[r] \cup {"undelivered"}
    BY <2>1 DEF TypeOK
  <2>4. RunInv(r)'
    BY <2>1, <2>3 DEF RunInv, collection
  <2> QED
    BY <2>2, <2>4
<1> QED
  BY <1>3, <1>4, <1>5, <1>6, <1>7, <1>8, <1>9, <1>10 DEF Progress

\* A step of a run changes nothing of another.
LEMMA OthersLeftAlone ==
  ASSUME TypeOK, NEW r \in Runs, NEW x \in Runs \ {r}, Progress(r)
  PROVE  /\ pc'[x] = pc[x] /\ aborted'[x] = aborted[x] /\ at'[x] = at[x]
         /\ read'[x] = read[x] /\ unavailable'[x] = unavailable[x]
         /\ size'[x] = size[x] /\ sent'[x] = sent[x] /\ alerts'[x] = alerts[x] /\ noticed'[x] = noticed[x]
<1>1. CASE ReadSucceeds(r) \/ ReadSkipped(r)
  BY <1>1 DEF ReadSucceeds, ReadSkipped, NextChannel, ReadUnlessCancelled, Go, Finish, delivery, TypeOK
<1>2. CASE ReadFails(r) \/ DeliveryFails(r) \/ \E w \in Waits : FloodTooLong(r, w)
  BY <1>2 DEF ReadFails, DeliveryFails, FloodTooLong, Fail, Go, Alert, collection, delivery, TypeOK
<1>3. CASE WaitEnds(r) \/ \E w \in Waits : ReadFlooded(r, w)
  BY <1>3 DEF WaitEnds, ReadFlooded, ReadUnlessCancelled, Go, Finish, Alert, collection, delivery, TypeOK
<1>4. CASE \E n \in 1..MaxSize : Prepare(r, n)
  BY <1>4 DEF Prepare, Go, collection, TypeOK
<1>5. CASE Deliver(r)
  BY <1>5 DEF Deliver, service, collection, TypeOK
<1>6. CASE DeliverLast(r)
  BY <1>6 DEF DeliverLast, Finish, Alert, collection, TypeOK
<1>7. CASE NoticeDelivered(r) \/ NoticeFails(r)
  BY <1>7 DEF NoticeDelivered, NoticeFails, Finish, Alert, collection, delivery, TypeOK
<1> QED
  BY <1>1, <1>2, <1>3, <1>4, <1>5, <1>6, <1>7 DEF Progress

LEMMA OthersKept ==
  ASSUME TypeOK, NEW r \in Runs, NEW x \in Runs \ {r}, Progress(r), RunInv(x)
  PROVE  RunInv(x)'
  BY OthersLeftAlone, RunKept

LEMMA OutcomeInvInit == Init => OutcomeInv
<1> SUFFICES ASSUME Init PROVE OutcomeInv
  OBVIOUS
<1>1. TypeOK
  <2>1. 1 \in 1..(Channels + 1) /\ 0 \in 0..MaxTotal /\ 0 \in 0..MaxSize
    BY DigestAssumption
  <2> QED
    BY <2>1 DEF Init, TypeOK
<1>2. ASSUME NEW r \in Runs PROVE RunInv(r)
  <2>1. 1..(1 - 1) = {} /\ 1 \in 1..Channels
    BY DigestAssumption
  <2> QED
    BY <2>1 DEF Init, RunInv
<1> QED
  BY <1>1, <1>2 DEF OutcomeInv

LEMMA OutcomeInvNext == FlagInv /\ FlagInv' /\ OutcomeInv /\ [Next]_vars => OutcomeInv'
<1> SUFFICES ASSUME FlagInv, FlagInv', OutcomeInv, [Next]_vars PROVE OutcomeInv'
  OBVIOUS
<1>1. TypeOK /\ \A r \in Runs : RunInv(r)
  BY DEF OutcomeInv
<1>2. pc' \in [Runs -> {"idle"} \cup Working \cup Ended] /\ isRunning' \in BOOLEAN /\ runAbort' \in Runs \cup {NoRun}
  BY DEF FlagInv
<1>3. ASSUME NEW r \in Runs, Progress(r) PROVE OutcomeInv'
  BY <1>1, <1>3, OwnStepKeeps, OthersKept DEF OutcomeInv
<1>4. ASSUME NEW r \in Runs, Start(r) \/ RunScheduled(r) PROVE OutcomeInv'
  <2>1. /\ pc[r] = "idle" /\ pc' = [pc EXCEPT ![r] = "reading"]
        /\ UNCHANGED <<isScheduled, aborted, collection, delivery, alerts>>
    BY <1>4 DEF Start, RunScheduled, Execute
  <2>2. TypeOK'
    BY <1>1, <1>2, <2>1 DEF TypeOK, collection, delivery
  <2>3. RunInv(r)'
    <3>1. pc'[r] = "reading"
      BY <1>1, <2>1 DEF TypeOK
    <3> QED
      BY <1>1, <2>1, <3>1 DEF RunInv, collection, delivery
  <2>4. ASSUME NEW x \in Runs \ {r} PROVE RunInv(x)'
    <3>1. pc'[x] = pc[x]
      BY <1>1, <2>1 DEF TypeOK
    <3> QED
      BY <1>1, <2>1, <3>1, RunKept DEF collection, delivery
  <2> QED
    BY <2>2, <2>3, <2>4 DEF OutcomeInv
<1>5. CASE OnModuleDestroy
  <2>1. /\ aborted' = [x \in Runs |-> aborted[x] \/ x = runAbort] /\ isScheduled' = FALSE
        /\ UNCHANGED <<collection, delivery, alerts>>
    BY <1>5 DEF OnModuleDestroy
  <2>2. TypeOK'
    BY <1>1, <1>2, <2>1 DEF TypeOK, collection, delivery
  <2>3. ASSUME NEW x \in Runs PROVE RunInv(x)'
    <3>1. \/ pc'[x] = pc[x]
          \/ pc[x] = "waiting" /\ x = runAbort /\ pc'[x] = "cancelled"
      BY <1>1, <1>5 DEF OnModuleDestroy, Finish, service, TypeOK
    <3>2. CASE pc'[x] = pc[x]
      BY <1>1, <2>1, <3>2, RunKept DEF collection, delivery
    <3>3. CASE pc[x] = "waiting" /\ x = runAbort /\ pc'[x] = "cancelled"
      BY <1>1, <2>1, <3>3 DEF RunInv, collection, delivery
    <3> QED
      BY <3>1, <3>2, <3>3
  <2> QED
    BY <2>2, <2>3 DEF OutcomeInv
<1>6. CASE Restart
  <2>1. /\ isScheduled' = TRUE /\ UNCHANGED <<aborted, collection, delivery, alerts>>
        /\ pc' = [x \in Runs |-> IF Active(x) THEN "lost" ELSE pc[x]]
    BY <1>6 DEF Restart
  <2>2. TypeOK'
    BY <1>1, <1>2, <2>1 DEF TypeOK, collection, delivery
  <2>3. ASSUME NEW x \in Runs PROVE RunInv(x)'
    <3>1. pc'[x] = pc[x] \/ pc'[x] = "lost"
      BY <2>1
    <3>2. CASE pc'[x] = pc[x]
      BY <1>1, <2>1, <3>2, RunKept DEF collection, delivery
    <3>3. CASE pc'[x] = "lost"
      BY <1>1, <2>1, <3>3 DEF RunInv, collection, delivery
    <3> QED
      BY <3>1, <3>2, <3>3
  <2> QED
    BY <2>2, <2>3 DEF OutcomeInv
<1>7. CASE UNCHANGED vars
  <2>1. UNCHANGED <<service, isScheduled, aborted, collection, delivery, alerts>>
    BY <1>7 DEF vars
  <2>2. TypeOK'
    BY <1>1, <2>1 DEF TypeOK, service, collection, delivery
  <2> QED
    BY <1>1, <2>1, <2>2, RunKept DEF OutcomeInv, service, collection, delivery
<1> QED
  BY <1>3, <1>4, <1>5, <1>6, <1>7 DEF Next

\* Every run is over in one way, and its chat and the alerts have been told which:
\* a digest that lacks no channel unsaid, a failure that was reported, or a
\* cancellation of which nothing went out.
THEOREM DigestOutcomeIsTold == Spec => []OutcomeIsTold
<1>1. OutcomeInv => OutcomeIsTold
  <2> SUFFICES ASSUME OutcomeInv, NEW r \in Runs PROVE RunInv(r)
    BY DEF OutcomeInv, OutcomeIsTold, RunInv
  <2> QED
    BY DEF OutcomeInv
<1> QED
  BY <1>1, FlagInvInit, FlagInvNext, OutcomeInvInit, OutcomeInvNext, PTL DEF Spec

\* The variables of every run keep their types: a flood wait is counted within its
\* budget, and a run sends no more than it has prepared.
THEOREM DigestTypeCorrect == Spec => []TypeOK
<1>1. OutcomeInv => TypeOK
  BY DEF OutcomeInv
<1> QED
  BY <1>1, FlagInvInit, FlagInvNext, OutcomeInvInit, OutcomeInvNext, PTL DEF Spec

-------------------------------------------------------------------------------
(* 2. The content.                                                         *)

\* The posts that are translated one by one: all of them, or the fallback blocks.
Items == IF mode = "on" THEN WithText ELSE FallbackPosts(topics)
IsSent == stage \in {"sending", "delivered", "undelivered"}

\* What is kept was chosen before anything else happened.
KeptInv ==
  /\ date \in Dates /\ text \subseteq Posts /\ kept \subseteq Posts /\ mode \in {"on", "off"}
  /\ stage = "collected" => kept = {} /\ translations = {}
  /\ stage # "collected" => kept = LimitPosts

AllLines == {Theses[i] : i \in 1 .. MaxTopics + 1} \cup {<<Texts[p]>> : p \in Posts}
TopicType == [refs : SUBSET Posts, isFallback : BOOLEAN, lines : AllLines]

\* A topic names posts of the digest, and a fallback block exactly one; from the end
\* of the summary on no post is without a topic.
TopicInv ==
  /\ topics \in Seq(TopicType)
  /\ \A i \in DOMAIN topics :
       /\ topics[i].refs \subseteq WithText /\ topics[i].refs # {}
       /\ topics[i].isFallback => \E p \in Posts : topics[i].refs = {p}
  /\ stage \in {"collected", "translating", "translated", "summarizing"} => topics = <<>>
  /\ stage = "covering" => \A i \in DOMAIN topics : ~topics[i].isFallback
  /\ stage \in {"summarized", "theses", "formatting"} => EveryPostIsPlaced

\* No text waits in two batches, and none that is translated waits at all.
BatchInv ==
  /\ batches \in Seq(SUBSET Posts)
  /\ \A i \in DOMAIN batches : batches[i] \subseteq Items \ translations
  /\ \A i, j \in DOMAIN batches : i # j => batches[i] \cap batches[j] = {}

GapInv ==
  /\ stage = "translating" => mode = "on"
  /\ stage = "theses" => mode = "off"
  /\ mode = "off" /\ stage \notin {"theses", "formatting"} /\ ~IsSent => translations = {}
  /\ (mode = "on" /\ stage # "collected") \/ stage \in {"theses", "formatting"}
       => untranslated = Cardinality(Items \ translations)
  /\ IsTranslating => BatchInv

\* The copies of a message in the chat, and the requests for it that may still be taken.
TakenIn(c, m) == Cardinality({i \in DOMAIN c : c[i] = m})
PendingIn(l, m) == Cardinality({r \in l : r[1] = m})
RequestsIn(c, l, m) == TakenIn(c, m) + PendingIn(l, m)
OrderedIn(c) == \A i \in DOMAIN c : c[i] = 1 \/ \E j \in 1 .. i - 1 : c[j] = c[i] - 1

\* A chat with the first n messages, and what may be there of the next.
IsChat(c, l, n) ==
  /\ c \in Seq(Nat) /\ IsFiniteSet(l) /\ OrderedIn(c)
  /\ 1 .. n \subseteq ToSet(c) /\ ToSet(c) \subseteq 1 .. n + 1
  /\ \A r \in l : r[1] \in 1 .. n + 1
  /\ \A m \in Nat : RequestsIn(c, l, m) <= BotRetries + 1

\* Nothing has failed where nothing is asked for, and the summary begins its own count
\* of follow-ups.
PaceInv ==
  /\ round \in Nat /\ attempt \in Nat
  /\ stage \in {"collected", "translated", "summarizing", "summarized", "formatting"} => round = 0
  /\ stage \in {"collected", "translated", "summarized", "formatting"} => attempt = 0
  /\ stage = "covering" /\ ~IsFollowUpDue => attempt = 0

\* The message under way may have been asked for already, once per failed attempt; all
\* the ones before it are in the chat, and no request is for one after the last.
ChatInv ==
  /\ ~IsSent => chat = <<>> /\ late = {}
  /\ IsSent => IsChat(chat, late, round)
  /\ stage = "sending" => RequestsIn(chat, late, round + 1) <= attempt /\ attempt <= BotRetries
  /\ stage = "delivered" => /\ round = MessageCount /\ ToSet(chat) \subseteq 1 .. round
                            /\ \A r \in late : r[1] \in 1 .. round

-------------------------------------------------------------------------------
(* The members of a finite set in a strict order. *)

IsStrictOrder(R, S) ==
  /\ \A x \in S : <<x, x>> \notin R
  /\ \A x, y \in S : x # y => <<x, y>> \in R \/ <<y, x>> \in R
  /\ \A x, y, z \in S : <<x, y>> \in R /\ <<y, z>> \in R => <<x, z>> \in R

Place(R, S, x) == Cardinality({y \in S : <<y, x>> \in R})
IsTaken(R, S, k) == \E x \in S : Place(R, S, x) = k

\* Every member has its own place, and every place up to the last is taken.
LEMMA PlacesAre ==
  ASSUME NEW S, IsFiniteSet(S), NEW R, IsStrictOrder(R, S)
  PROVE  /\ Cardinality(S) \in Nat
         /\ \A x \in S : Place(R, S, x) \in 0 .. (Cardinality(S) - 1)
         /\ \A x, y \in S : <<x, y>> \in R => Place(R, S, x) < Place(R, S, y)
         /\ \A x, y \in S : Place(R, S, x) = Place(R, S, y) => x = y
         /\ \A k \in 0 .. (Cardinality(S) - 1) : IsTaken(R, S, k)
<1> DEFINE n == Cardinality(S)
           T == 0 .. (n - 1)
           f == [x \in S |-> Place(R, S, x)]
<1>1. n \in Nat
  BY FS_CardinalityType
<1>2. ASSUME NEW x \in S PROVE Place(R, S, x) \in T
  <2> DEFINE before == {y \in S : <<y, x>> \in R}
  <2>1. before \in SUBSET (S \ {x}) /\ IsFiniteSet(S \ {x}) /\ Cardinality(S \ {x}) = n - 1
    BY FS_RemoveElement DEF IsStrictOrder
  <2> HIDE DEF before
  <2>2. IsFiniteSet(before) /\ Cardinality(before) <= n - 1
    BY <2>1, FS_Subset
  <2>3. Cardinality(before) \in Nat
    BY <2>2, FS_CardinalityType
  <2> QED
    BY <1>1, <2>2, <2>3 DEF Place, before
<1>3. ASSUME NEW x \in S, NEW y \in S, <<x, y>> \in R PROVE Place(R, S, x) < Place(R, S, y)
  <2> DEFINE more == {z \in S : <<z, y>> \in R}
             less == {z \in S : <<z, x>> \in R}
  <2>1. less \subseteq more \ {x} /\ x \in more /\ more \in SUBSET S
    BY <1>3 DEF IsStrictOrder
  <2> HIDE DEF less, more
  <2>2. IsFiniteSet(more) /\ Cardinality(more) \in Nat
    BY <2>1, FS_Subset, FS_CardinalityType
  <2>3. IsFiniteSet(more \ {x}) /\ Cardinality(more \ {x}) = Cardinality(more) - 1
    BY <2>1, <2>2, FS_RemoveElement
  <2>4. IsFiniteSet(less) /\ Cardinality(less) <= Cardinality(more) - 1 /\ Cardinality(less) \in Nat
    BY <2>1, <2>3, FS_Subset, FS_CardinalityType
  <2> QED
    BY <2>2, <2>4 DEF Place, less, more
<1>4. ASSUME NEW x \in S, NEW y \in S, Place(R, S, x) = Place(R, S, y) PROVE x = y
  <2>1. Place(R, S, x) \in Int /\ Place(R, S, y) \in Int
    BY <1>1, <1>2
  <2>2. <<x, y>> \notin R /\ <<y, x>> \notin R
    BY <1>3, <1>4, <2>1
  <2> QED
    BY <2>2 DEF IsStrictOrder
<1>5. f \in Injection(S, T)
  <2>1. f \in [S -> T]
    BY <1>2
  <2> QED
    BY <1>4, <2>1 DEF Injection, IsInjective
<1>6. IsFiniteSet(T) /\ Cardinality(T) = n
  <2>1. 0 \in Int /\ n - 1 \in Int
    BY <1>1
  <2>2. IsFiniteSet(0 .. (n - 1)) /\ Cardinality(0 .. (n - 1)) = IF 0 > n - 1 THEN 0 ELSE (n - 1) - 0 + 1
    BY <2>1, FS_Interval
  <2> QED
    BY <1>1, <2>2
<1>7. f \in Surjection(S, T)
  <2> HIDE DEF f, T
  <2> QED
    BY <1>5, <1>6, FS_Injection
<1>8. ASSUME NEW k \in T PROVE IsTaken(R, S, k)
  BY <1>7 DEF Surjection, IsTaken
<1> QED
  BY <1>1, <1>2, <1>3, <1>4, <1>8

LEMMA InOrderIs ==
  ASSUME NEW S, S \subseteq Int, IsFiniteSet(S)
  PROVE  /\ InOrder(S) \in Seq(S) /\ Len(InOrder(S)) = Cardinality(S) /\ Cardinality(S) \in Nat
         /\ \A k, l \in 1 .. Cardinality(S) : InOrder(S)[k] = InOrder(S)[l] => k = l
         /\ \A x \in S : \E k \in 1 .. Cardinality(S) : InOrder(S)[k] = x
<1> DEFINE R == {e \in S \X S : e[1] < e[2]}
           n == Cardinality(S)
           s == InOrder(S)
<1>1. ASSUME NEW x \in S, NEW y \in S PROVE <<x, y>> \in R <=> x < y
  OBVIOUS
<1>2. IsStrictOrder(R, S)
  <2> HIDE DEF R
  <2>1. \A x \in S : x \in Int
    OBVIOUS
  <2> QED
    BY <1>1, <2>1 DEF IsStrictOrder
<1>3. ASSUME NEW x \in S PROVE Place(R, S, x) = Cardinality({q \in S : q < x})
  <2>1. {y \in S : <<y, x>> \in R} = {q \in S : q < x}
    BY <1>1
  <2> QED
    BY <2>1 DEF Place
<1> HIDE DEF R
<1>4. /\ n \in Nat
      /\ \A x \in S : Place(R, S, x) \in 0 .. (n - 1)
      /\ \A x, y \in S : Place(R, S, x) = Place(R, S, y) => x = y
      /\ \A k \in 0 .. (n - 1) : \E x \in S : Place(R, S, x) = k
  <2>1. n \in Nat /\ \A x \in S : Place(R, S, x) \in 0 .. (n - 1)
    BY <1>2, PlacesAre, ZenonT(30)
  <2>2. \A x, y \in S : Place(R, S, x) = Place(R, S, y) => x = y
    BY <1>2, PlacesAre, ZenonT(30)
  <2>3. \A k \in 0 .. (n - 1) : IsTaken(R, S, k)
    BY <1>2, PlacesAre, ZenonT(30)
  <2> QED
    BY <2>1, <2>2, <2>3 DEF IsTaken
<1>5. ASSUME NEW k \in 1 .. n PROVE s[k] \in S /\ Place(R, S, s[k]) = k - 1
  <2>1. k - 1 \in 0 .. (n - 1)
    BY <1>4
  <2>2. s[k] = CHOOSE x \in S : Cardinality({q \in S : q < x}) = k - 1
    BY DEF InOrder
  <2>3. \E x \in S : Cardinality({q \in S : q < x}) = k - 1
    BY <1>3, <1>4, <2>1
  <2> HIDE DEF s
  <2> QED
    BY <1>3, <2>2, <2>3
<1>6. s = [k \in 1 .. n |-> s[k]]
  <2> DEFINE nth(k) == CHOOSE x \in S : Cardinality({q \in S : q < x}) = k - 1
  <2>1. s = [k \in 1 .. n |-> nth(k)]
    BY DEF InOrder
  <2> HIDE DEF s, nth
  <2> QED
    BY <2>1
<1> HIDE DEF s
<1>7. s \in Seq(S) /\ Len(s) = n
  BY <1>4, <1>5, <1>6
<1>8. ASSUME NEW k \in 1 .. n, NEW l \in 1 .. n, s[k] = s[l] PROVE k = l
  <2>1. k - 1 = l - 1 /\ k \in Int /\ l \in Int
    BY <1>4, <1>5, <1>8
  <2> QED
    BY <2>1
<1>9. ASSUME NEW x \in S PROVE \E k \in 1 .. n : s[k] = x
  <2> DEFINE k == Place(R, S, x) + 1
  <2>1. k \in 1 .. n /\ k - 1 = Place(R, S, x)
    BY <1>4
  <2> HIDE DEF k
  <2> QED
    BY <1>4, <1>5, <2>1
<1> QED
  BY <1>4, <1>7, <1>8, <1>9 DEF s

LEMMA PostsAre ==
  /\ IsFiniteSet(Posts) /\ Posts \subseteq Int /\ Cardinality(Posts) \in Nat
  /\ \A S \in SUBSET Posts : IsFiniteSet(S) /\ S \subseteq Int /\ Cardinality(S) \in Nat
<1>1. IsFiniteSet(Posts) /\ Cardinality(Posts) \in Nat
  BY ContentAssumption, FS_CardinalityType
<1>2. Posts \subseteq Int
  BY <1>1, ContentAssumption
<1>3. ASSUME NEW S \in SUBSET Posts PROVE IsFiniteSet(S) /\ S \subseteq Int /\ Cardinality(S) \in Nat
  <2>1. IsFiniteSet(S)
    BY <1>1, FS_Subset
  <2> QED
    BY <1>2, <2>1, FS_CardinalityType
<1> QED
  BY <1>1, <1>2, <1>3

\* The digest takes as many posts as it may, and none older than one it leaves out.
LEMMA LimitIs ==
  ASSUME date \in Dates
  PROVE  /\ LimitPosts \subseteq Posts
         /\ Cardinality(LimitPosts) = IF Cardinality(Posts) < MaxPosts THEN Cardinality(Posts)
                                                                       ELSE MaxPosts
         /\ \A p \in LimitPosts, q \in Posts \ LimitPosts : date[p] >= date[q]
<1> DEFINE R == {e \in Posts \X Posts : Newer(e[1], e[2])}
           n == Cardinality(Posts)
           L == LimitPosts
<1>1. \A p, q \in Posts : <<p, q>> \in R <=> Newer(p, q)
  OBVIOUS
<1>2. \A p \in Posts : p \in Int /\ date[p] \in Int
  BY PostsAre, ContentAssumption
<1>3. IsStrictOrder(R, Posts)
  <2> HIDE DEF R
  <2> QED
    BY <1>1, <1>2 DEF IsStrictOrder, Newer
<1>4. \A p \in Posts : p \in L <=> Place(R, Posts, p) < MaxPosts
  <2>1. ASSUME NEW p \in Posts PROVE {q \in Posts : <<q, p>> \in R} = {q \in Posts : Newer(q, p)}
    BY <1>1
  <2> QED
    BY <2>1 DEF LimitPosts, Place
<1>5. L \subseteq Posts
  BY DEF LimitPosts
<1> HIDE DEF R, L
<1>5a. IsFiniteSet(Posts)
  BY PostsAre
<1>6. /\ n \in Nat
      /\ \A x \in Posts : Place(R, Posts, x) \in 0 .. (n - 1)
      /\ \A x, y \in Posts : <<x, y>> \in R => Place(R, Posts, x) < Place(R, Posts, y)
      /\ \A x, y \in Posts : Place(R, Posts, x) = Place(R, Posts, y) => x = y
      /\ \A k \in 0 .. (n - 1) : IsTaken(R, Posts, k)
  BY <1>3, <1>5a, PlacesAre, ZenonT(30)
<1>7. MaxPosts \in Nat
  BY ContentAssumption
<1>8. CASE n < MaxPosts
  <2>1. \A p \in Posts : p \in L
    BY <1>4, <1>6, <1>7, <1>8
  <2>2. L = Posts
    BY <1>5, <2>1
  <2> QED
    BY <1>8, <2>2 DEF L
<1>9. CASE ~(n < MaxPosts)
  <2> DEFINE T == 0 .. (MaxPosts - 1)
             f == [p \in L |-> Place(R, Posts, p)]
  <2>1. f \in [L -> T]
    <3> SUFFICES ASSUME NEW p \in L PROVE Place(R, Posts, p) \in T
      OBVIOUS
    <3> QED
      BY <1>4, <1>5, <1>6, <1>7
  <2>2. f \in Injection(L, T)
    BY <1>5, <1>6, <2>1 DEF Injection, IsInjective
  <2>3. ASSUME NEW k \in T PROVE \E p \in L : f[p] = k
    <3>1. k \in 0 .. (n - 1) /\ k < MaxPosts
      BY <1>6, <1>7, <1>9
    <3>2. PICK p \in Posts : Place(R, Posts, p) = k
      BY <1>6, <3>1 DEF IsTaken
    <3> QED
      BY <1>4, <3>1, <3>2
  <2>4. f \in Surjection(L, T)
    <3> HIDE DEF f, T
    <3> QED
      BY <2>1, <2>3 DEF Surjection
  <2>5. IsFiniteSet(T) /\ Cardinality(T) = MaxPosts
    <3>1. 0 \in Int /\ MaxPosts - 1 \in Int
      BY <1>7
    <3>2. /\ IsFiniteSet(0 .. (MaxPosts - 1))
          /\ Cardinality(0 .. (MaxPosts - 1)) = IF 0 > MaxPosts - 1 THEN 0 ELSE (MaxPosts - 1) - 0 + 1
      BY <3>1, FS_Interval
    <3> QED
      BY <1>7, <3>2
  <2>6. IsFiniteSet(L) /\ Cardinality(L) \in Nat
    BY <1>5, PostsAre
  <2> HIDE DEF f, T
  <2>7. Cardinality(L) <= Cardinality(T)
    BY <2>2, <2>5, FS_Injection
  <2>8. Cardinality(T) <= Cardinality(L)
    BY <2>4, <2>6, FS_Surjection
  <2>9. Cardinality(L) = MaxPosts
    BY <1>7, <2>5, <2>6, <2>7, <2>8
  <2>10. ASSUME NEW p \in L, NEW q \in Posts \ L PROVE date[p] >= date[q]
    <3>1. p \in Posts /\ Place(R, Posts, p) < MaxPosts /\ ~(Place(R, Posts, q) < MaxPosts)
      BY <1>4, <1>5
    <3>2. Place(R, Posts, p) \in Int /\ Place(R, Posts, q) \in Int
      BY <1>6, <3>1
    <3>3. ~(Place(R, Posts, q) < Place(R, Posts, p))
      BY <1>7, <3>1, <3>2
    <3>4. ~Newer(q, p)
      BY <1>1, <1>6, <3>1, <3>3
    <3> QED
      BY <1>2, <3>1, <3>4 DEF Newer
  <2> QED
    BY <1>5, <1>9, <2>9, <2>10 DEF L
<1> QED
  BY <1>8, <1>9

-------------------------------------------------------------------------------
(* Topics. *)

NoneIsFallback(s) == \A i \in DOMAIN s : ~s[i].isFallback

LEMMA TopicIs ==
  ASSUME NEW refs \in SUBSET Posts, NEW isFallback \in BOOLEAN, NEW lines \in AllLines
  PROVE  /\ Topic(refs, isFallback, lines) \in TopicType
         /\ Topic(refs, isFallback, lines).refs = refs
         /\ Topic(refs, isFallback, lines).isFallback = isFallback
BY DEF Topic, TopicType

LEMMA ModelTopicIs ==
  ASSUME NEW i \in 1 .. MaxTopics + 1, NEW refs \in SUBSET Posts
  PROVE  ModelTopic(i, refs) \in TopicType /\ ~ModelTopic(i, refs).isFallback
<1>1. Theses[i] \in AllLines
  BY DEF AllLines
<1> QED
  BY <1>1, TopicIs DEF ModelTopic

LEMMA AnswersAre ==
  ASSUME NEW answer \in Answers
  PROVE  answer \in Seq(TopicType) /\ NoneIsFallback(answer)
<1>1. PICK n \in 0 .. MaxTopics : \E refs \in [1 .. n -> SUBSET Posts] :
                                     answer = [i \in 1 .. n |-> ModelTopic(i, refs[i])]
  BY DEF Answers
<1>2. PICK refs \in [1 .. n -> SUBSET Posts] : answer = [i \in 1 .. n |-> ModelTopic(i, refs[i])]
  BY <1>1
<1>3. ASSUME NEW i \in 1 .. n
      PROVE  ModelTopic(i, refs[i]) \in TopicType /\ ~ModelTopic(i, refs[i]).isFallback
  <2>1. i \in 1 .. MaxTopics + 1 /\ refs[i] \in SUBSET Posts
    BY ContentAssumption
  <2> QED
    BY <2>1, ModelTopicIs
<1>4. DOMAIN answer = 1 .. n /\ \A i \in 1 .. n : answer[i] = ModelTopic(i, refs[i])
  BY <1>2
<1>5. answer \in [1 .. n -> TopicType]
  BY <1>2, <1>3
<1> QED
  BY <1>3, <1>4, <1>5 DEF NoneIsFallback

LEMMA NewTopicsAre ==
  ASSUME NEW new \in NewTopics
  PROVE  new \in Seq(TopicType) /\ NoneIsFallback(new)
<1>1. CASE new = <<>>
  BY <1>1 DEF NoneIsFallback
<1>2. ASSUME NEW refs \in SUBSET Posts, new = <<ModelTopic(MaxTopics + 1, refs)>>
      PROVE  new \in Seq(TopicType) /\ NoneIsFallback(new)
  <2> DEFINE t == ModelTopic(MaxTopics + 1, refs)
  <2>1. MaxTopics + 1 \in 1 .. MaxTopics + 1
    BY ContentAssumption
  <2>2. t \in TopicType /\ ~t.isFallback /\ new = <<t>>
    BY <1>2, <2>1, ModelTopicIs
  <2> HIDE DEF t
  <2> QED
    BY <2>2 DEF NoneIsFallback
<1> QED
  BY <1>1, <1>2 DEF NewTopics

LEMMA ConcatIs ==
  ASSUME NEW s \in Seq(TopicType), NEW t \in Seq(TopicType)
  PROVE  /\ s \o t \in Seq(TopicType)
         /\ \A i \in DOMAIN s : i \in DOMAIN (s \o t) /\ (s \o t)[i] = s[i]
         /\ \A i \in DOMAIN t : \E j \in DOMAIN (s \o t) : (s \o t)[j] = t[i]
         /\ \A j \in DOMAIN (s \o t) : \/ \E i \in DOMAIN s : (s \o t)[j] = s[i]
                                       \/ \E i \in DOMAIN t : (s \o t)[j] = t[i]
<1> DEFINE u == s \o t
<1>1. /\ u \in Seq(TopicType) /\ Len(s) \in Nat /\ Len(t) \in Nat /\ Len(u) = Len(s) + Len(t)
      /\ DOMAIN s = 1 .. Len(s) /\ DOMAIN t = 1 .. Len(t) /\ DOMAIN u = 1 .. Len(u)
      /\ \A i \in 1 .. Len(s) : u[i] = s[i]
      /\ \A i \in 1 .. Len(t) : u[Len(s) + i] = t[i]
  OBVIOUS
<1> HIDE DEF u
<1>2. ASSUME NEW i \in DOMAIN t PROVE \E j \in DOMAIN u : u[j] = t[i]
  <2>1. Len(s) + i \in DOMAIN u
    BY <1>1
  <2> QED
    BY <1>1, <2>1
<1>3. ASSUME NEW j \in DOMAIN u
      PROVE  (\E i \in DOMAIN s : u[j] = s[i]) \/ (\E i \in DOMAIN t : u[j] = t[i])
  <2>1. CASE j <= Len(s)
    BY <1>1, <2>1
  <2>2. CASE ~(j <= Len(s))
    <3>1. j - Len(s) \in 1 .. Len(t) /\ Len(s) + (j - Len(s)) = j
      BY <1>1, <2>2
    <3> QED
      BY <1>1, <3>1
  <2> QED
    BY <2>1, <2>2
<1>4. \A i \in DOMAIN s : i \in DOMAIN u
  BY <1>1
<1> QED
  BY <1>1, <1>2, <1>3, <1>4 DEF u

\* Of what a model answers only the topics with known posts are taken.
LEMMA DropIs ==
  ASSUME kept \subseteq Posts, NEW made \in Seq(TopicType)
  PROVE  /\ DropUnknownRefs(made) \in Seq(TopicType)
         /\ \A k \in DOMAIN DropUnknownRefs(made) :
              /\ DropUnknownRefs(made)[k].refs \subseteq WithText
              /\ DropUnknownRefs(made)[k].refs # {}
         /\ NoneIsFallback(made) => NoneIsFallback(DropUnknownRefs(made))
<1> DEFINE known(i) == made[i].refs \cap WithText
           places == {i \in DOMAIN made : known(i) # {}}
           from(k) == InOrder(places)[k]
           d == DropUnknownRefs(made)
           cut(i) == [made[i] EXCEPT !.refs = known(i)]
<1>1. d = [k \in 1 .. Cardinality(places) |-> cut(from(k))]
  BY DEF DropUnknownRefs
<1>2. IsFiniteSet(places) /\ places \subseteq Int
  <2>1. DOMAIN made = 1 .. Len(made) /\ Len(made) \in Nat
    OBVIOUS
  <2>2. places \in SUBSET (1 .. Len(made))
    BY <2>1
  <2> HIDE DEF places
  <2>3. 1 \in Int /\ Len(made) \in Int
    BY <2>1
  <2>4. IsFiniteSet(1 .. Len(made))
    BY <2>3, FS_Interval
  <2>5. 1 .. Len(made) \subseteq Int
    BY <2>3
  <2> QED
    BY <2>2, <2>4, <2>5, FS_Subset
<1>3. ASSUME NEW i \in places
      PROVE  /\ cut(i) \in TopicType /\ cut(i).refs = known(i) /\ known(i) # {}
             /\ cut(i).isFallback = made[i].isFallback /\ i \in DOMAIN made
  <2>1. made[i] \in TopicType /\ i \in DOMAIN made /\ known(i) # {}
    OBVIOUS
  <2>2. known(i) \in SUBSET Posts
    BY DEF WithText
  <2> HIDE DEF known
  <2> QED
    BY <2>1, <2>2 DEF TopicType
<1> HIDE DEF d, cut
<1>4. /\ Cardinality(places) \in Nat
      /\ \A k \in 1 .. Cardinality(places) : from(k) \in places
  <2> HIDE DEF places
  <2>1. InOrder(places) \in Seq(places) /\ Len(InOrder(places)) = Cardinality(places)
        /\ Cardinality(places) \in Nat
    BY <1>2, InOrderIs
  <2> QED
    BY <2>1
<1> HIDE DEF from, places
<1>5. /\ d \in Seq(TopicType) /\ DOMAIN d = 1 .. Cardinality(places)
      /\ \A k \in DOMAIN d : d[k] = cut(from(k)) /\ from(k) \in places
  BY <1>1, <1>3, <1>4
<1>6. ASSUME NEW k \in DOMAIN d
      PROVE  /\ d[k].refs \subseteq WithText /\ d[k].refs # {}
             /\ \E i \in DOMAIN made : d[k].isFallback = made[i].isFallback
  <2>1. known(from(k)) \subseteq WithText
    OBVIOUS
  <2> HIDE DEF known
  <2> QED
    BY <1>3, <1>5, <2>1
<1>7. ASSUME NoneIsFallback(made) PROVE NoneIsFallback(d)
  BY <1>6, <1>7 DEF NoneIsFallback
<1> QED
  BY <1>5, <1>6, <1>7 DEF d

\* Fallback blocks hold one post each, and together all of them.
LEMMA FallbackIs ==
  ASSUME NEW S \in SUBSET Posts
  PROVE  /\ Fallback(S) \in Seq(TopicType)
         /\ \A k \in DOMAIN Fallback(S) : \E p \in S : Fallback(S)[k].refs = {p}
         /\ \A p \in S : \E k \in DOMAIN Fallback(S) : Fallback(S)[k].refs = {p}
<1> DEFINE block(p) == Topic({p}, TRUE, <<Texts[p]>>)
           n == Cardinality(S)
           f == Fallback(S)
<1>1. f = [i \in 1 .. n |-> block(InOrder(S)[i])]
  BY DEF Fallback
<1>2. /\ InOrder(S) \in Seq(S) /\ Len(InOrder(S)) = n /\ n \in Nat
      /\ \A x \in S : \E k \in 1 .. n : InOrder(S)[k] = x
  <2>1. IsFiniteSet(S) /\ S \subseteq Int
    BY PostsAre
  <2> QED
    BY <2>1, InOrderIs
<1>3. ASSUME NEW p \in S PROVE block(p) \in TopicType /\ block(p).refs = {p}
  <2>1. <<Texts[p]>> \in AllLines /\ {p} \in SUBSET Posts
    BY DEF AllLines
  <2> QED
    BY <2>1, TopicIs
<1> HIDE DEF f, block
<1>4. \A k \in 1 .. n : InOrder(S)[k] \in S
  BY <1>2
<1>5. /\ f \in Seq(TopicType) /\ DOMAIN f = 1 .. n
      /\ \A k \in 1 .. n : f[k] = block(InOrder(S)[k])
  BY <1>1, <1>2, <1>3, <1>4
<1> QED
  BY <1>2, <1>3, <1>4, <1>5 DEF f

\* A follow-up may add posts to a topic, and topics.
LEMMA AppliedIs ==
  ASSUME topics \in Seq(TopicType), NoneIsFallback(topics),
         NEW number, NEW refs \in SUBSET Posts,
         NEW new \in Seq(TopicType), NoneIsFallback(new)
  PROVE  Applied(number, refs, new) \in Seq(TopicType) /\ NoneIsFallback(Applied(number, refs, new))
<1> DEFINE grown(i) == IF i = number THEN [topics[i] EXCEPT !.refs = @ \cup refs] ELSE topics[i]
           s == [i \in DOMAIN topics |-> grown(i)]
<1>1. Applied(number, refs, new) = s \o new
  BY DEF Applied
<1>2. ASSUME NEW i \in DOMAIN topics PROVE grown(i) \in TopicType /\ ~grown(i).isFallback
  <2>1. topics[i] \in TopicType /\ ~topics[i].isFallback
    BY DEF NoneIsFallback
  <2> QED
    BY <2>1 DEF TopicType
<1> HIDE DEF grown
<1>3. s \in Seq(TopicType) /\ DOMAIN s = DOMAIN topics /\ \A i \in DOMAIN s : s[i] = grown(i)
  BY <1>2
<1> HIDE DEF s
<1>4. /\ s \o new \in Seq(TopicType)
      /\ \A j \in DOMAIN (s \o new) : \/ \E i \in DOMAIN s : (s \o new)[j] = s[i]
                                      \/ \E i \in DOMAIN new : (s \o new)[j] = new[i]
  BY <1>3, ConcatIs
<1>5. NoneIsFallback(s \o new)
  BY <1>2, <1>3, <1>4 DEF NoneIsFallback
<1> QED
  BY <1>1, <1>4, <1>5

-------------------------------------------------------------------------------
(* The posts of the digest, and its topics. *)

LEMMA KeptInvNext == KeptInv /\ [ContentNext]_contentVars => KeptInv'
<1> SUFFICES ASSUME KeptInv, [ContentNext]_contentVars PROVE KeptInv'
  OBVIOUS
<1>1. date' = date /\ text' = text /\ mode' = mode
  BY DEF ContentNext, PrepareTexts, Translate, TextsReady, TranslationEnds, Translated, TranslationFails,
         Summarized, SummaryFails, Placed, PlacingFails, CoverageEnds, TranslateFallbackTheses,
         GrokRetry, FormatDigest, Accepted, RetryMessage, MessageFails, TakenLate, IsAttempt, posts, contentVars
<1>2. LimitPosts' = LimitPosts
  BY <1>1 DEF LimitPosts, Newer
<1>3. LimitPosts \subseteq Posts
  BY DEF LimitPosts
<1>4. \/ stage = "collected" /\ stage' # "collected" /\ kept' = LimitPosts
      \/ kept' = kept /\ stage # "collected" /\ stage' # "collected"
      \/ kept' = kept /\ stage' = stage /\ translations' = translations
  BY DEF ContentNext, PrepareTexts, Translate, TextsReady, TranslationEnds, Translated, TranslationFails,
         IsTranslating, AfterTranslation, IsFollowUpDue,
         Summarized, SummaryFails, Placed, PlacingFails, CoverageEnds, TranslateFallbackTheses,
         GrokRetry, FormatDigest, Accepted, RetryMessage, MessageFails, TakenLate, IsAttempt, posts, contentVars
<1> QED
  BY <1>1, <1>2, <1>3, <1>4 DEF KeptInv

Early == {"collected", "translating", "translated", "summarizing"}
Late == {"summarized", "theses", "formatting"}

LEMMA TopicsStay ==
  ASSUME TopicInv, UNCHANGED <<topics, kept, text>>,
         stage' \in Early => stage \in Early, stage' = "covering" => stage = "covering",
         stage' \in Late => stage \in Late \/ WithText = {}
  PROVE  TopicInv'
<1>1. WithText' = WithText /\ Covered(topics)' = Covered(topics)
  BY DEF WithText, Covered
<1>2. WithText = {} => EveryPostIsPlaced
  BY DEF EveryPostIsPlaced
<1>3. EveryPostIsPlaced' = EveryPostIsPlaced
  BY <1>1 DEF EveryPostIsPlaced
<1> QED
  BY <1>1, <1>2, <1>3 DEF TopicInv, Early, Late

LEMMA TopicInvNext == KeptInv /\ TopicInv /\ [ContentNext]_contentVars => TopicInv'
<1> SUFFICES ASSUME KeptInv, TopicInv, [ContentNext]_contentVars PROVE TopicInv'
  OBVIOUS
<1> USE DEF posts
<1>1. CASE PrepareTexts
  <2>1. topics = <<>> /\ topics' = <<>> /\ stage' \in {"translating", "translated"}
    BY <1>1 DEF PrepareTexts, Translate, TopicInv
  <2>2. topics' \in Seq(TopicType) /\ DOMAIN topics' = {}
    BY <2>1
  <2> QED
    BY <2>1, <2>2 DEF TopicInv
<1>2. CASE TextsReady
  <2>1. UNCHANGED <<topics, kept, text>> /\ stage = "translated"
        /\ stage' = IF WithText = {} THEN "summarized" ELSE "summarizing"
    BY <1>2 DEF TextsReady
  <2> QED
    BY <2>1, TopicsStay DEF Early, Late
<1>3. CASE TranslationEnds \/ TranslationFails
  <2>1. UNCHANGED <<topics, kept, text>> /\ IsTranslating /\ stage' = AfterTranslation
    BY <1>3 DEF TranslationEnds, TranslationFails
  <2> QED
    BY <2>1, TopicsStay DEF Early, Late, IsTranslating, AfterTranslation
<1>4. CASE \/ \E answer \in SUBSET Posts : Translated(answer)
           \/ PlacingFails \/ GrokRetry \/ UNCHANGED contentVars
           \/ \E request \in late : TakenLate(request)
  <2>1. UNCHANGED <<topics, kept, text, stage>>
    BY <1>4 DEF Translated, PlacingFails, GrokRetry, TakenLate, contentVars
  <2> QED
    BY <2>1, TopicsStay
<1>5. ASSUME NEW answer \in Answers, Summarized(answer) PROVE TopicInv'
  <2>1. topics' = DropUnknownRefs(answer) /\ stage' = "covering" /\ UNCHANGED <<kept, text>>
    BY <1>5 DEF Summarized
  <2>2. answer \in Seq(TopicType) /\ NoneIsFallback(answer)
    BY AnswersAre
  <2>3. /\ topics' \in Seq(TopicType)
        /\ \A k \in DOMAIN topics' : topics'[k].refs \subseteq WithText /\ topics'[k].refs # {}
        /\ NoneIsFallback(topics')
    BY <2>1, <2>2, DropIs DEF KeptInv
  <2>4. WithText' = WithText
    BY <2>1 DEF WithText
  <2> QED
    BY <2>1, <2>3, <2>4 DEF TopicInv, NoneIsFallback
<1>6. CASE SummaryFails
  <2>1. /\ topics' = Fallback(WithText) /\ stage' = "summarized" /\ UNCHANGED <<kept, text>>
        /\ WithText \in SUBSET Posts
    BY <1>6 DEF SummaryFails, KeptInv, WithText
  <2>2. /\ topics' \in Seq(TopicType)
        /\ \A k \in DOMAIN topics' : \E p \in WithText : topics'[k].refs = {p}
        /\ \A p \in WithText : \E k \in DOMAIN topics' : topics'[k].refs = {p}
    <3> DEFINE made == Fallback(WithText)
    <3>1. /\ made \in Seq(TopicType)
          /\ \A k \in DOMAIN made : \E p \in WithText : made[k].refs = {p}
          /\ \A p \in WithText : \E k \in DOMAIN made : made[k].refs = {p}
      BY <2>1, FallbackIs
    <3> HIDE DEF made
    <3>2. topics' = made
      BY <2>1 DEF made
    <3> QED
      BY <3>1, <3>2
  <2>3. WithText' = WithText
    BY <2>1 DEF WithText
  <2>4. EveryPostIsPlaced'
    BY <2>2, <2>3 DEF EveryPostIsPlaced, Covered
  <2>5. ASSUME NEW k \in DOMAIN topics'
        PROVE  /\ topics'[k].refs \subseteq WithText /\ topics'[k].refs # {}
               /\ \E p \in Posts : topics'[k].refs = {p}
    <3>1. PICK p \in WithText : topics'[k].refs = {p}
      BY <2>2
    <3> QED
      BY <2>1, <3>1
  <2> QED
    BY <2>1, <2>2, <2>3, <2>4, <2>5 DEF TopicInv
<1>7. ASSUME NEW number, NEW refs \in SUBSET Posts, NEW new \in NewTopics, Placed(number, refs, new)
      PROVE  TopicInv'
  <2>1. /\ topics' = DropUnknownRefs(Applied(number, refs, new)) /\ stage = "covering"
        /\ UNCHANGED <<stage, kept, text>>
    BY <1>7 DEF Placed, IsFollowUpDue
  <2>2. new \in Seq(TopicType) /\ NoneIsFallback(new)
    BY NewTopicsAre
  <2>3. topics \in Seq(TopicType) /\ NoneIsFallback(topics)
    BY <2>1 DEF TopicInv, NoneIsFallback
  <2>4. Applied(number, refs, new) \in Seq(TopicType) /\ NoneIsFallback(Applied(number, refs, new))
    BY <2>2, <2>3, AppliedIs
  <2>5. /\ topics' \in Seq(TopicType)
        /\ \A k \in DOMAIN topics' : topics'[k].refs \subseteq WithText /\ topics'[k].refs # {}
        /\ NoneIsFallback(topics')
    BY <2>1, <2>4, DropIs DEF KeptInv
  <2>6. WithText' = WithText
    BY <2>1 DEF WithText
  <2> QED
    BY <2>1, <2>5, <2>6 DEF TopicInv, NoneIsFallback
<1>8. CASE CoverageEnds
  <2> DEFINE more == Fallback(Missing(topics))
  <2>1. /\ topics' = topics \o more /\ stage' = "summarized" /\ UNCHANGED <<kept, text>>
        /\ stage = "covering"
    BY <1>8 DEF CoverageEnds
  <2>2. Missing(topics) \in SUBSET Posts /\ Missing(topics) \subseteq WithText
    BY DEF KeptInv, WithText, Missing
  <2>3. /\ more \in Seq(TopicType)
        /\ \A k \in DOMAIN more : \E p \in Missing(topics) : more[k].refs = {p}
        /\ \A p \in Missing(topics) : \E k \in DOMAIN more : more[k].refs = {p}
    BY <2>2, FallbackIs
  <2> HIDE DEF more
  <2>4. topics \in Seq(TopicType)
    BY DEF TopicInv
  <2>5. /\ topics' \in Seq(TopicType)
        /\ \A i \in DOMAIN topics : i \in DOMAIN topics' /\ topics'[i] = topics[i]
        /\ \A i \in DOMAIN more : \E j \in DOMAIN topics' : topics'[j] = more[i]
        /\ \A j \in DOMAIN topics' : \/ \E i \in DOMAIN topics : topics'[j] = topics[i]
                                     \/ \E i \in DOMAIN more : topics'[j] = more[i]
    <3> DEFINE all == topics \o more
    <3>1. /\ all \in Seq(TopicType)
          /\ \A i \in DOMAIN topics : i \in DOMAIN all /\ all[i] = topics[i]
          /\ \A i \in DOMAIN more : \E j \in DOMAIN all : all[j] = more[i]
          /\ \A j \in DOMAIN all : \/ \E i \in DOMAIN topics : all[j] = topics[i]
                                   \/ \E i \in DOMAIN more : all[j] = more[i]
      BY <2>3, <2>4, ConcatIs
    <3>2. topics' = all
      BY <2>1
    <3> HIDE DEF all
    <3> QED
      BY <3>1, <3>2
  <2>6. WithText' = WithText
    BY <2>1 DEF WithText
  <2>7. ASSUME NEW j \in DOMAIN topics'
        PROVE  /\ topics'[j].refs \subseteq WithText /\ topics'[j].refs # {}
               /\ topics'[j].isFallback => \E p \in Posts : topics'[j].refs = {p}
    <3>1. CASE \E i \in DOMAIN topics : topics'[j] = topics[i]
      BY <3>1 DEF TopicInv
    <3>2. CASE \E i \in DOMAIN more : topics'[j] = more[i]
      BY <2>2, <2>3, <3>2
    <3> QED
      BY <2>5, <3>1, <3>2
  <2>8. ASSUME NEW p \in WithText PROVE \E j \in DOMAIN topics' : p \in topics'[j].refs
    <3>1. CASE p \in Missing(topics)
      <4>1. PICK k \in DOMAIN more : more[k].refs = {p}
        BY <2>3, <3>1
      <4>2. PICK j \in DOMAIN topics' : topics'[j] = more[k]
        BY <2>5
      <4> QED
        BY <4>1, <4>2
    <3>2. CASE p \notin Missing(topics)
      <4>1. PICK i \in DOMAIN topics : p \in topics[i].refs
        BY <3>2 DEF Missing, Covered
      <4> QED
        BY <2>5, <4>1
    <3> QED
      BY <3>1, <3>2
  <2>9. EveryPostIsPlaced'
    BY <2>6, <2>8 DEF EveryPostIsPlaced, Covered
  <2> QED
    BY <2>1, <2>5, <2>6, <2>7, <2>9 DEF TopicInv
<1>9. CASE TranslateFallbackTheses
  <2>1. UNCHANGED <<topics, kept, text>> /\ stage = "summarized" /\ stage' \in {"theses", "formatting"}
    BY <1>9 DEF TranslateFallbackTheses, Translate
  <2> QED
    BY <2>1, TopicsStay DEF Early, Late
<1>10. CASE FormatDigest
  <2>1. UNCHANGED <<topics, kept, text>> /\ stage' = "sending"
    BY <1>10 DEF FormatDigest
  <2> QED
    BY <2>1, TopicsStay DEF Early, Late
<1>11. CASE Accepted \/ RetryMessage \/ MessageFails
  <2>1. UNCHANGED <<topics, kept, text>> /\ stage' \in {"sending", "delivered", "undelivered"}
    BY <1>11 DEF Accepted, RetryMessage, MessageFails, IsAttempt
  <2> QED
    BY <2>1, TopicsStay DEF Early, Late
<1> QED
  BY <1>1, <1>2, <1>3, <1>4, <1>5, <1>6, <1>7, <1>8, <1>9, <1>10, <1>11 DEF ContentNext

-------------------------------------------------------------------------------
(* Batches. *)

Disjoint(b) == \A i, j \in DOMAIN b : i # j => b[i] \cap b[j] = {}
IsBatched(b, p) == \E i \in DOMAIN b : p \in b[i]

\* One more post in the batches, in the last one or in a new one.
LEMMA AddIs ==
  ASSUME NEW done \in Seq(SUBSET Posts), NEW p \in Posts
  PROVE  /\ AddToBatch(done, p) \in Seq(SUBSET Posts)
         /\ \A q : IsBatched(AddToBatch(done, p), q) => q = p \/ IsBatched(done, q)
         /\ Disjoint(done) /\ ~IsBatched(done, p) => Disjoint(AddToBatch(done, p))
<1> DEFINE b == AddToBatch(done, p)
           n == Len(done)
<1>1. n \in Nat /\ DOMAIN done = 1 .. n /\ \A i \in 1 .. n : done[i] \in SUBSET Posts
  OBVIOUS
<1>2. \/ done # <<>> /\ b = [done EXCEPT ![n] = @ \cup {p}]
      \/ b = Append(done, {p})
  BY DEF AddToBatch
<1>3. CASE done # <<>> /\ b = [done EXCEPT ![n] = @ \cup {p}]
  <2>1. n \in 1 .. n
    BY <1>1, <1>3
  <2>2. /\ b \in Seq(SUBSET Posts) /\ DOMAIN b = 1 .. n
        /\ \A i \in 1 .. n : b[i] = IF i = n THEN done[n] \cup {p} ELSE done[i]
    <3>1. done[n] \cup {p} \in SUBSET Posts
      BY <1>1, <2>1
    <3> QED
      BY <1>1, <1>3, <2>1, <3>1
  <2> HIDE DEF b
  <2>3. ASSUME NEW q, IsBatched(b, q) PROVE q = p \/ IsBatched(done, q)
    BY <1>1, <2>2, <2>3 DEF IsBatched
  <2>4. ASSUME Disjoint(done), ~IsBatched(done, p) PROVE Disjoint(b)
    <3> SUFFICES ASSUME NEW i \in 1 .. n, NEW j \in 1 .. n, i # j PROVE b[i] \cap b[j] = {}
      BY <2>2 DEF Disjoint
    <3>1. done[i] \cap done[j] = {} /\ p \notin done[i] /\ p \notin done[j]
      BY <1>1, <2>4 DEF Disjoint, IsBatched
    <3> QED
      BY <2>2, <3>1
  <2> QED
    BY <2>2, <2>3, <2>4 DEF b
<1>4. CASE b = Append(done, {p})
  <2>1. /\ b \in Seq(SUBSET Posts) /\ DOMAIN b = 1 .. (n + 1)
        /\ \A i \in 1 .. n : b[i] = done[i]
        /\ b[n + 1] = {p}
    BY <1>1, <1>4
  <2> HIDE DEF b
  <2>2. ASSUME NEW q, IsBatched(b, q) PROVE q = p \/ IsBatched(done, q)
    <3>1. PICK i \in 1 .. (n + 1) : q \in b[i]
      BY <2>1, <2>2 DEF IsBatched
    <3>2. i \in 1 .. n \/ i = n + 1
      BY <1>1
    <3> QED
      BY <1>1, <2>1, <3>1, <3>2 DEF IsBatched
  <2>3. ASSUME Disjoint(done), ~IsBatched(done, p) PROVE Disjoint(b)
    <3> SUFFICES ASSUME NEW i \in 1 .. (n + 1), NEW j \in 1 .. (n + 1), i # j
                 PROVE  b[i] \cap b[j] = {}
      BY <2>1 DEF Disjoint
    <3>1. \A k \in 1 .. n : p \notin done[k]
      BY <1>1, <2>3 DEF IsBatched
    <3>2. \A k, l \in 1 .. n : k # l => done[k] \cap done[l] = {}
      BY <1>1, <2>3 DEF Disjoint
    <3>3. (i \in 1 .. n \/ i = n + 1) /\ (j \in 1 .. n \/ j = n + 1)
      BY <1>1
    <3> QED
      BY <2>1, <3>1, <3>2, <3>3
  <2> QED
    BY <2>1, <2>2, <2>3 DEF b
<1> QED
  BY <1>2, <1>3, <1>4

LEMMA LeastNat ==
  ASSUME NEW T, T \subseteq Nat, T # {}
  PROVE  \E x \in T : \A y \in T : x <= y
<1> DEFINE R == OpToRel(<, Nat)
<1>1. PICK x \in T : \A y \in T : ~(<<y, x>> \in R)
  <2>1. IsWellFoundedOn(R, Nat)
    BY NatLessThanWellFounded
  <2> HIDE DEF R
  <2> QED
    BY <2>1, WFMin
<1>2. ASSUME NEW y \in T PROVE x <= y
  <2>1. x \in Nat /\ y \in Nat
    OBVIOUS
  <2>2. ~(<<y, x>> \in R)
    BY <1>1
  <2>3. ~(y < x)
    BY <2>1, <2>2 DEF OpToRel
  <2> QED
    BY <2>1, <2>3
<1> QED
  BY <1>2

\* The batches of the first posts, one post after the other.
IsBatching(items, n, f) ==
  /\ f = [i \in 0 .. n |-> f[i]] /\ f[0] = <<>>
  /\ \A i \in 1 .. n : f[i] = AddToBatch(f[i - 1], items[i])

LEMMA BatchingExists ==
  ASSUME NEW items \in Seq(Posts)
  PROVE  \E f : IsBatching(items, Len(items), f)
<1> DEFINE N == Len(items)
           T == {n \in 0 .. N : ~\E f : IsBatching(items, n, f)}
<1>1. N \in Nat
  OBVIOUS
<1> HIDE DEF N
<1>2. ASSUME T # {} PROVE FALSE
  <2>1. T \subseteq Nat
    OBVIOUS
  <2>2. PICK m \in T : \A y \in T : m <= y
    <3> HIDE DEF T
    <3> QED
      BY <1>2, <2>1, LeastNat
  <2>3. m # 0
    <3> DEFINE f == [i \in 0 .. 0 |-> <<>>]
    <3>1. f = [i \in 0 .. 0 |-> f[i]] /\ f[0] = <<>>
      OBVIOUS
    <3>2. IsBatching(items, 0, f)
      BY <3>1 DEF IsBatching
    <3> HIDE DEF f
    <3> QED
      BY <3>2
  <2>4. m - 1 \in 0 .. N /\ m \in 1 .. N /\ m - 1 \notin T
    <3>1. m \in 0 .. N
      BY <2>2
    <3>2. m - 1 \in 0 .. N /\ m \in 1 .. N /\ ~(m <= m - 1)
      BY <1>1, <2>3, <3>1
    <3> HIDE DEF T
    <3> QED
      BY <2>2, <3>2
  <2>5. PICK f : IsBatching(items, m - 1, f)
    BY <2>4
  <2> DEFINE next == AddToBatch(f[m - 1], items[m])
             g == [i \in 0 .. m |-> IF i = m THEN next ELSE f[i]]
  <2> HIDE DEF next
  <2>6. /\ g = [i \in 0 .. m |-> g[i]] /\ g[m] = next
        /\ \A i \in 0 .. (m - 1) : g[i] = f[i]
    BY <1>1, <2>4
  <2> HIDE DEF g
  <2>7. g[0] = <<>>
    <3>1. f[0] = <<>>
      BY <2>5 DEF IsBatching
    <3>2. 0 \in 0 .. (m - 1)
      BY <1>1, <2>4
    <3> QED
      BY <2>6, <3>1, <3>2
  <2>8. ASSUME NEW i \in 1 .. m PROVE g[i] = AddToBatch(g[i - 1], items[i])
    <3>1. CASE i = m
      <4>1. m - 1 \in 0 .. (m - 1)
        BY <1>1, <2>4
      <4> QED
        BY <2>6, <3>1, <4>1 DEF next
    <3>2. CASE i # m
      <4>1. i \in 1 .. (m - 1) /\ i \in 0 .. (m - 1) /\ i - 1 \in 0 .. (m - 1)
        BY <1>1, <2>4, <3>2
      <4> QED
        BY <2>5, <2>6, <4>1 DEF IsBatching
    <3> QED
      BY <3>1, <3>2
  <2>9. IsBatching(items, m, g)
    BY <2>6, <2>7, <2>8 DEF IsBatching
  <2> QED
    BY <2>2, <2>9
<1>3. N \in 0 .. N
  BY <1>1
<1> QED
  BY <1>2, <1>3 DEF N

\* Every post in one batch.
LEMMA BatchesAre ==
  ASSUME NEW items \in Seq(Posts),
         \A k, l \in 1 .. Len(items) : items[k] = items[l] => k = l
  PROVE  /\ BatchBySize(items) \in Seq(SUBSET Posts) /\ Disjoint(BatchBySize(items))
         /\ \A p : IsBatched(BatchBySize(items), p) => \E k \in 1 .. Len(items) : items[k] = p
<1> DEFINE N == Len(items)
           Step(f) == [n \in 0 .. N |-> IF n = 0 THEN <<>> ELSE AddToBatch(f[n - 1], items[n])]
           c == CHOOSE f : f = Step(f)
<1>1. N \in Nat /\ \A k \in 1 .. N : items[k] \in Posts
  OBVIOUS
<1>2. BatchBySize(items) = c[N]
  BY DEF BatchBySize
<1>3. \E f : f = Step(f)
  <2>1. PICK f : IsBatching(items, N, f)
    BY BatchingExists
  <2>2. \A n \in 0 .. N : f[n] = Step(f)[n]
    <3> SUFFICES ASSUME NEW n \in 0 .. N
                 PROVE  f[n] = IF n = 0 THEN <<>> ELSE AddToBatch(f[n - 1], items[n])
      OBVIOUS
    <3>1. CASE n = 0
      BY <2>1, <3>1 DEF IsBatching
    <3>2. CASE n # 0
      <4>1. n \in 1 .. N
        BY <1>1, <3>2
      <4> QED
        BY <2>1, <3>2, <4>1 DEF IsBatching
    <3> QED
      BY <3>1, <3>2
  <2>3. f = [n \in 0 .. N |-> f[n]]
    BY <2>1 DEF IsBatching
  <2> QED
    BY <2>2, <2>3
<1>4. c = Step(c)
  <2> HIDE DEF Step
  <2> QED
    BY <1>3
<1> HIDE DEF c
<1>5. c[0] = <<>> /\ \A n \in 1 .. N : c[n] = AddToBatch(c[n - 1], items[n])
  BY <1>1, <1>4
<1> HIDE DEF Step, N
<1> DEFINE Good(n) == /\ c[n] \in Seq(SUBSET Posts) /\ Disjoint(c[n])
                      /\ \A p : IsBatched(c[n], p) => \E k \in 1 .. n : items[k] = p
           T == {n \in 0 .. N : ~Good(n)}
<1>6. ASSUME T # {} PROVE FALSE
  <2>1. T \subseteq Nat
    OBVIOUS
  <2>2. PICK m \in T : \A y \in T : m <= y
    <3> HIDE DEF T
    <3> QED
      BY <1>6, <2>1, LeastNat
  <2>3. m # 0
    <3>1. <<>> \in Seq(SUBSET Posts) /\ Disjoint(<<>>) /\ \A p : ~IsBatched(<<>>, p)
      BY DEF Disjoint, IsBatched
    <3> QED
      BY <1>5, <3>1
  <2>4. m - 1 \in 0 .. N /\ m \in 1 .. N /\ m - 1 \notin T
    <3>1. m \in 0 .. N
      BY <2>2
    <3>2. m - 1 \in 0 .. N /\ m \in 1 .. N /\ ~(m <= m - 1)
      BY <1>1, <2>3, <3>1
    <3> HIDE DEF T
    <3> QED
      BY <2>2, <3>2
  <2>5. Good(m - 1)
    BY <2>4
  <2> DEFINE done == c[m - 1]
             p == items[m]
  <2>6. c[m] = AddToBatch(done, p) /\ p \in Posts
    BY <1>1, <1>5, <2>4
  <2>7. done \in Seq(SUBSET Posts) /\ Disjoint(done)
        /\ \A q : IsBatched(done, q) => \E k \in 1 .. (m - 1) : items[k] = q
    BY <2>5
  <2>8. ~IsBatched(done, p)
    <3>1. ASSUME NEW k \in 1 .. (m - 1) PROVE items[k] # p
      <4>1. k \in 1 .. N /\ k # m /\ m \in 1 .. N
        BY <1>1, <2>4
      <4> QED
        BY <4>1 DEF N
    <3> QED
      BY <2>7, <3>1
  <2> HIDE DEF done, p
  <2>9. /\ c[m] \in Seq(SUBSET Posts) /\ Disjoint(c[m])
        /\ \A q : IsBatched(c[m], q) => q = p \/ IsBatched(done, q)
    BY <2>6, <2>7, <2>8, AddIs
  <2>10. ASSUME NEW q, IsBatched(c[m], q) PROVE \E k \in 1 .. m : items[k] = q
    <3>1. CASE q = p
      <4>1. m \in 1 .. m
        BY <1>1, <2>4
      <4> QED
        BY <3>1, <4>1 DEF p
    <3>2. CASE IsBatched(done, q)
      <4>1. PICK k \in 1 .. (m - 1) : items[k] = q
        BY <2>7, <3>2
      <4>2. k \in 1 .. m
        BY <1>1, <2>4
      <4> QED
        BY <4>1, <4>2
    <3> QED
      BY <2>9, <2>10, <3>1, <3>2
  <2> QED
    BY <2>2, <2>9, <2>10
<1>7. Good(N)
  <2>1. N \in 0 .. N
    BY <1>1
  <2> HIDE DEF Good
  <2> QED
    BY <1>6, <2>1
<1> QED
  BY <1>2, <1>7 DEF N

-------------------------------------------------------------------------------
(* The count of texts that stayed as they were. *)

LEMMA ItemsAre ==
  ASSUME KeptInv, TopicInv
  PROVE  /\ Items \in SUBSET Posts
         /\ \A S : IsFiniteSet(Items \ S) /\ Cardinality(Items \ S) \in Nat
<1>1. WithText \subseteq Posts
  BY DEF KeptInv, WithText
<1>2. FallbackPosts(topics) \subseteq Posts
  BY <1>1 DEF TopicInv, FallbackPosts
<1>3. Items \in SUBSET Posts
  BY <1>1, <1>2 DEF Items
<1>4. ASSUME NEW S PROVE IsFiniteSet(Items \ S) /\ Cardinality(Items \ S) \in Nat
  <2>1. Items \ S \in SUBSET Posts
    BY <1>3
  <2> QED
    BY <2>1, PostsAre
<1> QED
  BY <1>3, <1>4

\* What a translation begins with (translation.service.ts:87).
LEMMA TranslateIs ==
  ASSUME NEW items \in SUBSET Posts, NEW state, Translate(items, state)
  PROVE  /\ stage' = state /\ untranslated' = Cardinality(items)
         /\ batches' \in Seq(SUBSET Posts) /\ Disjoint(batches')
         /\ \A i \in DOMAIN batches' : batches'[i] \subseteq items
<1> DEFINE s == InOrder(items)
<1>1. /\ s \in Seq(items) /\ Len(s) \in Nat
      /\ \A k, l \in 1 .. Len(s) : s[k] = s[l] => k = l
  <2>1. IsFiniteSet(items) /\ items \subseteq Int
    BY PostsAre
  <2> QED
    BY <2>1, InOrderIs
<1>2. batches' = BatchBySize(s) /\ stage' = state /\ untranslated' = Cardinality(items)
  BY DEF Translate
<1> HIDE DEF s
<1>3. s \in Seq(Posts) /\ \A k \in 1 .. Len(s) : s[k] \in items
  BY <1>1
<1>4. /\ batches' \in Seq(SUBSET Posts) /\ Disjoint(batches')
      /\ \A p : IsBatched(batches', p) => \E k \in 1 .. Len(s) : s[k] = p
  <2> DEFINE b == BatchBySize(s)
  <2>1. /\ b \in Seq(SUBSET Posts) /\ Disjoint(b)
        /\ \A p : IsBatched(b, p) => \E k \in 1 .. Len(s) : s[k] = p
    BY <1>1, <1>3, BatchesAre
  <2> HIDE DEF b
  <2>2. batches' = b
    BY <1>2 DEF b
  <2> QED
    BY <2>1, <2>2
<1>5. \A i \in DOMAIN batches' : batches'[i] \subseteq items
  BY <1>3, <1>4 DEF IsBatched
<1> QED
  BY <1>2, <1>4, <1>5

LEMMA GapsStay ==
  ASSUME GapInv, UNCHANGED <<kept, text, mode, translations, untranslated>>,
         ~IsTranslating', stage # "collected",
         IsSent => IsSent',
         stage' = "formatting" => topics' = topics /\ (stage = "theses" \/ stage = "formatting" \/ mode = "on"),
         mode = "off" /\ ~IsSent' /\ stage' # "formatting" => stage \notin {"theses", "formatting"}
  PROVE  GapInv'
<1>1. WithText' = WithText
  BY DEF WithText
<1>2. ASSUME mode = "on" PROVE Items' = Items
  BY <1>1, <1>2 DEF Items
<1>3. ASSUME topics' = topics PROVE Items' = Items
  BY <1>1, <1>3 DEF Items, FallbackPosts
<1>4. stage' \notin {"translating", "theses"}
  BY DEF IsTranslating
<1>5. (mode = "off" /\ stage \notin {"theses", "formatting"} /\ ~IsSent => translations = {})'
  BY <1>4 DEF GapInv
<1>6. ((mode = "on" /\ stage # "collected") \/ stage \in {"theses", "formatting"}
          => untranslated = Cardinality(Items \ translations))'
  <2>1. CASE mode = "on"
    BY <1>2, <2>1 DEF GapInv
  <2>2. CASE mode # "on" /\ stage' = "formatting"
    BY <1>3, <2>2 DEF GapInv
  <2> QED
    BY <1>4, <2>1, <2>2
<1> QED
  BY <1>4, <1>5, <1>6 DEF GapInv

\* An answer takes its posts out of the batches and into the translations.
LEMMA TranslatedKeeps ==
  ASSUME KeptInv, TopicInv, GapInv, NEW answer \in SUBSET Posts, Translated(answer)
  PROVE  GapInv'
<1> DEFINE head == batches[1]
           got == head \cap answer
           pending == head \ answer
           n == Len(batches)
<1>1. /\ IsTranslating /\ batches # <<>> /\ UNCHANGED <<stage, kept, text, mode, topics>>
      /\ translations' = translations \cup got /\ untranslated' = untranslated - Cardinality(got)
      /\ batches' = Tail(batches) \/ batches' = <<pending>> \o Tail(batches)
  BY DEF Translated, posts
<1>2. /\ batches \in Seq(SUBSET Posts) /\ n \in Nat /\ 1 \in 1 .. n /\ DOMAIN batches = 1 .. n
      /\ \A i \in 1 .. n : batches[i] \in SUBSET Posts /\ batches[i] \subseteq Items \ translations
      /\ \A i, j \in 1 .. n : i # j => batches[i] \cap batches[j] = {}
  <2>1. BatchInv
    BY <1>1 DEF GapInv
  <2> QED
    BY <1>1, <2>1 DEF BatchInv
<1>3. Items' = Items
  BY <1>1 DEF Items, WithText, FallbackPosts
<1>4. got \subseteq Items \ translations /\ pending \subseteq (Items \ translations) \ got
  BY <1>2
<1>5. /\ Tail(batches) \in Seq(SUBSET Posts) /\ Len(Tail(batches)) = n - 1
      /\ \A i \in 1 .. (n - 1) : Tail(batches)[i] = batches[i + 1] /\ i + 1 \in 1 .. n /\ i + 1 # 1
  BY <1>1, <1>2, HeadTailProperties
<1>6. \A i \in 1 .. (n - 1) : /\ batches[i + 1] \subseteq (Items \ translations) \ got
                              /\ batches[i + 1] \cap head = {}
  BY <1>2, <1>5
<1>7. \A i, j \in 1 .. (n - 1) : i # j => batches[i + 1] \cap batches[j + 1] = {}
  <2> SUFFICES ASSUME NEW i \in 1 .. (n - 1), NEW j \in 1 .. (n - 1), i # j
               PROVE  batches[i + 1] \cap batches[j + 1] = {}
    OBVIOUS
  <2>1. i + 1 \in 1 .. n /\ j + 1 \in 1 .. n /\ i + 1 # j + 1
    BY <1>2
  <2> QED
    BY <1>2, <2>1
<1>8. pending \in SUBSET Posts /\ pending \subseteq head
  BY <1>2
<1>9. untranslated' = Cardinality(Items' \ translations')
  <2>1. untranslated = Cardinality(Items \ translations)
    BY <1>1 DEF GapInv, IsTranslating
  <2>2. Items' \ translations' = (Items \ translations) \ got /\ (Items \ translations) \cap got = got
    BY <1>1, <1>3, <1>4
  <2>3. IsFiniteSet(Items \ translations)
    BY ItemsAre
  <2> HIDE DEF got
  <2>4. Cardinality((Items \ translations) \ got)
          = Cardinality(Items \ translations) - Cardinality((Items \ translations) \cap got)
    BY <2>3, FS_Difference
  <2>5. Cardinality(Items' \ translations') = untranslated - Cardinality(got)
    BY <2>1, <2>2, <2>4
  <2> QED
    BY <1>1, <2>5
<1>10. Items' \ translations' = (Items \ translations) \ got
  BY <1>1, <1>3
<1> HIDE DEF got, head, pending, n
<1>11. BatchInv'
  <2>1. CASE batches' = Tail(batches)
    <3>1. batches' \in Seq(SUBSET Posts) /\ DOMAIN batches' = 1 .. (n - 1)
      BY <1>2, <1>5, <2>1
    <3>2. \A i \in 1 .. (n - 1) : batches'[i] = batches[i + 1]
      BY <1>5, <2>1
    <3> QED
      BY <1>6, <1>7, <1>10, <3>1, <3>2 DEF BatchInv
  <2>2. CASE batches' = <<pending>> \o Tail(batches)
    <3> DEFINE tail == Tail(batches)
               b == <<pending>> \o tail
    <3>1. tail \in Seq(SUBSET Posts) /\ Len(tail) = n - 1 /\ <<pending>> \in Seq(SUBSET Posts)
      BY <1>5, <1>8
    <3> HIDE DEF tail
    <3>2. /\ b \in Seq(SUBSET Posts) /\ DOMAIN b = 1 .. n /\ b[1] = pending
          /\ \A i \in 1 .. (n - 1) : b[i + 1] = tail[i]
      BY <1>2, <3>1
    <3>3. \A i \in 1 .. (n - 1) : b[i + 1] = batches[i + 1]
      BY <1>5, <3>2 DEF tail
    <3> HIDE DEF b
    <3>4. \A i \in 1 .. n : i # 1 => b[i] = batches[i]
      <4> SUFFICES ASSUME NEW i \in 1 .. n, i # 1 PROVE b[i] = batches[i]
        OBVIOUS
      <4>1. i - 1 \in 1 .. (n - 1) /\ (i - 1) + 1 = i
        BY <1>2
      <4> QED
        BY <3>3, <4>1
    <3>5. \A i \in 1 .. n : b[i] \subseteq batches[i]
      BY <1>8, <3>2, <3>4 DEF head
    <3>6. \A i \in 1 .. n : b[i] \subseteq (Items \ translations) \ got
      <4> SUFFICES ASSUME NEW i \in 1 .. n PROVE b[i] \subseteq (Items \ translations) \ got
        OBVIOUS
      <4>1. CASE i = 1
        BY <1>4, <3>2, <4>1
      <4>2. CASE i # 1
        <5>1. i - 1 \in 1 .. (n - 1) /\ (i - 1) + 1 = i
          BY <1>2, <4>2
        <5> QED
          BY <1>6, <3>3, <5>1
      <4> QED
        BY <4>1, <4>2
    <3>7. \A i, j \in 1 .. n : i # j => b[i] \cap b[j] = {}
      <4> SUFFICES ASSUME NEW i \in 1 .. n, NEW j \in 1 .. n, i # j PROVE b[i] \cap b[j] = {}
        OBVIOUS
      <4>1. batches[i] \cap batches[j] = {} /\ b[i] \subseteq batches[i] /\ b[j] \subseteq batches[j]
        BY <1>2, <3>5
      <4> QED
        BY <4>1
    <3>8. batches' = b
      BY <2>2 DEF b, tail
    <3> QED
      BY <1>10, <3>2, <3>6, <3>7, <3>8 DEF BatchInv
  <2> QED
    BY <1>1, <2>1, <2>2
<1> QED
  BY <1>1, <1>9, <1>11 DEF GapInv, IsTranslating, IsSent

LEMMA GapInvNext == KeptInv /\ KeptInv' /\ TopicInv /\ GapInv /\ [ContentNext]_contentVars => GapInv'
<1> SUFFICES ASSUME KeptInv, KeptInv', TopicInv, GapInv, [ContentNext]_contentVars PROVE GapInv'
  OBVIOUS
<1> USE DEF posts
<1>1. CASE PrepareTexts
  <2>1. /\ stage = "collected" /\ UNCHANGED <<mode, text, translations>> /\ translations = {}
        /\ WithText' = kept' \cap text
    BY <1>1 DEF PrepareTexts, KeptInv, WithText
  <2>2. CASE mode = "on" /\ Translate(kept' \cap text, "translating")
    <3>1. kept' \cap text \in SUBSET Posts /\ Items' = kept' \cap text
      BY <2>1, <2>2 DEF KeptInv, Items
    <3>2. /\ stage' = "translating" /\ untranslated' = Cardinality(Items')
          /\ batches' \in Seq(SUBSET Posts) /\ Disjoint(batches')
          /\ \A i \in DOMAIN batches' : batches'[i] \subseteq Items'
      BY <2>2, <3>1, TranslateIs
    <3>3. Items' \ translations' = Items'
      BY <2>1
    <3>4. BatchInv'
      BY <3>2, <3>3 DEF BatchInv, Disjoint
    <3> QED
      BY <2>1, <2>2, <3>2, <3>3, <3>4 DEF GapInv
  <2>3. CASE mode = "off" /\ stage' = "translated"
    BY <2>1, <2>3 DEF GapInv, IsTranslating, IsSent
  <2> QED
    BY <1>1, <2>2, <2>3 DEF PrepareTexts
<1>2. CASE TextsReady
  <2>1. /\ UNCHANGED <<kept, text, mode, translations, untranslated>>
        /\ stage = "translated" /\ stage' \in {"summarized", "summarizing"}
    BY <1>2 DEF TextsReady
  <2> QED
    BY <2>1, GapsStay DEF IsTranslating, IsSent
<1>3. CASE TranslationEnds \/ TranslationFails
  <2>1. /\ UNCHANGED <<kept, text, mode, translations, untranslated, topics>>
        /\ IsTranslating /\ stage' = AfterTranslation
    BY <1>3 DEF TranslationEnds, TranslationFails
  <2>2. stage = "translating" => mode = "on"
    BY DEF GapInv
  <2> QED
    BY <2>1, <2>2, GapsStay DEF IsTranslating, IsSent, AfterTranslation
<1>4. ASSUME NEW answer \in SUBSET Posts, Translated(answer) PROVE GapInv'
  BY <1>4, TranslatedKeeps
<1>5. CASE \/ \E answer \in Answers : Summarized(answer)
           \/ SummaryFails \/ PlacingFails \/ CoverageEnds
           \/ \E number \in 0 .. Len(topics), refs \in SUBSET Posts, new \in NewTopics :
                Placed(number, refs, new)
  <2>1. /\ UNCHANGED <<kept, text, mode, translations, untranslated>>
        /\ stage \in {"summarizing", "covering"} /\ stage' \in {"covering", "summarized"}
    BY <1>5 DEF Summarized, SummaryFails, Placed, PlacingFails, CoverageEnds, IsFollowUpDue
  <2> QED
    BY <2>1, GapsStay DEF IsTranslating, IsSent
<1>6. CASE TranslateFallbackTheses
  <2>1. UNCHANGED <<kept, text, mode, translations, topics>> /\ stage = "summarized"
    BY <1>6 DEF TranslateFallbackTheses
  <2>2. CASE mode = "on" /\ stage' = "formatting" /\ UNCHANGED <<batches, untranslated>>
    BY <2>1, <2>2, GapsStay DEF IsTranslating, IsSent
  <2>3. CASE mode = "off" /\ Translate(FallbackPosts(topics), "theses")
    <3>1. Items' = Items /\ Items = FallbackPosts(topics) /\ translations = {}
      BY <2>1, <2>3 DEF Items, WithText, FallbackPosts, GapInv, IsSent
    <3>2. FallbackPosts(topics) \in SUBSET Posts
      BY <3>1, ItemsAre
    <3>3. /\ stage' = "theses" /\ untranslated' = Cardinality(Items')
          /\ batches' \in Seq(SUBSET Posts) /\ Disjoint(batches')
          /\ \A i \in DOMAIN batches' : batches'[i] \subseteq Items'
      BY <2>3, <3>1, <3>2, TranslateIs
    <3>4. Items' \ translations' = Items'
      BY <2>1, <3>1
    <3>5. BatchInv'
      BY <3>3, <3>4 DEF BatchInv, Disjoint
    <3> QED
      BY <2>1, <2>3, <3>3, <3>4, <3>5 DEF GapInv
  <2> QED
    BY <1>6, <2>2, <2>3 DEF TranslateFallbackTheses
<1>7. CASE GrokRetry \/ UNCHANGED contentVars \/ \E request \in late : TakenLate(request)
  <2>1. UNCHANGED <<kept, text, mode, translations, untranslated, topics, stage, batches>>
    BY <1>7 DEF GrokRetry, TakenLate, contentVars
  <2>2. Items' = Items /\ IsTranslating' = IsTranslating /\ IsSent' = IsSent
    BY <2>1 DEF Items, WithText, FallbackPosts, IsTranslating, IsSent
  <2>3. BatchInv' = BatchInv
    BY <2>1, <2>2 DEF BatchInv
  <2> QED
    BY <2>1, <2>2, <2>3 DEF GapInv
<1>8. CASE FormatDigest \/ Accepted \/ RetryMessage \/ MessageFails
  <2>1. /\ UNCHANGED <<kept, text, mode, translations, untranslated, topics>>
        /\ stage \in {"formatting", "sending"} /\ stage' \in {"sending", "delivered", "undelivered"}
    BY <1>8 DEF FormatDigest, Accepted, RetryMessage, MessageFails, IsAttempt
  <2> QED
    BY <2>1, GapsStay DEF IsTranslating, IsSent
<1> QED
  BY <1>1, <1>2, <1>3, <1>4, <1>5, <1>6, <1>7, <1>8 DEF ContentNext

-------------------------------------------------------------------------------
(* What the chat gets. *)

LEMMA PaceInvNext == PaceInv /\ [ContentNext]_contentVars => PaceInv'
<1> SUFFICES ASSUME PaceInv, [ContentNext]_contentVars PROVE PaceInv'
  OBVIOUS
<1> USE DEF posts, outbox
<1>1. CASE \/ PrepareTexts \/ TextsReady \/ TranslationEnds \/ TranslationFails
           \/ TranslateFallbackTheses \/ FormatDigest
  <2>1. round' = round \/ round' = 0
    BY <1>1 DEF PrepareTexts, TextsReady, TranslationEnds, TranslationFails,
         TranslateFallbackTheses, FormatDigest
  <2>2. /\ stage' # "covering"
        /\ \/ stage' \in {"collected", "translated", "summarizing", "summarized", "formatting"}
                => round' = 0 /\ attempt' = 0
           \/ UNCHANGED <<round, attempt>>
                /\ stage \in {"collected", "translated", "summarized", "formatting"}
        /\ attempt' = attempt \/ attempt' = 0
    BY <1>1 DEF PrepareTexts, Translate, TextsReady, TranslationEnds, TranslationFails,
         TranslateFallbackTheses, FormatDigest, IsTranslating, AfterTranslation
  <2> QED
    BY <2>1, <2>2 DEF PaceInv
<1>2. ASSUME NEW answer \in SUBSET Posts, Translated(answer) PROVE PaceInv'
  <2>1. stage \in {"translating", "theses"} /\ stage' = stage /\ attempt' = 0
        /\ (round' = 0 \/ round' = round + 1)
    BY <1>2 DEF Translated, IsTranslating
  <2> QED
    BY <2>1 DEF PaceInv
<1>3. ASSUME NEW answer \in Answers, Summarized(answer) PROVE PaceInv'
  BY <1>3 DEF Summarized, PaceInv
<1>4. CASE SummaryFails
  BY <1>4 DEF SummaryFails, PaceInv
<1>5. CASE \/ PlacingFails
           \/ \E number \in 0 .. Len(topics), refs \in SUBSET Posts, new \in NewTopics :
                Placed(number, refs, new)
  <2>1. stage = "covering" /\ stage' = stage /\ attempt' = 0 /\ round' = round + 1
    BY <1>5 DEF PlacingFails, Placed, IsFollowUpDue
  <2> QED
    BY <2>1 DEF PaceInv
<1>6. CASE CoverageEnds
  BY <1>6 DEF CoverageEnds, PaceInv
<1>7. CASE GrokRetry
  <2>1. /\ UNCHANGED <<stage, round, topics, kept, text>> /\ attempt' = attempt + 1
        /\ stage \in {"translating", "theses", "summarizing"} \/ IsFollowUpDue
    BY <1>7 DEF GrokRetry, IsTranslating
  <2>2. IsFollowUpDue => stage = "covering"
    BY DEF IsFollowUpDue
  <2>3. IsFollowUpDue' = IsFollowUpDue
    BY <2>1 DEF IsFollowUpDue, Missing, WithText, Covered
  <2> QED
    BY <2>1, <2>2, <2>3 DEF PaceInv
<1>8. CASE Accepted \/ RetryMessage \/ MessageFails
  <2>1. /\ stage' \in {"sending", "delivered", "undelivered"}
        /\ round' \in {round, round + 1} /\ attempt' \in {0, attempt, attempt + 1}
    BY <1>8 DEF Accepted, RetryMessage, MessageFails, IsAttempt, NextMessage
  <2> QED
    BY <2>1 DEF PaceInv
<1>9. CASE UNCHANGED contentVars \/ \E request \in late : TakenLate(request)
  <2>1. UNCHANGED <<stage, round, attempt, topics, kept, text>>
    BY <1>9 DEF TakenLate, contentVars
  <2>2. IsFollowUpDue' = IsFollowUpDue
    BY <2>1 DEF IsFollowUpDue, Missing, WithText, Covered
  <2> QED
    BY <2>1, <2>2 DEF PaceInv
<1> QED
  BY <1>1, <1>2, <1>3, <1>4, <1>5, <1>6, <1>7, <1>8, <1>9 DEF ContentNext

LEMMA ContentPhaseIs ==
  /\ ~IsSent => ContentPhase = "making" /\ ContentSent = 0
  /\ IsSent => ContentSent = round
  /\ stage = "sending" => ContentPhase = "sending"
  /\ stage = "delivered" => ContentPhase = "delivered"
  /\ stage = "undelivered" => ContentPhase = "stopped"
  BY DEF IsSent, ContentPhase, ContentSent

LEMMA CountsAre ==
  ASSUME NEW c \in Seq(Nat), NEW l, IsFiniteSet(l), NEW m
  PROVE  /\ TakenIn(c, m) \in Nat /\ (m \notin ToSet(c) => TakenIn(c, m) = 0)
         /\ PendingIn(l, m) \in Nat /\ ((\A r \in l : r[1] # m) => PendingIn(l, m) = 0)
<1> DEFINE where == {i \in DOMAIN c : c[i] = m}
           open == {r \in l : r[1] = m}
<1>1. IsFiniteSet(DOMAIN c)
  <2>1. DOMAIN c = 1 .. Len(c) /\ 1 \in Int /\ Len(c) \in Int
    OBVIOUS
  <2> QED
    BY <2>1, FS_Interval
<1>2. where \in SUBSET DOMAIN c /\ open \in SUBSET l
  OBVIOUS
<1>3. m \notin ToSet(c) => where = {}
  BY DEF ToSet
<1>4. (\A r \in l : r[1] # m) => open = {}
  OBVIOUS
<1>5. TakenIn(c, m) = Cardinality(where) /\ PendingIn(l, m) = Cardinality(open)
  BY DEF TakenIn, PendingIn
<1> HIDE DEF where, open
<1>6. IsFiniteSet(where) /\ Cardinality(where) \in Nat
  BY <1>1, <1>2, FS_Subset, FS_CardinalityType
<1>7. IsFiniteSet(open) /\ Cardinality(open) \in Nat
  BY <1>2, FS_Subset, FS_CardinalityType
<1> QED
  BY <1>3, <1>4, <1>5, <1>6, <1>7, FS_EmptySet

\* One more message at the end of the chat.
LEMMA AppendedIs ==
  ASSUME NEW c \in Seq(Nat), NEW m \in Nat
  PROVE  /\ Append(c, m) \in Seq(Nat) /\ ToSet(Append(c, m)) = ToSet(c) \cup {m}
         /\ TakenIn(Append(c, m), m) = TakenIn(c, m) + 1
         /\ \A x : x # m => TakenIn(Append(c, m), x) = TakenIn(c, x)
<1> DEFINE n == Len(c)
           d == Append(c, m)
<1>1. /\ d \in Seq(Nat) /\ n \in Nat /\ Len(d) = n + 1
      /\ DOMAIN c = 1 .. n /\ DOMAIN d = 1 .. (n + 1)
      /\ \A i \in 1 .. n : d[i] = c[i]
      /\ d[n + 1] = m
  OBVIOUS
<1> HIDE DEF n, d
<1>2. \A i \in DOMAIN d : i \in 1 .. n \/ i = n + 1
  BY <1>1
<1>3. n + 1 \in DOMAIN d /\ n + 1 \notin 1 .. n /\ \A i \in 1 .. n : i \in DOMAIN d
  BY <1>1
<1>4. ToSet(d) = ToSet(c) \cup {m}
  BY <1>1, <1>2, <1>3 DEF ToSet
<1>5. TakenIn(d, m) = TakenIn(c, m) + 1
  <2> DEFINE where == {i \in 1 .. n : c[i] = m}
  <2>1. {i \in DOMAIN d : d[i] = m} = where \cup {n + 1} /\ n + 1 \notin where
    BY <1>1, <1>2, <1>3
  <2>2. IsFiniteSet(where)
    <3>1. where \in SUBSET (1 .. n) /\ 1 \in Int /\ n \in Int
      BY <1>1
    <3>2. IsFiniteSet(1 .. n)
      BY <3>1, FS_Interval
    <3> QED
      BY <3>1, <3>2, FS_Subset
  <2>3. TakenIn(c, m) = Cardinality(where)
    BY <1>1 DEF TakenIn
  <2> HIDE DEF where
  <2>4. Cardinality(where \cup {n + 1}) = Cardinality(where) + 1
    BY <2>1, <2>2, FS_AddElement
  <2>5. TakenIn(d, m) = Cardinality(where \cup {n + 1})
    BY <2>1 DEF TakenIn
  <2> QED
    BY <2>3, <2>4, <2>5
<1>6. ASSUME NEW x, x # m PROVE TakenIn(d, x) = TakenIn(c, x)
  <2>1. {i \in DOMAIN d : d[i] = x} = {i \in DOMAIN c : c[i] = x}
    BY <1>1, <1>2, <1>3, <1>6
  <2> QED
    BY <2>1 DEF TakenIn
<1> QED
  BY <1>1, <1>4, <1>5, <1>6 DEF d

\* A message behind the one it follows does not come early.
LEMMA OrderStays ==
  ASSUME NEW c \in Seq(Nat), OrderedIn(c), NEW m \in Nat, m = 1 \/ m - 1 \in ToSet(c)
  PROVE  OrderedIn(Append(c, m))
<1> DEFINE n == Len(c)
           d == Append(c, m)
<1>1. /\ n \in Nat /\ DOMAIN c = 1 .. n /\ DOMAIN d = 1 .. (n + 1)
      /\ \A i \in 1 .. n : d[i] = c[i]
      /\ d[n + 1] = m
  OBVIOUS
<1> HIDE DEF n, d
<1>2. ASSUME NEW i \in 1 .. n, c[i] # 1
      PROVE  \E j \in 1 .. i - 1 : d[j] = d[i] - 1
  <2>1. PICK j \in 1 .. i - 1 : c[j] = c[i] - 1
    BY <1>1, <1>2 DEF OrderedIn
  <2>2. j \in 1 .. n
    BY <1>1, <2>1
  <2> QED
    BY <1>1, <2>1, <2>2
<1>3. ASSUME m # 1 PROVE \E j \in 1 .. (n + 1) - 1 : d[j] = m - 1
  <2>1. PICK j \in 1 .. n : c[j] = m - 1
    BY <1>1, <1>3 DEF ToSet
  <2>2. j \in 1 .. (n + 1) - 1
    BY <1>1
  <2> QED
    BY <1>1, <2>1, <2>2
<1>4. ASSUME NEW i \in DOMAIN d
      PROVE  d[i] = 1 \/ \E j \in 1 .. i - 1 : d[j] = d[i] - 1
  <2>1. CASE i \in 1 .. n
    BY <1>1, <1>2, <2>1
  <2>2. CASE i = n + 1
    BY <1>1, <1>3, <2>2
  <2> QED
    BY <1>1, <2>1, <2>2
<1> QED
  BY <1>4 DEF OrderedIn, d

\* One request more that Telegram may take, and one less.
LEMMA LeftIs ==
  ASSUME NEW l, IsFiniteSet(l), NEW r
  PROVE  /\ IsFiniteSet(l \cup {r}) /\ PendingIn(l \cup {r}, r[1]) <= PendingIn(l, r[1]) + 1
         /\ \A x : x # r[1] => PendingIn(l \cup {r}, x) = PendingIn(l, x)
<1>1. IsFiniteSet(l \cup {r})
  BY FS_AddElement
<1>2. PendingIn(l \cup {r}, r[1]) <= PendingIn(l, r[1]) + 1
  <2> DEFINE open == {q \in l : q[1] = r[1]}
  <2>1. {q \in l \cup {r} : q[1] = r[1]} = open \cup {r}
    OBVIOUS
  <2>2. open \in SUBSET l
    OBVIOUS
  <2>3. PendingIn(l, r[1]) = Cardinality(open) /\ PendingIn(l \cup {r}, r[1]) = Cardinality(open \cup {r})
    BY <2>1 DEF PendingIn
  <2> HIDE DEF open
  <2>4. IsFiniteSet(open) /\ Cardinality(open) \in Nat
    BY <2>2, FS_Subset, FS_CardinalityType
  <2>5. Cardinality(open \cup {r}) = Cardinality(open) \/ Cardinality(open \cup {r}) = Cardinality(open) + 1
    BY <2>4, FS_AddElement
  <2> QED
    BY <2>3, <2>4, <2>5
<1>3. ASSUME NEW x, x # r[1] PROVE PendingIn(l \cup {r}, x) = PendingIn(l, x)
  <2>1. {q \in l \cup {r} : q[1] = x} = {q \in l : q[1] = x}
    BY <1>3
  <2> QED
    BY <2>1 DEF PendingIn
<1> QED
  BY <1>1, <1>2, <1>3

LEMMA TakenIs ==
  ASSUME NEW l, IsFiniteSet(l), NEW r \in l
  PROVE  /\ IsFiniteSet(l \ {r}) /\ PendingIn(l \ {r}, r[1]) = PendingIn(l, r[1]) - 1
         /\ \A x : x # r[1] => PendingIn(l \ {r}, x) = PendingIn(l, x)
<1>1. IsFiniteSet(l \ {r})
  BY FS_RemoveElement
<1>2. PendingIn(l \ {r}, r[1]) = PendingIn(l, r[1]) - 1
  <2> DEFINE open == {q \in l : q[1] = r[1]}
  <2>1. {q \in l \ {r} : q[1] = r[1]} = open \ {r} /\ r \in open
    OBVIOUS
  <2>2. open \in SUBSET l
    OBVIOUS
  <2>3. PendingIn(l, r[1]) = Cardinality(open) /\ PendingIn(l \ {r}, r[1]) = Cardinality(open \ {r})
    BY <2>1 DEF PendingIn
  <2> HIDE DEF open
  <2>4. IsFiniteSet(open)
    BY <2>2, FS_Subset
  <2> QED
    BY <2>1, <2>3, <2>4, FS_RemoveElement
<1>3. ASSUME NEW x, x # r[1] PROVE PendingIn(l \ {r}, x) = PendingIn(l, x)
  <2>1. {q \in l \ {r} : q[1] = x} = {q \in l : q[1] = x}
    BY <1>3
  <2> QED
    BY <2>1 DEF PendingIn
<1> QED
  BY <1>1, <1>2, <1>3

\* The message under way is taken and counts as sent.
LEMMA SentKeeps ==
  ASSUME NEW c, NEW l, NEW n \in Nat, IsChat(c, l, n), RequestsIn(c, l, n + 1) <= BotRetries
  PROVE  /\ IsChat(Append(c, n + 1), l, n + 1)
         /\ RequestsIn(Append(c, n + 1), l, n + 1 + 1) = 0
         /\ ToSet(Append(c, n + 1)) \subseteq 1 .. n + 1 /\ \A r \in l : r[1] \in 1 .. n + 1
<1> DEFINE m == n + 1
           d == Append(c, m)
<1>0. /\ c \in Seq(Nat) /\ IsFiniteSet(l) /\ OrderedIn(c) /\ m \in Nat \ {0} /\ BotRetries \in Nat
      /\ 1 .. n \subseteq ToSet(c) /\ ToSet(c) \subseteq 1 .. m
      /\ \A r \in l : r[1] \in 1 .. m
      /\ \A x \in Nat : RequestsIn(c, l, x) <= BotRetries + 1
  BY ContentAssumption DEF IsChat
<1>1. /\ d \in Seq(Nat) /\ ToSet(d) = ToSet(c) \cup {m} /\ TakenIn(d, m) = TakenIn(c, m) + 1
      /\ \A x : x # m => TakenIn(d, x) = TakenIn(c, x)
  BY <1>0, AppendedIs
<1>2. OrderedIn(d)
  <2>1. m = 1 \/ m - 1 \in 1 .. n
    OBVIOUS
  <2> QED
    BY <1>0, <2>1, OrderStays
<1> HIDE DEF d
<1>3. 1 .. m \subseteq ToSet(d) /\ ToSet(d) \subseteq 1 .. m
  <2>1. \A x \in 1 .. m : x \in 1 .. n \/ x = m
    OBVIOUS
  <2>2. m \in 1 .. m
    BY <1>0
  <2> HIDE DEF m
  <2> QED
    BY <1>0, <1>1, <2>1, <2>2
<1>4. ASSUME NEW x \in Nat PROVE RequestsIn(d, l, x) <= BotRetries + 1
  <2>1. TakenIn(c, x) \in Nat /\ PendingIn(l, x) \in Nat
    BY <1>0, CountsAre
  <2>2. CASE x = m
    <3>1. TakenIn(c, x) + PendingIn(l, x) <= BotRetries /\ TakenIn(d, x) = TakenIn(c, x) + 1
      BY <1>1, <2>2 DEF RequestsIn
    <3> QED
      BY <1>0, <2>1, <3>1 DEF RequestsIn
  <2>3. CASE x # m
    <3>1. TakenIn(d, x) = TakenIn(c, x)
      BY <1>1, <2>3
    <3>2. RequestsIn(c, l, x) <= BotRetries + 1
      BY <1>0
    <3> QED
      BY <3>1, <3>2 DEF RequestsIn
  <2> QED
    BY <2>2, <2>3
<1>5. RequestsIn(d, l, m + 1) = 0
  <2>1. m + 1 \notin 1 .. m
    OBVIOUS
  <2>2. m + 1 \notin ToSet(d) /\ \A r \in l : r[1] # m + 1
    BY <1>0, <1>3, <2>1
  <2>3. TakenIn(d, m + 1) = 0 /\ PendingIn(l, m + 1) = 0
    BY <1>0, <1>1, <2>2, CountsAre
  <2> QED
    BY <2>3 DEF RequestsIn
<1>6. IsChat(d, l, m)
  <2>1. \A x \in 1 .. m : x \in 1 .. m + 1
    OBVIOUS
  <2> HIDE DEF m
  <2>2. ToSet(d) \subseteq 1 .. m + 1 /\ \A r \in l : r[1] \in 1 .. m + 1
    BY <1>0, <1>3, <2>1
  <2> QED
    BY <1>0, <1>1, <1>2, <1>3, <1>4, <2>2 DEF IsChat
<1> QED
  BY <1>0, <1>3, <1>5, <1>6 DEF d

\* An attempt fails and Telegram may still take it.
LEMMA LeavingKeeps ==
  ASSUME NEW c, NEW l, NEW n \in Nat, IsChat(c, l, n), NEW a \in Nat, a <= BotRetries,
         RequestsIn(c, l, n + 1) <= a
  PROVE  /\ IsChat(c, l \cup {<<n + 1, a>>}, n)
         /\ RequestsIn(c, l \cup {<<n + 1, a>>}, n + 1) <= a + 1
<1> DEFINE m == n + 1
           r == <<m, a>>
           k == l \cup {r}
<1>0. /\ c \in Seq(Nat) /\ IsFiniteSet(l) /\ OrderedIn(c) /\ BotRetries \in Nat
      /\ 1 .. n \subseteq ToSet(c) /\ ToSet(c) \subseteq 1 .. m
      /\ \A q \in l : q[1] \in 1 .. m
      /\ \A x \in Nat : RequestsIn(c, l, x) <= BotRetries + 1
  BY ContentAssumption DEF IsChat
<1>1. m \in 1 .. m /\ r[1] = m
  OBVIOUS
<1>2. /\ IsFiniteSet(k) /\ PendingIn(k, r[1]) <= PendingIn(l, r[1]) + 1
      /\ \A x : x # r[1] => PendingIn(k, x) = PendingIn(l, x)
  BY <1>0, LeftIs
<1>3. \A q \in k : q \in l \/ q = r
  OBVIOUS
<1> HIDE DEF r, k
<1>4. \A q \in k : q[1] \in 1 .. m
  BY <1>0, <1>1, <1>3
<1>5. TakenIn(c, m) \in Nat /\ PendingIn(l, m) \in Nat /\ PendingIn(k, m) \in Nat
  BY <1>0, <1>2, CountsAre
<1>6. RequestsIn(c, k, m) <= a + 1
  <2>1. TakenIn(c, m) + PendingIn(l, m) <= a /\ PendingIn(k, m) <= PendingIn(l, m) + 1
    BY <1>1, <1>2 DEF RequestsIn
  <2> QED
    BY <1>5, <2>1 DEF RequestsIn
<1>7. ASSUME NEW x \in Nat PROVE RequestsIn(c, k, x) <= BotRetries + 1
  <2>1. CASE x = m
    <3>1. RequestsIn(c, k, m) \in Nat
      BY <1>5 DEF RequestsIn
    <3> QED
      BY <1>0, <1>6, <2>1, <3>1
  <2>2. CASE x # m
    <3>1. PendingIn(k, x) = PendingIn(l, x) /\ RequestsIn(c, l, x) <= BotRetries + 1
      BY <1>0, <1>1, <1>2, <2>2
    <3> QED
      BY <3>1 DEF RequestsIn
  <2> QED
    BY <2>1, <2>2
<1>8. IsChat(c, k, n)
  BY <1>0, <1>2, <1>4, <1>7 DEF IsChat
<1> QED
  BY <1>6, <1>8 DEF k, r

\* Telegram takes a request the notifier has given up.
LEMMA TakingKeeps ==
  ASSUME NEW c, NEW l, NEW n \in Nat, IsChat(c, l, n), NEW r \in l
  PROVE  /\ IsChat(Append(c, r[1]), l \ {r}, n)
         /\ \A x \in Nat : RequestsIn(Append(c, r[1]), l \ {r}, x) = RequestsIn(c, l, x)
         /\ ToSet(Append(c, r[1])) = ToSet(c) \cup {r[1]}
<1> DEFINE m == r[1]
           d == Append(c, m)
           k == l \ {r}
<1>0. /\ c \in Seq(Nat) /\ IsFiniteSet(l) /\ OrderedIn(c)
      /\ 1 .. n \subseteq ToSet(c) /\ ToSet(c) \subseteq 1 .. n + 1
      /\ \A q \in l : q[1] \in 1 .. n + 1
      /\ \A x \in Nat : RequestsIn(c, l, x) <= BotRetries + 1
  BY DEF IsChat
<1>1. m \in 1 .. n + 1 /\ \A q \in k : q \in l
  BY <1>0
<1>2. /\ IsFiniteSet(k) /\ PendingIn(k, m) = PendingIn(l, m) - 1
      /\ \A x : x # m => PendingIn(k, x) = PendingIn(l, x)
  BY <1>0, TakenIs
<1> HIDE DEF m, k
<1>3. m \in Nat /\ (m = 1 \/ m - 1 \in 1 .. n)
  BY <1>1
<1>4. /\ d \in Seq(Nat) /\ ToSet(d) = ToSet(c) \cup {m} /\ TakenIn(d, m) = TakenIn(c, m) + 1
      /\ \A x : x # m => TakenIn(d, x) = TakenIn(c, x)
  BY <1>0, <1>3, AppendedIs
<1>5. OrderedIn(d)
  BY <1>0, <1>3, OrderStays
<1> HIDE DEF d
<1>6. ASSUME NEW x \in Nat PROVE RequestsIn(d, k, x) = RequestsIn(c, l, x)
  <2>1. CASE x = m
    <3>1. TakenIn(c, m) \in Nat /\ PendingIn(l, m) \in Nat
      BY <1>0, CountsAre
    <3> QED
      BY <1>2, <1>4, <2>1, <3>1 DEF RequestsIn
  <2>2. CASE x # m
    BY <1>2, <1>4, <2>2 DEF RequestsIn
  <2> QED
    BY <2>1, <2>2
<1>7. \A x \in Nat : RequestsIn(d, k, x) <= BotRetries + 1
  BY <1>0, <1>6
<1>8. 1 .. n \subseteq ToSet(d) /\ ToSet(d) \subseteq 1 .. n + 1 /\ \A q \in k : q[1] \in 1 .. n + 1
  BY <1>0, <1>1, <1>4
<1>9. IsChat(d, k, n)
  BY <1>2, <1>4, <1>5, <1>7, <1>8 DEF IsChat
<1> QED
  BY <1>4, <1>6, <1>9 DEF d, k, m

LEMMA NothingIsAChat == IsChat(<<>>, {}, 0) /\ RequestsIn(<<>>, {}, 0 + 1) = 0
<1>1. <<>> \in Seq(Nat) /\ ToSet(<<>>) = {} /\ IsFiniteSet({}) /\ OrderedIn(<<>>)
  BY FS_EmptySet DEF ToSet, OrderedIn
<1>2. ASSUME NEW m PROVE RequestsIn(<<>>, {}, m) = 0
  <2>1. TakenIn(<<>>, m) = 0 /\ PendingIn({}, m) = 0
    BY <1>1, CountsAre
  <2> QED
    BY <2>1 DEF RequestsIn
<1>3. 1 .. 0 = {}
  OBVIOUS
<1> QED
  BY <1>1, <1>2, <1>3, ContentAssumption DEF IsChat

LEMMA ChatInvNext == PaceInv /\ ChatInv /\ [ContentNext]_contentVars => ChatInv'
<1> SUFFICES ASSUME PaceInv, ChatInv, [ContentNext]_contentVars PROVE ChatInv'
  OBVIOUS
<1> USE DEF posts, outbox
<1>0. round \in Nat /\ attempt \in Nat /\ BotRetries \in Nat
  BY ContentAssumption DEF PaceInv
<1>1. CASE \/ PrepareTexts \/ TextsReady \/ TranslationEnds \/ TranslationFails
           \/ SummaryFails \/ PlacingFails \/ CoverageEnds \/ TranslateFallbackTheses \/ GrokRetry
           \/ \E answer \in SUBSET Posts : Translated(answer)
           \/ \E answer \in Answers : Summarized(answer)
           \/ \E number \in 0 .. Len(topics), refs \in SUBSET Posts, new \in NewTopics :
                Placed(number, refs, new)
  <2>1. /\ chat' = chat /\ late' = late
        /\ stage \notin {"sending", "delivered", "undelivered"}
        /\ stage' \notin {"sending", "delivered", "undelivered"}
    BY <1>1 DEF PrepareTexts, Translate, TextsReady, TranslationEnds, Translated,
         TranslationFails, IsTranslating, AfterTranslation, IsFollowUpDue, Summarized,
         SummaryFails, Placed, PlacingFails, CoverageEnds, TranslateFallbackTheses, GrokRetry
  <2> QED
    BY <2>1 DEF ChatInv, IsSent
<1>2. CASE FormatDigest
  <2>1. chat' = <<>> /\ late' = {} /\ stage' = "sending" /\ round' = 0 /\ attempt' = 0
    BY <1>2 DEF FormatDigest, ChatInv, IsSent, PaceInv
  <2>2. IsChat(<<>>, {}, 0) /\ RequestsIn(<<>>, {}, 0 + 1) = 0
    BY NothingIsAChat
  <2>3. IsChat(chat', late', round')
    BY <2>1, <2>2
  <2>4. RequestsIn(chat', late', round' + 1) <= attempt' /\ attempt' <= BotRetries
    BY <1>0, <2>1, <2>2
  <2> QED
    BY <2>1, <2>3, <2>4 DEF ChatInv, IsSent
<1>3. ASSUME stage = "sending"
      PROVE  /\ IsChat(chat, late, round) /\ attempt <= BotRetries
             /\ RequestsIn(chat, late, round + 1) <= attempt
             /\ RequestsIn(chat, late, round + 1) \in Nat
  <2>1. /\ IsChat(chat, late, round) /\ attempt <= BotRetries
        /\ RequestsIn(chat, late, round + 1) <= attempt
    BY <1>3 DEF ChatInv, IsSent
  <2>2. RequestsIn(chat, late, round + 1) \in Nat
    <3>1. TakenIn(chat, round + 1) \in Nat /\ PendingIn(late, round + 1) \in Nat
      BY <2>1, CountsAre DEF IsChat
    <3> QED
      BY <3>1 DEF RequestsIn
  <2> QED
    BY <2>1, <2>2
<1>4. CASE Accepted
  <2>1. /\ stage = "sending" /\ chat' = Append(chat, round + 1) /\ messages' = messages
        /\ round' = round + 1 /\ attempt' = 0 /\ late' = late
        /\ stage' = IF round + 1 = MessageCount THEN "delivered" ELSE stage
    BY <1>4 DEF Accepted, IsAttempt, NextMessage
  <2>2. RequestsIn(chat, late, round + 1) <= BotRetries
    BY <1>0, <1>3, <2>1
  <2>3. /\ IsChat(Append(chat, round + 1), late, round + 1)
        /\ RequestsIn(Append(chat, round + 1), late, round + 1 + 1) = 0
        /\ ToSet(Append(chat, round + 1)) \subseteq 1 .. round + 1
        /\ \A r \in late : r[1] \in 1 .. round + 1
    BY <1>0, <1>3, <2>1, <2>2, SentKeeps
  <2>4. IsChat(chat', late', round')
    BY <2>1, <2>3
  <2>5. RequestsIn(chat', late', round' + 1) <= attempt' /\ attempt' <= BotRetries
    BY <1>0, <2>1, <2>3
  <2>6. MessageCount' = MessageCount
    BY <2>1 DEF MessageCount
  <2>7. stage' = "delivered" => /\ round' = MessageCount' /\ ToSet(chat') \subseteq 1 .. round'
                                /\ \A r \in late' : r[1] \in 1 .. round'
    BY <2>1, <2>3, <2>6
  <2>8. stage' \in {"sending", "delivered"}
    BY <2>1
  <2> QED
    BY <2>4, <2>5, <2>7, <2>8 DEF ChatInv, IsSent
<1>5. ASSUME stage = "sending", LeavesRequest \/ UNCHANGED late, UNCHANGED <<chat, round>>
      PROVE  /\ IsChat(chat', late', round')
             /\ RequestsIn(chat', late', round' + 1) <= attempt + 1
  <2>1. CASE LeavesRequest
    <3>1. late' = late \cup {<<round + 1, attempt>>}
      BY <2>1 DEF LeavesRequest, NextMessage
    <3>2. /\ IsChat(chat, late \cup {<<round + 1, attempt>>}, round)
          /\ RequestsIn(chat, late \cup {<<round + 1, attempt>>}, round + 1) <= attempt + 1
      BY <1>0, <1>3, <1>5, LeavingKeeps
    <3> QED
      BY <1>5, <3>1, <3>2
  <2>2. CASE UNCHANGED late
    <3>1. RequestsIn(chat, late, round + 1) <= attempt + 1
      BY <1>0, <1>3, <1>5
    <3> QED
      BY <1>3, <1>5, <2>2, <3>1
  <2> QED
    BY <1>5, <2>1, <2>2
<1>6. CASE RetryMessage
  <2>1. /\ stage = "sending" /\ stage' = stage /\ UNCHANGED <<chat, round>> /\ attempt < BotRetries
        /\ attempt' = attempt + 1 /\ (LeavesRequest \/ UNCHANGED late)
    BY <1>6 DEF RetryMessage, IsAttempt
  <2>2. IsChat(chat', late', round') /\ RequestsIn(chat', late', round' + 1) <= attempt'
    BY <1>5, <2>1
  <2>3. attempt' <= BotRetries
    BY <1>0, <2>1
  <2> QED
    BY <2>1, <2>2, <2>3 DEF ChatInv, IsSent
<1>7. CASE MessageFails
  <2>1. /\ stage = "sending" /\ stage' = "undelivered" /\ UNCHANGED <<chat, round>>
        /\ LeavesRequest \/ UNCHANGED late
    BY <1>7 DEF MessageFails, IsAttempt
  <2>2. IsChat(chat', late', round')
    BY <1>5, <2>1
  <2> QED
    BY <2>1, <2>2 DEF ChatInv, IsSent
<1>8. ASSUME NEW request \in late, TakenLate(request) PROVE ChatInv'
  <2>1. /\ late' = late \ {request} /\ chat' = Append(chat, request[1])
        /\ UNCHANGED <<stage, attempt, round, messages>>
    BY <1>8 DEF TakenLate
  <2>2. IsSent /\ IsChat(chat, late, round)
    BY DEF ChatInv
  <2>3. /\ IsChat(chat', late', round)
        /\ \A x \in Nat : RequestsIn(chat', late', x) = RequestsIn(chat, late, x)
        /\ ToSet(chat') = ToSet(chat) \cup {request[1]}
    <3>1. /\ IsChat(Append(chat, request[1]), late \ {request}, round)
          /\ \A x \in Nat : RequestsIn(Append(chat, request[1]), late \ {request}, x)
                            = RequestsIn(chat, late, x)
          /\ ToSet(Append(chat, request[1])) = ToSet(chat) \cup {request[1]}
      BY <1>0, <2>2, TakingKeeps
    <3> QED
      BY <2>1, <3>1
  <2>4. stage' = "sending" => RequestsIn(chat', late', round' + 1) <= attempt' /\ attempt' <= BotRetries
    <3>1. round + 1 \in Nat
      BY <1>0
    <3>2. RequestsIn(chat', late', round + 1) = RequestsIn(chat, late, round + 1)
      BY <2>3, <3>1
    <3> QED
      BY <1>3, <2>1, <3>2
  <2>5. stage' = "delivered" => /\ round' = MessageCount' /\ ToSet(chat') \subseteq 1 .. round'
                                /\ \A r \in late' : r[1] \in 1 .. round'
    <3>1. MessageCount' = MessageCount
      BY <2>1 DEF MessageCount
    <3>2. stage = "delivered" => /\ round = MessageCount /\ ToSet(chat) \subseteq 1 .. round
                                 /\ \A r \in late : r[1] \in 1 .. round
      BY DEF ChatInv
    <3> QED
      BY <2>1, <2>3, <3>1, <3>2
  <2>6. IsSent' /\ IsChat(chat', late', round')
    BY <2>1, <2>2, <2>3 DEF IsSent
  <2> QED
    BY <2>4, <2>5, <2>6 DEF ChatInv
<1>9. CASE UNCHANGED contentVars
  <2>1. UNCHANGED <<stage, chat, late, round, attempt, messages>>
    BY <1>9 DEF contentVars
  <2> QED
    BY <2>1 DEF ChatInv, IsSent, MessageCount
<1> QED
  BY <1>1, <1>2, <1>4, <1>6, <1>7, <1>8, <1>9 DEF ContentNext

\* The order of the chat is what the invariant says of it.
LEMMA OrderFollows == PaceInv /\ ChatInv => ChatIsInOrder
<1> SUFFICES ASSUME PaceInv, ChatInv PROVE ChatIsInOrder
  OBVIOUS
<1>1. round \in Nat /\ BotRetries \in Nat
  BY ContentAssumption DEF PaceInv
<1>2. \A m : Copies(m) + Pending(m) = RequestsIn(chat, late, m)
  BY DEF Copies, Pending, RequestsIn, TakenIn, PendingIn
<1>3. NoneIsEarly <=> OrderedIn(chat)
  BY DEF NoneIsEarly, OrderedIn
<1>6. ASSUME NEW n, IsChat(chat, late, n), NEW m \in ToSet(chat)
      PROVE  Copies(m) + Pending(m) <= BotRetries + 1
  <2>1. chat \in Seq(Nat) /\ \A x \in Nat : RequestsIn(chat, late, x) <= BotRetries + 1
    BY <1>6 DEF IsChat
  <2>2. m \in Nat
    BY <2>1 DEF ToSet
  <2> QED
    BY <1>2, <2>1, <2>2
<1>4. CASE ~IsSent
  <2>1. chat = <<>> /\ late = {} /\ ContentSent = 0
    BY <1>4, ContentPhaseIs DEF ChatInv
  <2>2. IsChat(<<>>, {}, 0)
    BY NothingIsAChat
  <2>3. IsChat(chat, late, ContentSent)
    BY <2>1, <2>2
  <2>4. stage # "delivered"
    BY <1>4 DEF IsSent
  <2> QED
    BY <1>2, <1>3, <2>3, <2>4, <1>6 DEF ChatIsInOrder, IsChat
<1>5. CASE IsSent
  <2>1. IsChat(chat, late, ContentSent) /\ ContentSent = round
    BY <1>5, ContentPhaseIs DEF ChatInv
  <2>2. stage = "delivered" => ToSet(chat) = 1 .. MessageCount
    <3>1. stage = "delivered" => round = MessageCount /\ ToSet(chat) \subseteq 1 .. round
      BY DEF ChatInv
    <3>2. 1 .. round \subseteq ToSet(chat)
      BY <2>1 DEF IsChat
    <3> QED
      BY <3>1, <3>2
  <2> QED
    BY <1>2, <1>3, <2>1, <2>2, <1>6 DEF ChatIsInOrder, IsChat
<1> QED
  BY <1>4, <1>5

-------------------------------------------------------------------------------
LEMMA ContentInitHolds == ContentInit => KeptInv /\ TopicInv /\ GapInv /\ PaceInv /\ ChatInv
<1> SUFFICES ASSUME ContentInit PROVE KeptInv /\ TopicInv /\ GapInv /\ PaceInv /\ ChatInv
  OBVIOUS
<1>1. KeptInv
  BY DEF ContentInit, KeptInv
<1>2. TopicInv
  <2>1. topics = <<>> /\ topics \in Seq(TopicType) /\ DOMAIN topics = {} /\ stage = "collected"
    BY DEF ContentInit
  <2> QED
    BY <2>1 DEF TopicInv
<1>3. GapInv
  BY DEF ContentInit, GapInv, IsTranslating
<1>4. PaceInv
  BY DEF ContentInit, PaceInv
<1>5. ChatInv
  BY DEF ContentInit, ChatInv, IsSent
<1> QED
  BY <1>1, <1>2, <1>3, <1>4, <1>5

LEMMA HonestyFollows == KeptInv /\ TopicInv /\ GapInv => DigestIsHonest
<1> SUFFICES ASSUME KeptInv, TopicInv, GapInv, IsReady
             PROVE  /\ EveryPostIsPlaced /\ NothingIsInvented
                    /\ OnlyTheOldestAreLeftOut /\ TranslationGapsAreCounted
  BY DEF DigestIsHonest
<1>1. stage = "formatting"
  BY DEF IsReady
<1>2. EveryPostIsPlaced
  BY <1>1 DEF TopicInv
<1>3. NothingIsInvented
  <2>1. \A i \in DOMAIN topics : topics[i].refs \subseteq WithText /\ topics[i].refs # {}
    BY DEF TopicInv
  <2>2. ASSUME NEW i \in DOMAIN topics, topics[i].isFallback
        PROVE  Cardinality(topics[i].refs) = 1
    BY <2>2, FS_Singleton DEF TopicInv
  <2> QED
    BY <2>1, <2>2 DEF NothingIsInvented, Covered
<1>4. OnlyTheOldestAreLeftOut
  <2>1. kept = LimitPosts /\ date \in Dates
    BY <1>1 DEF KeptInv
  <2> QED
    BY <2>1, LimitIs DEF OnlyTheOldestAreLeftOut
<1>5. TranslationGapsAreCounted
  BY <1>1 DEF GapInv, TranslationGapsAreCounted, Items
<1> QED
  BY <1>2, <1>3, <1>4, <1>5

\* Whatever the model answers and wherever Grok fails, a digest that goes out holds
\* every kept post with text and nothing else, leaves out only the oldest posts, and
\* counts what stayed untranslated (digest.service.ts:138).
THEOREM DigestsAreHonest == ContentSpec => []DigestIsHonest
<1>1. KeptInv /\ TopicInv /\ GapInv /\ [ContentNext]_contentVars => KeptInv' /\ TopicInv' /\ GapInv'
  BY KeptInvNext, TopicInvNext, GapInvNext
<1> QED
  BY <1>1, ContentInitHolds, HonestyFollows, PTL DEF ContentSpec

\* Whenever Telegram takes the requests the notifier has given up, no message is in the
\* chat before the one it follows, every one that counts as sent is there, and none more
\* often than it was tried (bot-notifier.ts:42).
THEOREM MessagesArriveInOrder == ContentSpec => []ChatIsInOrder
<1>1. PaceInv /\ ChatInv /\ [ContentNext]_contentVars => PaceInv' /\ ChatInv'
  BY PaceInvNext, ChatInvNext
<1> QED
  BY <1>1, OrderFollows, ContentInitHolds, PTL DEF ContentSpec

-------------------------------------------------------------------------------
(* 3. The messages.                                                        *)

\* The beginning of a sequence is a shorter one and an element.
LEMMA SubSeqIsAppend ==
  ASSUME NEW S, NEW z \in Seq(S), NEW n \in 1 .. Len(z)
  PROVE  /\ SubSeq(z, 1, n) = Append(SubSeq(z, 1, n - 1), z[n])
         /\ SubSeq(z, 1, n - 1) \in Seq(S) /\ z[n] \in S
<1> DEFINE u == SubSeq(z, 1, n - 1)
<1>1. 1 \in 1 .. Len(z) /\ n \in 1 .. n /\ n \in Int /\ n - 1 \in Int /\ Len(z) \in Nat
  OBVIOUS
<1>2. SubSeq(z, 1, n) = u \o <<z[n]>>
  BY <1>1, SubSeqRecursiveSecond
<1>3. u \in Seq(S) /\ z[n] \in S
  <2>1. \A i \in 1 .. n - 1 : z[i] \in S
    OBVIOUS
  <2> QED
    BY <1>1, <2>1, SubSeqProperties
<1> HIDE DEF u
<1>4. Append(u, z[n]) = u \o <<z[n]>>
  BY <1>3, AppendIsConcat
<1> QED
  BY <1>2, <1>3, <1>4 DEF u

-------------------------------------------------------------------------------
(* Induction and recursion up to a number. *)

LEMMA UpTo ==
  ASSUME NEW N \in Nat, NEW T, 0 \in T, \A n \in 1 .. N : n - 1 \in T => n \in T
  PROVE  \A n \in 0 .. N : n \in T
<1> DEFINE F == {n \in 0 .. N : n \notin T}
<1>1. ASSUME F # {} PROVE FALSE
  <2>1. PICK m \in F : \A y \in F : m <= y
    <3>1. F \subseteq Nat
      OBVIOUS
    <3> HIDE DEF F
    <3> QED
      BY <1>1, <3>1, LeastNat
  <2>2. m \in 1 .. N /\ m - 1 \in 0 .. N /\ ~(m <= m - 1)
    <3>1. m \in 0 .. N /\ m # 0
      OBVIOUS
    <3> QED
      BY <3>1
  <2>3. m - 1 \in T
    BY <2>1, <2>2
  <2> QED
    BY <2>2, <2>3
<1> QED
  BY <1>1

\* There is a function defined by its first value and a step.
IsRecursion(f, N, V, a, step) ==
  /\ f \in [0 .. N -> V]
  /\ f[0] = a /\ \A n \in 1 .. N : f[n] = step[n][f[n - 1]]

LEMMA Recursion ==
  ASSUME NEW N \in Nat, NEW V, NEW a \in V, NEW step,
         \A n \in 1 .. N : \A v \in V : step[n][v] \in V
  PROVE  \E f : IsRecursion(f, N, V, a, step)
<1> DEFINE Is(f, m) == f[0] = a /\ \A n \in 1 .. m : f[n] = step[n][f[n - 1]]
           T == {m \in 0 .. N : \E f \in [0 .. m -> V] : Is(f, m)}
<1>1. 0 \in T
  <2> DEFINE f == [i \in 0 .. 0 |-> a]
  <2>1. f \in [0 .. 0 -> V] /\ f[0] = a /\ \A n \in 1 .. 0 : FALSE
    OBVIOUS
  <2> HIDE DEF f
  <2> QED
    BY <2>1
<1>2. ASSUME NEW m \in 1 .. N, m - 1 \in T PROVE m \in T
  <2>1. PICK f \in [0 .. m - 1 -> V] : Is(f, m - 1)
    BY <1>2
  <2> DEFINE x == step[m][f[m - 1]]
             g == [i \in 0 .. m |-> IF i = m THEN x ELSE f[i]]
  <2>2. m - 1 \in 0 .. m - 1 /\ m \in 0 .. N /\ m \in Nat
    OBVIOUS
  <2>3. x \in V
    <3>1. f[m - 1] \in V
      BY <2>2
    <3> QED
      BY <3>1
  <2> HIDE DEF x
  <2>4. \A i \in 0 .. m : i # m => i \in 0 .. m - 1
    OBVIOUS
  <2>5. g \in [0 .. m -> V] /\ g[m] = x /\ \A i \in 0 .. m - 1 : g[i] = f[i]
    BY <2>2, <2>3, <2>4
  <2> HIDE DEF g
  <2>6. g[0] = a
    <3>1. 0 \in 0 .. m - 1
      OBVIOUS
    <3> QED
      BY <2>1, <2>5, <3>1
  <2>7. ASSUME NEW n \in 1 .. m PROVE g[n] = step[n][g[n - 1]]
    <3>1. CASE n = m
      BY <2>2, <2>5, <3>1 DEF x
    <3>2. CASE n # m
      <4>1. n \in 1 .. m - 1 /\ n \in 0 .. m - 1 /\ n - 1 \in 0 .. m - 1
        BY <3>2
      <4> QED
        BY <2>1, <2>5, <4>1
    <3> QED
      BY <3>1, <3>2
  <2> QED
    BY <2>2, <2>5, <2>6, <2>7
<1>3. \A m \in 0 .. N : m \in T
  <2> HIDE DEF T
  <2> QED
    BY <1>1, <1>2, UpTo
<1>4. N \in 0 .. N
  OBVIOUS
<1>5. PICK f \in [0 .. N -> V] : Is(f, N)
  BY <1>3, <1>4
<1> QED
  BY <1>5 DEF IsRecursion

\* What holds of the empty sequence, and of a sequence with one element more, holds of all.
LEMMA SeqInduct ==
  ASSUME NEW S, NEW T, <<>> \in T,
         \A s \in Seq(S), e \in S : s \in T => Append(s, e) \in T
  PROVE  Seq(S) \subseteq T
<1> SUFFICES ASSUME NEW z \in Seq(S) PROVE z \in T
  OBVIOUS
<1> DEFINE N == Len(z)
           upto(n) == SubSeq(z, 1, n)
           P == {n \in 0 .. N : upto(n) \in T}
<1>1. N \in Nat
  OBVIOUS
<1>2. 0 \in P
  <2>1. upto(0) = <<>>
    BY SubSeqEmpty
  <2> HIDE DEF upto
  <2> QED
    BY <1>1, <2>1
<1>3. ASSUME NEW n \in 1 .. N, n - 1 \in P PROVE n \in P
  <2>1. upto(n) = Append(upto(n - 1), z[n]) /\ upto(n - 1) \in Seq(S) /\ z[n] \in S
    BY SubSeqIsAppend
  <2> HIDE DEF upto
  <2>2. upto(n - 1) \in T /\ n \in 0 .. N
    BY <1>3
  <2> QED
    BY <2>1, <2>2
<1> HIDE DEF P
<1>4. \A n \in 0 .. N : n \in P
  BY <1>1, <1>2, <1>3, UpTo
<1>5. N \in P /\ SubSeq(z, 1, N) = z
  BY <1>1, <1>4, SubSeqFull
<1> QED
  BY <1>5 DEF P

-------------------------------------------------------------------------------
(* FlattenSeq. *)

\* One part after the other.
IsFlattening(w, f) ==
  f[0] = <<>> /\ \A n \in 1 .. Len(w) : f[n] = f[n - 1] \o w[n]

LEMMA FlatteningExists ==
  ASSUME NEW S, NEW w \in Seq(Seq(S))
  PROVE  \E f \in [0 .. Len(w) -> Seq(S)] : IsFlattening(w, f)
<1> DEFINE N == Len(w)
           V == Seq(S)
           a == <<>>
           step == [n \in 1 .. N |-> [v \in V |-> v \o w[n]]]
<1>1. N \in Nat /\ a \in V
  OBVIOUS
<1>4. \A n \in 1 .. N : \A v \in V : step[n][v] \in V
  <2>1. \A n \in 1 .. N, v \in V : v \o w[n] \in V
    OBVIOUS
  <2> HIDE DEF V, N
  <2> QED
    BY <2>1
<1>5. PICK f : IsRecursion(f, N, V, a, step)
  <2> HIDE DEF step, N, V, a
  <2> QED
    BY <1>1, <1>4, Recursion
<1>2. f \in [0 .. N -> V] /\ f[0] = a /\ \A n \in 1 .. N : f[n] = step[n][f[n - 1]]
  BY <1>5 DEF IsRecursion
<1>3. ASSUME NEW n \in 1 .. N PROVE f[n] = f[n - 1] \o w[n]
  <2>1. n - 1 \in 0 .. N
    BY <1>1
  <2>2. f[n - 1] \in V
    BY <1>2, <2>1
  <2> HIDE DEF V
  <2> QED
    BY <1>2, <2>2
<1> QED
  BY <1>2, <1>3 DEF IsFlattening

\* There is one flattening, and FlattenSeq is its end.
LEMMA FlattenIs ==
  ASSUME NEW S, NEW w \in Seq(Seq(S)),
         NEW f \in [0 .. Len(w) -> Seq(S)], IsFlattening(w, f)
  PROVE  FlattenSeq(w) = f[Len(w)] /\ FlattenSeq(w) \in Seq(S)
<1> DEFINE N == Len(w)
           Step(g) == [i \in 1 .. N |-> IF i = 1 THEN w[i] ELSE g[i - 1] \o w[i]]
           c == CHOOSE g : g = Step(g)
<1>1. N \in Nat /\ N \in 0 .. N
  OBVIOUS
<1>2. CASE N = 0
  <2>1. w = <<>> /\ FlattenSeq(w) = w
    BY <1>2 DEF FlattenSeq
  <2> QED
    BY <1>2, <2>1 DEF IsFlattening
<1>3. CASE N # 0
  <2>1. FlattenSeq(w) = c[N]
    BY <1>3 DEF FlattenSeq
  <2>2. f[1] = w[1]
    <3>1. 1 \in 1 .. N /\ w[1] \in Seq(S) /\ 1 - 1 = 0
      BY <1>1, <1>3
    <3>2. f[1] = f[1 - 1] \o w[1] /\ f[0] = <<>>
      BY <3>1 DEF IsFlattening
    <3>4. f[1] = <<>> \o w[1]
      BY <3>1, <3>2
    <3> QED
      BY <3>1, <3>4, ConcatEmptySeq
  <2>3. \E g : g = Step(g)
    <3> DEFINE g == [i \in 1 .. N |-> f[i]]
    <3>1. ASSUME NEW i \in 1 .. N PROVE f[i] = IF i = 1 THEN w[i] ELSE f[i - 1] \o w[i]
      BY <2>2 DEF IsFlattening
    <3>2. \A i \in 1 .. N : i # 1 => i - 1 \in 1 .. N
      BY <1>1
    <3>3. \A i \in 1 .. N : g[i] = IF i = 1 THEN w[i] ELSE g[i - 1] \o w[i]
      BY <3>1, <3>2
    <3>4. g = [i \in 1 .. N |-> g[i]]
      OBVIOUS
    <3> HIDE DEF g
    <3>5. g = Step(g)
      BY <3>3, <3>4
    <3> HIDE DEF Step
    <3> QED
      BY <3>5
  <2>4. c = Step(c)
    <3> HIDE DEF Step
    <3> QED
      BY <2>3
  <2> HIDE DEF c
  <2>5. \A i \in 1 .. N : c[i] = IF i = 1 THEN w[i] ELSE c[i - 1] \o w[i]
    BY <2>4
  <2> HIDE DEF Step, N
  <2> DEFINE T == {n \in 0 .. N : n = 0 \/ c[n] = f[n]}
  <2>6. 0 \in T
    BY <1>1
  <2>7. ASSUME NEW n \in 1 .. N, n - 1 \in T PROVE n \in T
    <3>1. CASE n = 1
      BY <2>2, <2>5, <3>1
    <3>2. CASE n # 1
      <4>0. n \in 0 .. N
        OBVIOUS
      <4>1. c[n] = c[n - 1] \o w[n]
        BY <2>5, <3>2
      <4>3. c[n - 1] = f[n - 1]
        <5>1. n - 1 # 0
          BY <3>2
        <5> QED
          BY <2>7, <5>1
      <4>2. f[n] = f[n - 1] \o w[n]
        BY DEF IsFlattening, N
      <4> QED
        BY <4>0, <4>1, <4>2, <4>3
    <3> QED
      BY <3>1, <3>2
  <2>8. \A n \in 0 .. N : n \in T
    <3> HIDE DEF T
    <3> QED
      BY <1>1, <2>6, <2>7, UpTo
  <2>9. c[N] = f[N] /\ f[N] \in Seq(S)
    BY <1>1, <1>3, <2>8 DEF N
  <2> QED
    BY <2>1, <2>9 DEF N
<1> QED
  BY <1>2, <1>3

LEMMA FlattenEmpty ==
  ASSUME NEW S
  PROVE  FlattenSeq(<<>>) = <<>> /\ <<>> \in Seq(Seq(S)) /\ <<>> \in Seq(S)
BY DEF FlattenSeq

LEMMA FlattenAppend ==
  ASSUME NEW S, NEW w \in Seq(Seq(S)), NEW x \in Seq(S)
  PROVE  FlattenSeq(Append(w, x)) = FlattenSeq(w) \o x
<1> DEFINE N == Len(w)
           v == Append(w, x)
<1>1. N \in Nat /\ v \in Seq(Seq(S)) /\ Len(v) = N + 1 /\ v[N + 1] = x
      /\ \A i \in 1 .. N : v[i] = w[i]
  BY AppendProperties
<1> HIDE DEF v
<1>2. PICK f \in [0 .. Len(v) -> Seq(S)] : IsFlattening(v, f)
  BY <1>1, FlatteningExists
<1>3. FlattenSeq(v) = f[N + 1] /\ N + 1 \in 1 .. Len(v)
  <2>1. FlattenSeq(v) = f[Len(v)]
    BY <1>1, <1>2, FlattenIs
  <2> QED
    BY <1>1, <2>1
<1>4. f[N + 1] = f[N] \o x
  <2>1. (N + 1) - 1 = N
    BY <1>1
  <2> QED
    BY <1>1, <1>2, <1>3, <2>1 DEF IsFlattening
<1>5. FlattenSeq(w) = f[N]
  <2> DEFINE g == [i \in 0 .. N |-> f[i]]
  <2>1. g \in [0 .. N -> Seq(S)] /\ \A i \in 0 .. N : g[i] = f[i]
    BY <1>1
  <2> HIDE DEF g
  <2>2. \A n \in 1 .. N : n \in 1 .. Len(v) /\ n - 1 \in 0 .. N /\ n \in 0 .. N
    BY <1>1
  <2>3. IsFlattening(w, g)
    <3>1. g[0] = <<>>
      BY <1>1, <1>2, <2>1 DEF IsFlattening
    <3>2. ASSUME NEW n \in 1 .. N PROVE g[n] = g[n - 1] \o w[n]
      BY <1>1, <1>2, <2>1, <2>2 DEF IsFlattening
    <3> QED
      BY <3>1, <3>2 DEF IsFlattening
  <2>4. FlattenSeq(w) = g[N]
    BY <2>1, <2>3, FlattenIs
  <2> QED
    BY <1>1, <2>1, <2>4
<1> QED
  BY <1>3, <1>4, <1>5 DEF v

LEMMA FlattenType ==
  ASSUME NEW S, NEW w \in Seq(Seq(S))
  PROVE  FlattenSeq(w) \in Seq(S)
<1>1. PICK f \in [0 .. Len(w) -> Seq(S)] : IsFlattening(w, f)
  BY FlatteningExists
<1> QED
  BY <1>1, FlattenIs

LEMMA FlattenOne ==
  ASSUME NEW S, NEW x \in Seq(S)
  PROVE  FlattenSeq(<<x>>) = x
<1>1. <<x>> = Append(<<>>, x) /\ <<>> \in Seq(Seq(S))
  OBVIOUS
<1>2. FlattenSeq(<<x>>) = FlattenSeq(<<>>) \o x
  BY <1>1, FlattenAppend
<1> QED
  BY <1>2, FlattenEmpty, ConcatEmptySeq

LEMMA FlattenConcat ==
  ASSUME NEW S, NEW v \in Seq(Seq(S)), NEW w \in Seq(Seq(S))
  PROVE  FlattenSeq(v \o w) = FlattenSeq(v) \o FlattenSeq(w)
<1> DEFINE T == {t \in Seq(Seq(S)) : FlattenSeq(v \o t) = FlattenSeq(v) \o FlattenSeq(t)}
<1>1. <<>> \in T
  <2>1. v \o <<>> = v /\ FlattenSeq(<<>>) = <<>> /\ <<>> \in Seq(Seq(S))
    BY ConcatEmptySeq, FlattenEmpty
  <2>2. FlattenSeq(v) \o <<>> = FlattenSeq(v)
    BY FlattenType, ConcatEmptySeq
  <2> QED
    BY <2>1, <2>2
<1>2. ASSUME NEW s \in Seq(Seq(S)), NEW e \in Seq(S), s \in T
      PROVE  Append(s, e) \in T
  <2>1. v \o Append(s, e) = Append(v \o s, e) /\ v \o s \in Seq(Seq(S)) /\ Append(s, e) \in Seq(Seq(S))
    <3>1. v \o s \in Seq(Seq(S)) /\ <<e>> \in Seq(Seq(S))
      BY ConcatProperties
    <3>2. Append(s, e) = s \o <<e>> /\ Append(v \o s, e) = (v \o s) \o <<e>>
      BY <3>1, AppendIsConcat
    <3> QED
      BY <3>1, <3>2, ConcatAssociative, AppendProperties, SMTT(30)
  <2>2. FlattenSeq(v \o Append(s, e)) = FlattenSeq(v \o s) \o e
    BY <2>1, FlattenAppend
  <2>3. FlattenSeq(Append(s, e)) = FlattenSeq(s) \o e
    BY FlattenAppend
  <2>4. FlattenSeq(v \o s) = FlattenSeq(v) \o FlattenSeq(s)
    BY <1>2
  <2>5. (FlattenSeq(v) \o FlattenSeq(s)) \o e = FlattenSeq(v) \o (FlattenSeq(s) \o e)
    BY FlattenType, ConcatAssociative, SMTT(30)
  <2> QED
    BY <2>1, <2>2, <2>3, <2>4, <2>5
<1>3. Seq(Seq(S)) \subseteq T
  <2> HIDE DEF T
  <2> QED
    BY <1>1, <1>2, SeqInduct
<1> QED
  BY <1>3

-------------------------------------------------------------------------------
(* What is written in a text, line breaks aside. *)

Letter(c) == IF c = NewLine THEN <<>> ELSE <<c>>
Spread(s) == [i \in DOMAIN s |-> Letter(s[i])]

LEMMA SpreadIs ==
  ASSUME NEW S, NEW s \in Seq(S)
  PROVE  /\ Spread(s) \in Seq(Seq(S)) /\ Len(Spread(s)) = Len(s)
         /\ \A i \in 1 .. Len(s) : Spread(s)[i] = Letter(s[i])
         /\ Letters(s) = FlattenSeq(Spread(s)) /\ Letters(s) \in Seq(S)
<1> DEFINE N == Len(s)
<1>1. N \in Nat /\ DOMAIN s = 1 .. N /\ \A i \in 1 .. N : Letter(s[i]) \in Seq(S)
  BY DEF Letter
<1>2. Spread(s) \in Seq(Seq(S)) /\ Len(Spread(s)) = N
      /\ \A i \in 1 .. N : Spread(s)[i] = Letter(s[i])
  BY <1>1 DEF Spread
<1>3. Letters(s) = FlattenSeq(Spread(s))
  BY DEF Letters, Spread, Letter
<1> QED
  BY <1>2, <1>3, FlattenType

LEMMA LettersEmpty == Letters(<<>>) = <<>>
<1>2. Letters(<<>>) = FlattenSeq(<<>>)
  BY DEF Letters
<1> QED
  BY <1>2, FlattenEmpty

LEMMA LettersOne ==
  ASSUME NEW S, NEW c \in S
  PROVE  Letters(<<c>>) = Letter(c) /\ Letter(c) \in Seq(S) /\ <<c>> \in Seq(S)
<1> DEFINE x == <<c>>
           y == <<Letter(c)>>
<1>1. x \in Seq(S) /\ Len(x) = 1 /\ x[1] = c
  OBVIOUS
<1>2. Letter(c) \in Seq(S)
  BY DEF Letter
<1>3. y \in Seq(Seq(S)) /\ Len(y) = 1 /\ y[1] = Letter(c)
  BY <1>2
<1>4. FlattenSeq(y) = Letter(c)
  BY <1>2, FlattenOne
<1> HIDE DEF x, y
<1>5. /\ Spread(x) \in Seq(Seq(S)) /\ Len(Spread(x)) = 1 /\ Letters(x) = FlattenSeq(Spread(x))
      /\ \A i \in 1 .. 1 : Spread(x)[i] = Letter(x[i])
  BY <1>1, SpreadIs
<1>6. Spread(x) = y
  BY <1>1, <1>3, <1>5, SeqEqual
<1>7. Letters(x) = Letter(c)
  BY <1>4, <1>5, <1>6
<1> QED
  BY <1>1, <1>2, <1>7 DEF x

LEMMA LettersConcat ==
  ASSUME NEW S, NEW s \in Seq(S), NEW t \in Seq(S)
  PROVE  Letters(s \o t) = Letters(s) \o Letters(t)
<1> DEFINE u == s \o t
           a == Spread(s)
           b == Spread(t)
<1>1. /\ u \in Seq(S) /\ Len(s) \in Nat /\ Len(t) \in Nat /\ Len(u) = Len(s) + Len(t)
      /\ \A i \in 1 .. Len(u) : u[i] = IF i <= Len(s) THEN s[i] ELSE t[i - Len(s)]
  BY ConcatProperties
<1> HIDE DEF u
<1>2. /\ a \in Seq(Seq(S)) /\ Len(a) = Len(s) /\ \A i \in 1 .. Len(s) : a[i] = Letter(s[i])
      /\ b \in Seq(Seq(S)) /\ Len(b) = Len(t) /\ \A i \in 1 .. Len(t) : b[i] = Letter(t[i])
  BY SpreadIs
<1>3. /\ Spread(u) \in Seq(Seq(S)) /\ Len(Spread(u)) = Len(u)
      /\ \A i \in 1 .. Len(u) : Spread(u)[i] = Letter(u[i])
  BY <1>1, SpreadIs
<1>5. Letters(s) = FlattenSeq(a) /\ Letters(t) = FlattenSeq(b) /\ Letters(u) = FlattenSeq(Spread(u))
  BY <1>1, SpreadIs
<1> HIDE DEF a, b
<1>4. Spread(u) = a \o b
  <2>1. /\ a \o b \in Seq(Seq(S)) /\ Len(a \o b) = Len(u)
        /\ \A i \in 1 .. Len(u) : (a \o b)[i] = IF i <= Len(s) THEN a[i] ELSE b[i - Len(s)]
    BY <1>1, <1>2, ConcatProperties
  <2>2. ASSUME NEW i \in 1 .. Len(u) PROVE Spread(u)[i] = (a \o b)[i]
    <3>1. CASE i <= Len(s)
      <4>1. i \in 1 .. Len(s)
        BY <3>1
      <4> QED
        BY <1>1, <1>2, <1>3, <2>1, <3>1, <4>1
    <3>2. CASE ~(i <= Len(s))
      <4>1. i - Len(s) \in 1 .. Len(t)
        BY <1>1, <3>2
      <4> QED
        BY <1>1, <1>2, <1>3, <2>1, <3>2, <4>1
    <3> QED
      BY <3>1, <3>2
  <2> QED
    BY <1>3, <2>1, <2>2, SeqEqual
<1>6. FlattenSeq(a \o b) = FlattenSeq(a) \o FlattenSeq(b)
  BY <1>2, FlattenConcat
<1> QED
  BY <1>4, <1>5, <1>6 DEF u

LEMMA WrittenIs ==
  ASSUME NEW S, NEW w \in Seq(Seq(S))
  PROVE  /\ Written(w) \in Seq(S) /\ Written(<<>>) = <<>>
         /\ \A x \in Seq(S) : Written(Append(w, x)) = Written(w) \o Letters(x)
         /\ \A v \in Seq(Seq(S)) : Written(w \o v) = Written(w) \o Written(v)
<1>1. FlattenSeq(w) \in Seq(S)
  BY FlattenType
<1>2. Written(w) \in Seq(S)
  BY <1>1, SpreadIs DEF Written
<1>3. Written(<<>>) = <<>>
  BY FlattenEmpty, LettersEmpty DEF Written
<1>4. ASSUME NEW x \in Seq(S) PROVE Written(Append(w, x)) = Written(w) \o Letters(x)
  <2>1. FlattenSeq(Append(w, x)) = FlattenSeq(w) \o x
    BY FlattenAppend
  <2> QED
    BY <1>1, <2>1, LettersConcat DEF Written
<1>5. ASSUME NEW v \in Seq(Seq(S)) PROVE Written(w \o v) = Written(w) \o Written(v)
  <2>1. FlattenSeq(w \o v) = FlattenSeq(w) \o FlattenSeq(v) /\ FlattenSeq(v) \in Seq(S)
    BY FlattenConcat, FlattenType
  <2> QED
    BY <1>1, <2>1, LettersConcat DEF Written
<1> QED
  BY <1>2, <1>3, <1>4, <1>5

LEMMA WrittenAppend ==
  ASSUME NEW S, NEW w \in Seq(Seq(S)), NEW x \in Seq(S)
  PROVE  /\ Written(Append(w, x)) = Written(w) \o Letters(x)
         /\ Append(w, x) \in Seq(Seq(S))
         /\ Written(w) \in Seq(S) /\ Letters(x) \in Seq(S)
<1>1. Written(w) \in Seq(S) /\ \A y \in Seq(S) : Written(Append(w, y)) = Written(w) \o Letters(y)
  BY WrittenIs
<1> QED
  BY <1>1, SpreadIs, AppendProperties

-------------------------------------------------------------------------------
(* Packing pieces into messages. *)

LEMMA FrontLast ==
  ASSUME NEW S, NEW v \in Seq(S), v # <<>>
  PROVE  Front(v) \in Seq(S) /\ Last(v) \in S /\ v = Append(Front(v), Last(v))
<1>1. Len(v) \in 1 .. Len(v)
  OBVIOUS
<1>2. /\ SubSeq(v, 1, Len(v)) = Append(SubSeq(v, 1, Len(v) - 1), v[Len(v)])
      /\ SubSeq(v, 1, Len(v) - 1) \in Seq(S) /\ v[Len(v)] \in S
  BY <1>1, SubSeqIsAppend
<1>3. SubSeq(v, 1, Len(v)) = v
  BY SubSeqFull
<1> QED
  BY <1>2, <1>3 DEF Front, Last

\* y is a part of x, and of a text of v.
IsIn(S, y, x) == \E a, b \in Seq(S) : x = (a \o y) \o b
Holds(S, v, y) == \E k \in DOMAIN v : IsIn(S, y, v[k])

LEMMA HoldsAppend ==
  ASSUME NEW S, NEW v \in Seq(Seq(S)), NEW x \in Seq(S), NEW y
  PROVE  Holds(S, Append(v, x), y) <=> Holds(S, v, y) \/ IsIn(S, y, x)
<1> DEFINE u == Append(v, x)
           n == Len(v)
<1>1. /\ n \in Nat /\ DOMAIN v = 1 .. n /\ DOMAIN u = 1 .. n + 1
      /\ \A i \in 1 .. n : u[i] = v[i]
      /\ u[n + 1] = x
  BY AppendProperties
<1> HIDE DEF u, n
<1>2. ASSUME Holds(S, u, y) PROVE Holds(S, v, y) \/ IsIn(S, y, x)
  <2>1. PICK k \in 1 .. n + 1 : IsIn(S, y, u[k])
    BY <1>1, <1>2 DEF Holds
  <2>2. k \in 1 .. n \/ k = n + 1
    BY <1>1
  <2> QED
    BY <1>1, <2>1, <2>2 DEF Holds
<1>3. ASSUME Holds(S, v, y) PROVE Holds(S, u, y)
  <2>1. PICK k \in 1 .. n : IsIn(S, y, v[k])
    BY <1>1, <1>3 DEF Holds
  <2>2. k \in 1 .. n + 1
    BY <1>1
  <2> QED
    BY <1>1, <2>1, <2>2 DEF Holds
<1>4. ASSUME IsIn(S, y, x) PROVE Holds(S, u, y)
  <2>1. n + 1 \in 1 .. n + 1
    BY <1>1
  <2> QED
    BY <1>1, <1>4, <2>1 DEF Holds
<1> QED
  BY <1>2, <1>3, <1>4 DEF u

\* A part stays one when the text goes on, and what is put at the end is one.
LEMMA IsInGoesOn ==
  ASSUME NEW S, NEW x \in Seq(S), NEW y \in Seq(S), NEW z \in Seq(S)
  PROVE  /\ IsIn(S, y, x) => IsIn(S, y, x \o z)
         /\ IsIn(S, y, x \o y) /\ IsIn(S, y, y)
<1>1. ASSUME IsIn(S, y, x) PROVE IsIn(S, y, x \o z)
  <2>1. PICK a \in Seq(S), b \in Seq(S) : x = (a \o y) \o b
    BY <1>1 DEF IsIn
  <2>2. a \o y \in Seq(S) /\ b \o z \in Seq(S)
    BY ConcatProperties
  <2>3. x \o z = (a \o y) \o (b \o z)
    BY <2>1, <2>2, ConcatAssociative, SMTT(30)
  <2> QED
    BY <2>2, <2>3 DEF IsIn
<1>2. <<>> \in Seq(S)
  OBVIOUS
<1>3. x \o y = (x \o y) \o <<>>
  BY ConcatProperties, ConcatEmptySeq
<1>4. y = (<<>> \o y) \o <<>>
  BY ConcatEmptySeq
<1> QED
  BY <1>1, <1>2, <1>3, <1>4 DEF IsIn

LEMMA NothingIsInEmpty ==
  ASSUME NEW S, NEW y \in Seq(S), IsIn(S, y, <<>>)
  PROVE  y = <<>>
<1>1. PICK a \in Seq(S), b \in Seq(S) : <<>> = (a \o y) \o b
  BY DEF IsIn
<1> DEFINE c == a \o y
<1>2. c \in Seq(S)
  BY ConcatProperties
<1>3. c = <<>> => y = <<>>
  BY ConcatEqualIffEmpty
<1>4. c \o b = <<>>
  BY <1>1
<1> HIDE DEF c
<1>5. c = <<>>
  BY <1>2, <1>4, ConcatEqualIffEmpty
<1> QED
  BY <1>3, <1>5

\* Two texts of G with the separator between them are one.
IsClosed(G, sep) == \A x, y \in G : (x \o sep) \o y \in G

\* What may be sent of the texts G.
Sendable(G) == {x \in G : x # <<>> /\ Len(x) <= MaxChars}

\* The messages v that the pieces d have become, the last one still being filled.
IsPacking(S, G, v, d) ==
  /\ \E front \in Seq(Sendable(G)), current \in Sendable(G) \cup {<<>>} : v = Append(front, current)
  /\ Written(v) = Written(d)
  /\ \A i \in DOMAIN d : d[i] # <<>> => Holds(S, v, d[i])

LEMMA FrontOfAppend ==
  ASSUME NEW S, NEW s \in Seq(S), NEW e \in S
  PROVE  Front(Append(s, e)) = s /\ Last(Append(s, e)) = e
<1> DEFINE v == Append(s, e)
           n == Len(s)
<1>1. v \in Seq(S) /\ Len(v) = n + 1 /\ v[n + 1] = e /\ n \in Nat /\ \A i \in 1 .. n : v[i] = s[i]
  BY AppendProperties
<1> HIDE DEF v
<1>2. SubSeq(v, 1, n) \in Seq(S) /\ Len(SubSeq(v, 1, n)) = n
      /\ \A i \in 1 .. n : SubSeq(v, 1, n)[i] = v[i]
  BY <1>1
<1>3. SubSeq(v, 1, n) = s
  BY <1>1, <1>2, SeqEqual
<1>4. Len(v) - 1 = n
  BY <1>1
<1> QED
  BY <1>1, <1>3, <1>4 DEF Front, Last, v

LEMMA AppendIsNonEmpty ==
  ASSUME NEW S, NEW s \in Seq(S), NEW e \in S
  PROVE  /\ Append(s, e) \in Seq(S) \ {<<>>} /\ s \o <<e>> \in Seq(S) \ {<<>>}
         /\ s \o <<e>> = Append(s, e)
<1>1. Append(s, e) \in Seq(S) /\ Append(s, e) # <<>>
  BY AppendProperties
<1>2. s \o <<e>> = Append(s, e)
  BY AppendIsConcat
<1> QED
  BY <1>1, <1>2

\* A piece goes on with the current message, or begins one when that is not empty.
LEMMA AddPieceKeeps ==
  ASSUME NEW S, NEW G, G \subseteq Seq(S), NEW sep \in Seq(S), Letters(sep) = <<>>,
         IsClosed(G, sep),
         NEW v, NEW d \in Seq(G), IsPacking(S, G, v, d),
         NEW piece \in G, Len(piece) <= MaxChars
  PROVE  IsPacking(S, G, AddPiece(v, piece, sep), Append(d, piece))
<1> DEFINE F == Sendable(G)
           next == AddPiece(v, piece, sep)
           e == Append(d, piece)
<1>1. PICK front \in Seq(F), current \in F \cup {<<>>} : v = Append(front, current)
  BY DEF IsPacking
<1>2. F \subseteq Seq(S) /\ current \in Seq(S) /\ piece \in Seq(S) /\ piece \in F \cup {<<>>}
  <2>1. F \subseteq Seq(S) /\ piece \in F \cup {<<>>} /\ piece \in Seq(S)
    BY DEF Sendable
  <2>2. <<>> \in Seq(S)
    OBVIOUS
  <2> HIDE DEF F
  <2> QED
    BY <2>1, <2>2
<1>3. front \in Seq(Seq(S)) /\ d \in Seq(Seq(S)) /\ v \in Seq(Seq(S))
  <2>1. front \in Seq(Seq(S)) /\ d \in Seq(Seq(S))
    BY <1>2, SeqMonotonic
  <2> QED
    BY <1>1, <1>2, <2>1, AppendProperties
<1>11. Last(v) = current /\ Front(v) = front
  BY <1>1, <1>2, <1>3, FrontOfAppend
<1>4. Written(e) = Written(d) \o Letters(piece) /\ Written(v) = Written(d)
  BY <1>2, <1>3, WrittenIs DEF IsPacking
<1>5. Len(d) \in Nat /\ DOMAIN d = 1 .. Len(d) /\ DOMAIN e = 1 .. Len(d) + 1 /\ e[Len(d) + 1] = piece
      /\ \A i \in 1 .. Len(d) : e[i] = d[i]
  BY AppendProperties
<1> HIDE DEF e
<1>6. ASSUME NEW w, \A y \in Seq(S) : y # <<>> /\ Holds(S, v, y) => Holds(S, w, y),
             piece # <<>> => Holds(S, w, piece)
      PROVE  \A i \in DOMAIN e : e[i] # <<>> => Holds(S, w, e[i])
  <2> SUFFICES ASSUME NEW i \in 1 .. Len(d) + 1, e[i] # <<>> PROVE Holds(S, w, e[i])
    BY <1>5
  <2>1. CASE i = Len(d) + 1
    BY <1>5, <1>6, <2>1
  <2>2. CASE i # Len(d) + 1
    <3>1. i \in 1 .. Len(d)
      BY <1>5, <2>2
    <3>3. d[i] \in Seq(S) /\ e[i] = d[i] /\ i \in DOMAIN d
      BY <1>3, <1>5, <3>1
    <3>4. Holds(S, v, d[i])
      BY <2>2, <3>3 DEF IsPacking
    <3>2. d[i] \in Seq(S) /\ e[i] = d[i] /\ Holds(S, v, d[i])
      BY <3>3, <3>4
    <3> QED
      BY <1>6, <3>2
  <2> QED
    BY <2>1, <2>2
<1>7. CASE current = <<>>
  <2> DEFINE w == Append(front, piece)
  <2>1. next = w
    <3>1. next = front \o <<piece>>
      BY <1>7, <1>11 DEF AddPiece
    <3> QED
      BY <1>2, <1>3, <3>1, AppendIsConcat
  <2>2. Written(w) = Written(front) \o Letters(piece)
    BY <1>2, <1>3, WrittenAppend
  <2>3. Written(v) = Written(front)
    <3>1. Written(v) = Written(front) \o Letters(<<>>)
      BY <1>1, <1>2, <1>3, <1>7, WrittenAppend
    <3>2. Written(front) \in Seq(S)
      BY <1>3, WrittenIs
    <3>3. Written(front) \o <<>> = Written(front)
      BY <3>2, ConcatEmptySeq
    <3> QED
      BY <3>1, <3>3, LettersEmpty
  <2>4. Written(w) = Written(e)
    BY <1>4, <2>2, <2>3
  <2>5. \A y \in Seq(S) : y # <<>> /\ Holds(S, v, y) => Holds(S, w, y)
    <3> SUFFICES ASSUME NEW y \in Seq(S), y # <<>>, Holds(S, v, y) PROVE Holds(S, w, y)
      OBVIOUS
    <3>1. Holds(S, front, y) \/ IsIn(S, y, current)
      BY <1>1, <1>2, <1>3, HoldsAppend
    <3>2. Holds(S, front, y)
      BY <1>7, <3>1, NothingIsInEmpty
    <3> QED
      BY <1>2, <1>3, <3>2, HoldsAppend
  <2>6. Holds(S, w, piece)
    BY <1>2, <1>3, HoldsAppend, IsInGoesOn
  <2>7. \E a \in Seq(F), b \in F \cup {<<>>} : w = Append(a, b)
    BY <1>2
  <2> HIDE DEF w
  <2> QED
    BY <1>6, <2>1, <2>4, <2>5, <2>6, <2>7 DEF IsPacking, e
<1>8. CASE current # <<>> /\ next = front \o <<(current \o sep) \o piece>>
           /\ Len((current \o sep) \o piece) <= MaxChars
  <2> DEFINE longer == (current \o sep) \o piece
             w == Append(front, longer)
  <2>1. current \in G /\ current \in F
    BY <1>8 DEF Sendable
  <2>2. longer \in Seq(S) /\ longer \in G /\ Len(longer) <= MaxChars
    BY <1>2, <1>8, <2>1 DEF IsClosed
  <2>3. current \o sep \in Seq(S)
    BY <1>2, ConcatProperties
  <2>4. longer # <<>>
    <3> DEFINE c == current \o sep
    <3>1. c # <<>> /\ c \in Seq(S)
      BY <1>2, <1>8, <2>3, ConcatEqualIffEmpty
    <3> HIDE DEF c
    <3>2. c \o piece # <<>>
      BY <1>2, <3>1, ConcatEqualIffEmpty
    <3> QED
      BY <3>2 DEF c
  <2>5. longer \in F
    BY <2>2, <2>4 DEF Sendable
  <2>6. Letters(longer) = Letters(current) \o Letters(piece)
    <3>1. Letters(longer) = Letters(current \o sep) \o Letters(piece)
      BY <1>2, <2>3, LettersConcat
    <3>2. Letters(current \o sep) = Letters(current) \o Letters(sep)
      BY <1>2, LettersConcat
    <3>3. Letters(current) \o <<>> = Letters(current)
      BY <1>2, SpreadIs, ConcatEmptySeq
    <3> QED
      BY <3>1, <3>2, <3>3
  <2>7. \A y \in Seq(S) : IsIn(S, y, current) => IsIn(S, y, longer)
    <3> SUFFICES ASSUME NEW y \in Seq(S), IsIn(S, y, current) PROVE IsIn(S, y, longer)
      OBVIOUS
    <3>1. IsIn(S, y, current \o sep)
      BY <1>2, IsInGoesOn
    <3> QED
      BY <1>2, <2>3, <3>1, IsInGoesOn
  <2>8. IsIn(S, piece, longer)
    BY <1>2, <2>3, IsInGoesOn
  <2> HIDE DEF longer
  <2>9. next = w
    <3>1. front \o <<longer>> = Append(front, longer)
      BY <2>5, AppendIsConcat
    <3> QED
      BY <1>8, <3>1 DEF longer
  <2>10. Written(w) = Written(e)
    <3>1. Written(w) = Written(front) \o (Letters(current) \o Letters(piece))
      <4>1. Written(w) = Written(front) \o Letters(longer)
        BY <1>3, <2>2, WrittenAppend
      <4> QED
        BY <2>6, <4>1
    <3>2. Written(v) = Written(front) \o Letters(current)
      BY <1>1, <1>2, <1>3, WrittenAppend
    <3> DEFINE a == Written(front)
               b == Letters(current)
               c == Letters(piece)
    <3>3. a \in Seq(S) /\ b \in Seq(S) /\ c \in Seq(S)
      BY <1>2, <1>3, WrittenIs, SpreadIs
    <3> HIDE DEF a, b, c
    <3>5. (a \o b) \o c = a \o (b \o c)
      BY <3>3, ConcatAssociative, SMTT(30)
    <3>4. (Written(front) \o Letters(current)) \o Letters(piece)
            = Written(front) \o (Letters(current) \o Letters(piece))
      BY <3>5 DEF a, b, c
    <3> QED
      BY <1>4, <3>1, <3>2, <3>4
  <2>11. \A y \in Seq(S) : Holds(S, v, y) => Holds(S, w, y)
    <3> SUFFICES ASSUME NEW y \in Seq(S), Holds(S, v, y) PROVE Holds(S, w, y)
      OBVIOUS
    <3>1. Holds(S, front, y) \/ IsIn(S, y, current)
      BY <1>1, <1>2, <1>3, HoldsAppend
    <3> QED
      BY <1>3, <2>2, <2>7, <3>1, HoldsAppend
  <2>12. Holds(S, w, piece)
    BY <1>3, <2>2, <2>8, HoldsAppend
  <2>13. \E a \in Seq(F), b \in F \cup {<<>>} : w = Append(a, b)
    BY <2>5
  <2> HIDE DEF w
  <2> QED
    BY <1>6, <2>9, <2>10, <2>11, <2>12, <2>13 DEF IsPacking, e
<1>9. CASE current # <<>> /\ next = Append(v, piece)
  <2> DEFINE w == Append(v, piece)
  <2>1. current \in F /\ v \in Seq(F)
    BY <1>1, <1>9, AppendProperties
  <2>2. Written(w) = Written(e)
    <3>1. Written(w) = Written(v) \o Letters(piece)
      BY <1>2, <1>3, WrittenAppend
    <3> QED
      BY <1>4, <3>1
  <2>3. \A y \in Seq(S) : Holds(S, v, y) => Holds(S, w, y)
    BY <1>2, <1>3, HoldsAppend
  <2>4. Holds(S, w, piece)
    BY <1>2, <1>3, HoldsAppend, IsInGoesOn
  <2>5. \E a \in Seq(F), b \in F \cup {<<>>} : w = Append(a, b)
    BY <1>2, <2>1
  <2> HIDE DEF w
  <2>6. next = w
    BY <1>9 DEF w
  <2> QED
    BY <1>6, <2>2, <2>3, <2>4, <2>5, <2>6 DEF IsPacking, e
<1>10. current # <<>> => \/ /\ next = front \o <<(current \o sep) \o piece>>
                            /\ Len((current \o sep) \o piece) <= MaxChars
                         \/ next = Append(v, piece)
  <2> SUFFICES ASSUME current # <<>>
               PROVE  \/ /\ next = front \o <<(current \o sep) \o piece>>
                         /\ Len((current \o sep) \o piece) <= MaxChars
                      \/ next = Append(v, piece)
    OBVIOUS
  <2> DEFINE longer == (current \o sep) \o piece
  <2>2. \/ current = <<>> /\ next = front \o <<piece>>
        \/ /\ current # <<>> /\ Len(longer) <= MaxChars
           /\ next = front \o <<longer>>
        \/ current # <<>> /\ next = Append(v, piece)
    BY <1>11 DEF AddPiece
  <2> HIDE DEF longer
  <2> QED
    BY <2>2 DEF longer
<1> QED
  BY <1>7, <1>8, <1>9, <1>10

LEMMA PackIs ==
  ASSUME NEW S, NEW G, G \subseteq Seq(S), <<>> \in G,
         NEW sep \in Seq(S), Letters(sep) = <<>>, IsClosed(G, sep),
         NEW p \in Seq(G), \A i \in 1 .. Len(p) : Len(p[i]) <= MaxChars
  PROVE  /\ Pack(p, sep) \in Seq(Sendable(G)) /\ Written(Pack(p, sep)) = Written(p)
         /\ \A i \in 1 .. Len(p) : p[i] # <<>> => Holds(S, Pack(p, sep), p[i])
<1> DEFINE N == Len(p)
           F == Sendable(G)
           a == <<<<>>>>
           Step(f) == [n \in 0 .. N |-> IF n = 0 THEN a ELSE AddPiece(f[n - 1], p[n], sep)]
           c == CHOOSE f : f = Step(f)
           V == Seq(G) \ {<<>>}
           step == [n \in 1 .. N |-> [v \in V |-> AddPiece(v, p[n], sep)]]
           upto(n) == SubSeq(p, 1, n)
<1>1. N \in Nat /\ N \in 0 .. N /\ \A n \in 1 .. N : p[n] \in G /\ n - 1 \in 0 .. N /\ n \in 0 .. N
  OBVIOUS
<1>2. F \subseteq Seq(S) /\ F \subseteq G
  BY DEF Sendable
<1>3. \E f : f = Step(f)
  <2>1. a \in V
    OBVIOUS
  <2>2. \A n \in 1 .. N : \A v \in V : step[n][v] = AddPiece(v, p[n], sep)
    OBVIOUS
  <2>3. ASSUME NEW n \in 1 .. N, NEW v \in V PROVE step[n][v] \in V
    <3>1. v \in Seq(G) /\ v # <<>>
      OBVIOUS
    <3>2. Front(v) \in Seq(G) /\ Last(v) \in G /\ v = Append(Front(v), Last(v))
      BY <3>1, FrontLast
    <3> DEFINE front == Front(v)
               current == Last(v)
               longer == (current \o sep) \o p[n]
    <3>3. \/ AddPiece(v, p[n], sep) = front \o <<p[n]>>
          \/ current # <<>> /\ AddPiece(v, p[n], sep) = front \o <<longer>>
          \/ AddPiece(v, p[n], sep) = Append(v, p[n])
      BY DEF AddPiece
    <3>4. longer \in G /\ p[n] \in G
      BY <1>1, <3>2 DEF IsClosed
    <3> HIDE DEF front, current, longer, V
    <3>5. front \in Seq(G)
      BY <3>2 DEF front
    <3>6. ASSUME NEW x \in G PROVE front \o <<x>> \in V /\ Append(v, x) \in V
      BY <3>1, <3>5, AppendIsNonEmpty DEF V
    <3>7. AddPiece(v, p[n], sep) \in V
      BY <3>3, <3>4, <3>6
    <3> HIDE DEF step
    <3> QED
      BY <2>2, <3>7
  <2>4. PICK f : IsRecursion(f, N, V, a, step)
    <3> HIDE DEF N, V, a, step
    <3> QED
      BY <1>1, <2>1, <2>3, Recursion
  <2>5. f \in [0 .. N -> V] /\ f[0] = a /\ \A n \in 1 .. N : f[n] = step[n][f[n - 1]]
    BY <2>4 DEF IsRecursion
  <2>6. \A n \in 0 .. N : f[n] = IF n = 0 THEN a ELSE AddPiece(f[n - 1], p[n], sep)
    <3> HIDE DEF V, a, step
    <3> SUFFICES ASSUME NEW n \in 0 .. N PROVE f[n] = IF n = 0 THEN a ELSE AddPiece(f[n - 1], p[n], sep)
      OBVIOUS
    <3>1. CASE n = 0
      BY <2>5, <3>1
    <3>2. CASE n # 0
      <4>1. n \in 1 .. N /\ n - 1 \in 0 .. N
        BY <1>1, <3>2
      <4>2. f[n - 1] \in V
        BY <2>5, <4>1
      <4> QED
        BY <2>2, <2>5, <3>2, <4>1, <4>2
    <3> QED
      BY <3>1, <3>2
  <2>7. f = [n \in 0 .. N |-> f[n]]
    BY <2>5
  <2>8. f = Step(f)
    BY <2>6, <2>7
  <2> HIDE DEF Step
  <2> QED
    BY <2>8
<1>4. c = Step(c)
  <2> HIDE DEF Step
  <2> QED
    BY <1>3
<1> HIDE DEF step, V
<1>5. Pack(p, sep) = IF Last(c[N]) = <<>> THEN Front(c[N]) ELSE c[N]
  BY DEF Pack
<1> HIDE DEF c
<1>6. c[0] = a /\ \A n \in 1 .. N : c[n] = AddPiece(c[n - 1], p[n], sep)
  <2> HIDE DEF a
  <2>1. \A n \in 0 .. N : c[n] = IF n = 0 THEN a ELSE AddPiece(c[n - 1], p[n], sep)
    BY <1>4
  <2> HIDE DEF Step, N
  <2>2. 0 \in 0 .. N /\ \A n \in 1 .. N : n \in 0 .. N /\ n # 0
    BY <1>1
  <2> QED
    BY <2>1, <2>2
<1> HIDE DEF Step
<1> DEFINE T == {n \in 0 .. N : IsPacking(S, G, c[n], upto(n))}
<1>7. 0 \in T
  <2> DEFINE none == <<>>
  <2>1. <<<<>>>> = Append(none, <<>>) /\ a = <<<<>>>> /\ none \in Seq(F) /\ <<>> \in F \cup {<<>>} /\ none \in Seq(Seq(S))
    OBVIOUS
  <2>2. upto(0) = none /\ DOMAIN none = {}
    BY SubSeqEmpty
  <2>3. Written(<<<<>>>>) = Written(none)
    <3>1. <<>> \in Seq(S)
      OBVIOUS
    <3>2. Written(<<<<>>>>) = Written(none) \o Letters(<<>>) /\ Written(none) \in Seq(S)
      BY <2>1, <3>1, WrittenAppend
    <3> HIDE DEF none
    <3> QED
      BY <3>2, LettersEmpty, ConcatEmptySeq
  <2> HIDE DEF none, upto
  <2>5. Written(a) = Written(none) /\ a = Append(none, <<>>)
    BY <2>1, <2>3
  <2> HIDE DEF a
  <2>4. IsPacking(S, G, a, none)
    BY <2>1, <2>2, <2>5 DEF IsPacking
  <2> QED
    BY <1>1, <1>6, <2>2, <2>4
<1>8. ASSUME NEW n \in 1 .. N, n - 1 \in T PROVE n \in T
  <2>1. upto(n) = Append(upto(n - 1), p[n]) /\ upto(n - 1) \in Seq(G) /\ p[n] \in G
    BY SubSeqIsAppend
  <2> HIDE DEF upto
  <2>2. Len(p[n]) <= MaxChars /\ IsPacking(S, G, c[n - 1], upto(n - 1))
    BY <1>8
  <2>3. IsPacking(S, G, AddPiece(c[n - 1], p[n], sep), Append(upto(n - 1), p[n]))
    BY <2>1, <2>2, AddPieceKeeps
  <2>4. c[n] = AddPiece(c[n - 1], p[n], sep)
    BY <1>6
  <2> QED
    BY <1>1, <2>1, <2>3, <2>4
<1>9. N \in T
  <2> HIDE DEF T
  <2> QED
    BY <1>1, <1>7, <1>8, UpTo
<1>10. upto(N) = p
  BY SubSeqFull
<1> HIDE DEF upto
<1>11. IsPacking(S, G, c[N], p)
  BY <1>9, <1>10
<1>12. PICK front \in Seq(F), current \in F \cup {<<>>} : c[N] = Append(front, current)
  BY <1>11 DEF IsPacking
<1>13. Written(c[N]) = Written(p) /\ \A i \in 1 .. N : p[i] # <<>> => Holds(S, c[N], p[i])
  BY <1>11, SMTT(30) DEF IsPacking
<1>14. front \in Seq(Seq(S)) /\ current \in Seq(S)
  <2>1. front \in Seq(Seq(S))
    BY <1>2, SeqMonotonic
  <2> QED
    BY <1>2, <2>1
<1>15. Last(c[N]) = current /\ Front(c[N]) = front
  BY <1>12, <1>14, FrontOfAppend
<1>16. CASE current = <<>>
  <2>1. Pack(p, sep) = front
    BY <1>5, <1>15, <1>16
  <2>2. Written(front) = Written(p)
    <3>1. Written(c[N]) = Written(front) \o <<>> /\ Written(front) \in Seq(S)
      BY <1>12, <1>14, <1>16, WrittenAppend, LettersEmpty
    <3> QED
      BY <1>13, <3>1, ConcatEmptySeq
  <2>3. ASSUME NEW i \in 1 .. N, p[i] # <<>> PROVE Holds(S, front, p[i])
    <3>1. p[i] \in Seq(S) /\ Holds(S, c[N], p[i])
      BY <1>1, <1>13, <2>3
    <3>2. Holds(S, front, p[i]) \/ IsIn(S, p[i], <<>>)
      BY <1>12, <1>14, <1>16, <3>1, HoldsAppend
    <3> QED
      BY <2>3, <3>1, <3>2, NothingIsInEmpty
  <2> QED
    BY <2>1, <2>2, <2>3
<1>17. CASE current # <<>>
  <2>1. Pack(p, sep) = c[N]
    BY <1>5, <1>15, <1>17
  <2>2. c[N] \in Seq(F)
    BY <1>12, <1>17, AppendProperties
  <2> QED
    BY <1>13, <2>1, <2>2
<1> QED
  BY <1>16, <1>17

-------------------------------------------------------------------------------
(* Joining parts, and the lines of a text. *)

Parts(w, sep) == [i \in DOMAIN w |-> IF i = 1 THEN w[1] ELSE sep \o w[i]]

LEMMA PartsAppend ==
  ASSUME NEW S, NEW sep \in Seq(S), NEW w \in Seq(Seq(S)), NEW x \in Seq(S)
  PROVE  /\ Parts(w, sep) \in Seq(Seq(S))
         /\ Parts(Append(w, x), sep) = Append(Parts(w, sep), IF w = <<>> THEN x ELSE sep \o x)
<1> DEFINE n == Len(w)
           v == Append(w, x)
           last == IF w = <<>> THEN x ELSE sep \o x
           all == Parts(v, sep)
           part(u, i) == IF i = 1 THEN u[1] ELSE sep \o u[i]
<1>1. /\ n \in Nat /\ DOMAIN w = 1 .. n /\ v \in Seq(Seq(S)) /\ Len(v) = n + 1 /\ DOMAIN v = 1 .. n + 1
      /\ \A i \in 1 .. n : v[i] = w[i] /\ w[i] \in Seq(S)
      /\ v[n + 1] = x
  BY AppendProperties
<1> HIDE DEF v
<1>2. ASSUME NEW i \in 1 .. n PROVE part(w, i) \in Seq(S) /\ part(v, i) = part(w, i)
  <2>1. 1 \in 1 .. n
    BY <1>1
  <2>2. sep \o w[i] \in Seq(S)
    BY <1>1, ConcatProperties
  <2> QED
    BY <1>1, <2>1, <2>2
<1>3. part(v, n + 1) = last /\ last \in Seq(S)
  <2>1. CASE w = <<>>
    BY <1>1, <2>1
  <2>2. CASE w # <<>>
    <3>1. n + 1 # 1
      BY <1>1, <2>2
    <3> QED
      BY <1>1, <2>2, <3>1, ConcatProperties
  <2> QED
    BY <2>1, <2>2
<1>4. Parts(w, sep) = [i \in 1 .. n |-> part(w, i)] /\ all = [i \in 1 .. n + 1 |-> part(v, i)]
  BY <1>1 DEF Parts
<1> HIDE DEF last, all, part
<1>5. /\ Parts(w, sep) \in Seq(Seq(S)) /\ Len(Parts(w, sep)) = n
      /\ \A i \in 1 .. n : Parts(w, sep)[i] = part(w, i)
  BY <1>1, <1>2, <1>4
<1>6. \A i \in 1 .. n + 1 : part(v, i) \in Seq(S)
  <2> SUFFICES ASSUME NEW i \in 1 .. n + 1 PROVE part(v, i) \in Seq(S)
    OBVIOUS
  <2>1. i \in 1 .. n \/ i = n + 1
    BY <1>1
  <2> QED
    BY <1>2, <1>3, <2>1
<1>7. all \in Seq(Seq(S)) /\ Len(all) = n + 1 /\ \A i \in 1 .. n + 1 : all[i] = part(v, i)
  <2> DEFINE m == n + 1
             q(i) == part(v, i)
  <2>1. m \in Nat /\ all = [i \in 1 .. m |-> q(i)] /\ \A i \in 1 .. m : q(i) \in Seq(S)
    BY <1>1, <1>4, <1>6
  <2> HIDE DEF m, q
  <2>2. all \in Seq(Seq(S)) /\ Len(all) = m /\ \A i \in 1 .. m : all[i] = q(i)
    BY <2>1
  <2> QED
    BY <2>2 DEF m, q
<1> DEFINE more == Append(Parts(w, sep), last)
<1>8. /\ more \in Seq(Seq(S)) /\ Len(more) = n + 1 /\ more[n + 1] = last
      /\ \A i \in 1 .. n : more[i] = part(w, i)
  BY <1>3, <1>5, AppendProperties
<1> HIDE DEF more
<1>9. ASSUME NEW i \in 1 .. n + 1 PROVE all[i] = more[i]
  <2>1. i \in 1 .. n \/ i = n + 1
    BY <1>1
  <2> QED
    BY <1>2, <1>3, <1>7, <1>8, <2>1
<1>10. all = more
  BY <1>7, <1>8, <1>9, SeqEqual
<1> QED
  BY <1>5, <1>10 DEF all, more, last, v

LEMMA JoinIs ==
  ASSUME NEW w, NEW sep
  PROVE  Join(w, sep) = FlattenSeq(Parts(w, sep))
BY DEF Join, Parts

LEMMA JoinEmpty ==
  ASSUME NEW sep
  PROVE  Join(<<>>, sep) = <<>>
<1>1. Parts(<<>>, sep) = <<>>
  BY DEF Parts
<1>2. Join(<<>>, sep) = FlattenSeq(<<>>)
  BY <1>1, JoinIs
<1> QED
  BY <1>2, FlattenEmpty

LEMMA JoinType ==
  ASSUME NEW S, NEW sep \in Seq(S), NEW w \in Seq(Seq(S))
  PROVE  Join(w, sep) \in Seq(S)
<1>1. <<>> \in Seq(S)
  OBVIOUS
<1>2. Parts(w, sep) \in Seq(Seq(S))
  BY <1>1, PartsAppend
<1> QED
  BY <1>2, FlattenType, JoinIs

LEMMA JoinOne ==
  ASSUME NEW S, NEW sep \in Seq(S), NEW x \in Seq(S)
  PROVE  Join(Append(<<>>, x), sep) = x
<1> DEFINE none == <<>>
           v == Append(none, x)
<1>1. none \in Seq(Seq(S)) /\ Parts(none, sep) = none
  BY DEF Parts
<1>2. Parts(v, sep) = Append(none, x)
  <2>1. none = <<>>
    OBVIOUS
  <2> HIDE DEF none
  <2>2. Parts(v, sep) = Append(Parts(none, sep), IF none = <<>> THEN x ELSE sep \o x)
    BY <1>1, PartsAppend
  <2> QED
    BY <1>1, <2>1, <2>2
<1>3. FlattenSeq(Parts(v, sep)) = FlattenSeq(none) \o x
  BY <1>1, <1>2, FlattenAppend
<1>4. <<>> \o x = x
  BY ConcatEmptySeq
<1> HIDE DEF v
<1>5. Join(v, sep) = x
  BY <1>3, <1>4, FlattenEmpty, JoinIs
<1> QED
  BY <1>5 DEF v

LEMMA JoinMore ==
  ASSUME NEW S, NEW sep \in Seq(S), NEW w \in Seq(Seq(S)), w # <<>>, NEW x \in Seq(S)
  PROVE  Join(Append(w, x), sep) = (Join(w, sep) \o sep) \o x
<1> DEFINE v == Append(w, x)
           u == Parts(w, sep)
           y == sep \o x
           j == Join(w, sep)
<1>1. Parts(v, sep) = Append(u, y) /\ u \in Seq(Seq(S))
  BY PartsAppend, ZenonT(30)
<1>2. y \in Seq(S)
  BY ConcatProperties
<1>3. Join(v, sep) = FlattenSeq(Parts(v, sep)) /\ j = FlattenSeq(u) /\ j \in Seq(S)
  BY JoinIs, JoinType
<1>5. j \o y = (j \o sep) \o x
  <2>1. j \in Seq(S) /\ sep \in Seq(S) /\ x \in Seq(S)
    BY <1>3
  <2> HIDE DEF j
  <2>2. (j \o sep) \o x = j \o (sep \o x)
    BY <2>1, ConcatAssociative, SMTT(30)
  <2> QED
    BY <2>2
<1> HIDE DEF v, u, y, j
<1>4. FlattenSeq(Append(u, y)) = FlattenSeq(u) \o y
  BY <1>1, <1>2, FlattenAppend
<1>6. Join(v, sep) = (j \o sep) \o x
  BY <1>1, <1>3, <1>4, <1>5
<1> QED
  BY <1>6 DEF v, j

\* Joined texts of G are a text of G, and the separator is no letter.
LEMMA JoinClosed ==
  ASSUME NEW S, NEW G, G \subseteq Seq(S), NEW sep \in Seq(S), IsClosed(G, sep), NEW w \in Seq(G)
  PROVE  w # <<>> => Join(w, sep) \in G
<1> DEFINE T == {u \in Seq(G) : u # <<>> => Join(u, sep) \in G}
<1>1. <<>> \in T
  OBVIOUS
<1>2. ASSUME NEW u \in Seq(G), NEW x \in G, u \in T PROVE Append(u, x) \in T
  <2>1. u \in Seq(Seq(S)) /\ x \in Seq(S) /\ Append(u, x) \in Seq(G)
    BY SeqMonotonic, AppendProperties
  <2>2. CASE u = <<>>
    <3>1. Join(Append(<<>>, x), sep) = x
      BY <2>1, JoinOne
    <3> QED
      BY <2>1, <2>2, <3>1
  <2>3. CASE u # <<>>
    <3>1. Join(u, sep) \in G
      BY <1>2, <2>3
    <3>2. Join(Append(u, x), sep) = (Join(u, sep) \o sep) \o x
      BY <2>1, <2>3, JoinMore
    <3>3. (Join(u, sep) \o sep) \o x \in G
      BY <3>1 DEF IsClosed
    <3> QED
      BY <2>1, <3>2, <3>3
  <2> QED
    BY <2>2, <2>3
<1>3. Seq(G) \subseteq T
  <2> HIDE DEF T
  <2> QED
    BY <1>1, <1>2, SeqInduct
<1> QED
  BY <1>3

LEMMA LettersOfJoin ==
  ASSUME NEW S, NEW sep \in Seq(S), Letters(sep) = <<>>, NEW w \in Seq(Seq(S))
  PROVE  Letters(Join(w, sep)) = Written(w)
<1> DEFINE T == {u \in Seq(Seq(S)) : Letters(Join(u, sep)) = Written(u)}
<1>1. <<>> \in T
  <2>1. Join(<<>>, sep) = <<>> /\ Written(<<>>) = <<>> /\ <<>> \in Seq(Seq(S))
    BY JoinEmpty, WrittenIs
  <2> QED
    BY <2>1, LettersEmpty
<1>2. ASSUME NEW u \in Seq(Seq(S)), NEW x \in Seq(S), u \in T PROVE Append(u, x) \in T
  <2>1. /\ Written(Append(u, x)) = Written(u) \o Letters(x) /\ Append(u, x) \in Seq(Seq(S))
        /\ Written(u) \in Seq(S) /\ Letters(x) \in Seq(S)
    BY WrittenAppend
  <2>2. Letters(Join(u, sep)) = Written(u) /\ Join(u, sep) \in Seq(S)
    BY <1>2, JoinType
  <2>3. CASE u = <<>>
    <3>1. Join(Append(u, x), sep) = x
      BY <2>3, JoinOne
    <3>2. Written(u) = <<>>
      BY <2>3, WrittenIs
    <3>3. <<>> \o Letters(x) = Letters(x)
      BY <2>1, ConcatEmptySeq
    <3> QED
      BY <2>1, <3>1, <3>2, <3>3
  <2>4. CASE u # <<>>
    <3> DEFINE j == Join(u, sep)
    <3>1. Join(Append(u, x), sep) = (j \o sep) \o x
      BY <2>4, JoinMore
    <3>2. j \in Seq(S) /\ Letters(j) = Written(u)
      BY <2>2
    <3> HIDE DEF j
    <3>3. j \o sep \in Seq(S)
      BY <3>2, ConcatProperties
    <3>4. Letters((j \o sep) \o x) = Letters(j \o sep) \o Letters(x)
      BY <3>3, LettersConcat
    <3>5. Letters(j \o sep) = Letters(j) \o Letters(sep)
      BY <3>2, LettersConcat
    <3>6. Letters(j) \o <<>> = Letters(j)
      BY <2>1, <3>2, ConcatEmptySeq
    <3> QED
      BY <2>1, <3>1, <3>2, <3>4, <3>5, <3>6
  <2> QED
    BY <2>3, <2>4
<1>3. Seq(Seq(S)) \subseteq T
  <2> HIDE DEF T
  <2> QED
    BY <1>1, <1>2, SeqInduct
<1> QED
  BY <1>3

\* The lines of the first characters, one character after the other.
IsReading(t, f) ==
  f[0] = <<<<>>>> /\ \A n \in 1 .. Len(t) : f[n] = ReadChar(f[n - 1], t[n])
NonEmpty(S) == Seq(S) \ {<<>>}

LEMMA ReadCharIs ==
  ASSUME NEW S, NEW v \in NonEmpty(Seq(S)), NEW c \in S
  PROVE  ReadChar(v, c) \in NonEmpty(Seq(S))
<1>1. v \in Seq(Seq(S)) /\ v # <<>>
  BY DEF NonEmpty
<1>2. Front(v) \in Seq(Seq(S)) /\ Last(v) \in Seq(S)
  BY <1>1, FrontLast
<1>3. Append(Last(v), c) \in Seq(S)
  BY <1>2, AppendProperties
<1>4. Append(v, <<>>) \in NonEmpty(Seq(S))
  <2>1. <<>> \in Seq(S)
    OBVIOUS
  <2> QED
    BY <1>1, <2>1, AppendIsNonEmpty DEF NonEmpty
<1>5. Front(v) \o <<Append(Last(v), c)>> \in NonEmpty(Seq(S))
  BY <1>2, <1>3, AppendIsNonEmpty DEF NonEmpty
<1> QED
  BY <1>4, <1>5 DEF ReadChar

LEMMA ReadingExists ==
  ASSUME NEW S, NEW t \in Seq(S)
  PROVE  \E f \in [0 .. Len(t) -> NonEmpty(Seq(S))] : IsReading(t, f)
<1> DEFINE N == Len(t)
           V == NonEmpty(Seq(S))
           a == <<<<>>>>
           step == [n \in 1 .. N |-> [v \in V |-> ReadChar(v, t[n])]]
<1>1. N \in Nat /\ a \in V /\ \A n \in 1 .. N : t[n] \in S /\ n - 1 \in 0 .. N
  BY DEF NonEmpty
<1>2. \A n \in 1 .. N : \A v \in V : step[n][v] = ReadChar(v, t[n])
  OBVIOUS
<1>3. \A n \in 1 .. N : \A v \in V : step[n][v] \in V
  BY <1>1, <1>2, ReadCharIs
<1>4. PICK f : IsRecursion(f, N, V, a, step)
  <2> HIDE DEF N, V, a, step
  <2> QED
    BY <1>1, <1>3, Recursion
<1>5. f \in [0 .. N -> V] /\ f[0] = a /\ \A n \in 1 .. N : f[n] = step[n][f[n - 1]]
  BY <1>4 DEF IsRecursion
<1>6. ASSUME NEW n \in 1 .. N PROVE f[n] = ReadChar(f[n - 1], t[n])
  <2>1. f[n - 1] \in V
    BY <1>1, <1>5
  <2> HIDE DEF step, V
  <2> QED
    BY <1>2, <1>5, <2>1
<1> QED
  BY <1>5, <1>6 DEF IsReading

LEMMA LinesIs ==
  ASSUME NEW S, NEW t \in Seq(S),
         NEW f \in [0 .. Len(t) -> NonEmpty(Seq(S))], IsReading(t, f)
  PROVE  Lines(t) = f[Len(t)]
<1> DEFINE N == Len(t)
           a == <<<<>>>>
           Step(g) == [n \in 0 .. N |-> IF n = 0 THEN a ELSE ReadChar(g[n - 1], t[n])]
           c == CHOOSE g : g = Step(g)
<1>1. N \in Nat /\ N \in 0 .. N
  OBVIOUS
<1>2. Lines(t) = c[N]
  BY DEF Lines
<1> HIDE DEF a
<1>3. f = Step(f)
  <2>1. \A n \in 0 .. N : f[n] = IF n = 0 THEN a ELSE ReadChar(f[n - 1], t[n])
    <3> SUFFICES ASSUME NEW n \in 0 .. N
                 PROVE  f[n] = IF n = 0 THEN a ELSE ReadChar(f[n - 1], t[n])
      OBVIOUS
    <3>1. CASE n = 0
      BY <3>1 DEF IsReading, a
    <3>2. CASE n # 0
      <4>1. n \in 1 .. N
        BY <1>1, <3>2
      <4> QED
        BY <3>2, <4>1 DEF IsReading
    <3> QED
      BY <3>1, <3>2
  <2>2. f = [n \in 0 .. N |-> f[n]]
    OBVIOUS
  <2> QED
    BY <2>1, <2>2
<1>4. c = Step(c)
  <2> HIDE DEF Step
  <2> QED
    BY <1>3
<1> HIDE DEF c
<1>5. \A n \in 0 .. N : c[n] = IF n = 0 THEN a ELSE ReadChar(c[n - 1], t[n])
  BY <1>4
<1>6. \A n \in 0 .. N : f[n] = IF n = 0 THEN a ELSE ReadChar(f[n - 1], t[n])
  BY <1>3
<1> HIDE DEF Step, N
<1> DEFINE T == {n \in 0 .. N : c[n] = f[n]}
<1>7. 0 \in T
  <2>1. 0 \in 0 .. N
    BY <1>1
  <2> QED
    BY <1>5, <1>6, <2>1
<1>8. ASSUME NEW n \in 1 .. N, n - 1 \in T PROVE n \in T
  <2>1. n \in 0 .. N /\ n # 0 /\ c[n - 1] = f[n - 1]
    BY <1>8
  <2> QED
    BY <1>5, <1>6, <2>1
<1>9. N \in T
  <2> HIDE DEF T
  <2> QED
    BY <1>1, <1>7, <1>8, UpTo
<1> QED
  BY <1>2, <1>9 DEF N

LEMMA LinesEmpty == Lines(<<>>) = <<<<>>>>
<1> DEFINE t == <<>>
           f == [n \in 0 .. 0 |-> <<<<>>>>]
<1>1. t \in Seq({}) /\ Len(t) = 0 /\ <<<<>>>> \in NonEmpty(Seq({}))
  BY DEF NonEmpty
<1>2. f \in [0 .. 0 -> NonEmpty(Seq({}))] /\ f[0] = <<<<>>>>
  BY <1>1
<1> HIDE DEF f, t
<1>3. IsReading(t, f)
  BY <1>1, <1>2 DEF IsReading
<1>4. Lines(t) = f[Len(t)]
  BY <1>1, <1>2, <1>3, LinesIs
<1> QED
  BY <1>1, <1>2, <1>4 DEF t

LEMMA LinesType ==
  ASSUME NEW S, NEW t \in Seq(S)
  PROVE  Lines(t) \in Seq(Seq(S)) /\ Lines(t) # <<>>
<1>1. PICK f \in [0 .. Len(t) -> NonEmpty(Seq(S))] : IsReading(t, f)
  BY ReadingExists
<1>2. Lines(t) = f[Len(t)] /\ Len(t) \in 0 .. Len(t)
  BY <1>1, LinesIs
<1>3. Lines(t) \in NonEmpty(Seq(S))
  BY <1>2
<1> QED
  BY <1>3 DEF NonEmpty

LEMMA LinesAppend ==
  ASSUME NEW S, NEW t \in Seq(S), NEW c \in S
  PROVE  Lines(Append(t, c)) = ReadChar(Lines(t), c)
<1> DEFINE n == Len(t)
           u == Append(t, c)
           V == NonEmpty(Seq(S))
<1>1. n \in Nat /\ u \in Seq(S) /\ Len(u) = n + 1 /\ u[n + 1] = c /\ \A i \in 1 .. n : u[i] = t[i]
  BY AppendProperties
<1> HIDE DEF u, V, n
<1>2. PICK f \in [0 .. Len(u) -> V] : IsReading(u, f)
  BY <1>1, ReadingExists DEF V
<1> DEFINE g == [i \in 0 .. n |-> f[i]]
<1>3. g \in [0 .. n -> V] /\ \A i \in 0 .. n : g[i] = f[i]
  BY <1>1
<1> HIDE DEF g
<1>4. f[0] = <<<<>>>> /\ \A i \in 1 .. n + 1 : f[i] = ReadChar(f[i - 1], u[i])
  BY <1>1, <1>2 DEF IsReading
<1>5. IsReading(t, g)
  <2>1. g[0] = <<<<>>>>
    BY <1>1, <1>3, <1>4
  <2>2. ASSUME NEW i \in 1 .. n PROVE g[i] = ReadChar(g[i - 1], t[i])
    <3>1. i \in 0 .. n /\ i - 1 \in 0 .. n /\ i \in 1 .. n + 1
      BY <1>1
    <3> QED
      BY <1>1, <1>3, <1>4, <3>1
  <2> QED
    BY <2>1, <2>2 DEF IsReading, n
<1>6. Lines(t) = g[n]
  BY <1>3, <1>5, LinesIs DEF n, V
<1>7. Lines(u) = f[n + 1]
  <2>1. Lines(u) = f[Len(u)]
    BY <1>1, <1>2, LinesIs DEF V
  <2> QED
    BY <1>1, <2>1
<1>8. f[n + 1] = ReadChar(f[n], c) /\ f[n] = g[n]
  <2>1. n + 1 \in 1 .. n + 1 /\ (n + 1) - 1 = n /\ n \in 0 .. n
    BY <1>1
  <2> QED
    BY <1>1, <1>3, <1>4, <2>1
<1> QED
  BY <1>6, <1>7, <1>8 DEF u

LEMMA ConcatAppend ==
  ASSUME NEW S, NEW x \in Seq(S), NEW y \in Seq(S), NEW c \in S
  PROVE  x \o Append(y, c) = Append(x \o y, c)
<1>1. <<c>> \in Seq(S) /\ x \o y \in Seq(S)
  BY ConcatProperties
<1>2. Append(y, c) = y \o <<c>> /\ Append(x \o y, c) = (x \o y) \o <<c>>
  BY <1>1, AppendIsConcat
<1>3. (x \o y) \o <<c>> = x \o (y \o <<c>>)
  BY <1>1, ConcatAssociative
<1> QED
  BY <1>2, <1>3

\* A character goes to the last line, or begins one.
LEMMA ReadCharOf ==
  ASSUME NEW S, NEW front \in Seq(Seq(S)), NEW last \in Seq(S), NEW c \in S
  PROVE  ReadChar(Append(front, last), c) =
           IF c = NewLine THEN Append(Append(front, last), <<>>) ELSE Append(front, Append(last, c))
<1>1. Front(Append(front, last)) = front /\ Last(Append(front, last)) = last
  BY FrontOfAppend
<1>2. front \o <<Append(last, c)>> = Append(front, Append(last, c))
  <2>1. Append(last, c) \in Seq(S)
    BY AppendProperties
  <2> QED
    BY <2>1, AppendIsConcat
<1> QED
  BY <1>1, <1>2 DEF ReadChar

LEMMA ReadCharConcat ==
  ASSUME NEW S, NEW u \in Seq(Seq(S)), NEW v \in Seq(Seq(S)), v # <<>>, NEW c \in S
  PROVE  ReadChar(u \o v, c) = u \o ReadChar(v, c)
<1> DEFINE front == Front(v)
           last == Last(v)
           all == u \o front
<1>1. front \in Seq(Seq(S)) /\ last \in Seq(S) /\ v = Append(front, last)
  BY FrontLast
<1>0. <<>> \in Seq(S)
  OBVIOUS
<1> HIDE DEF front, last
<1>2. all \in Seq(Seq(S)) /\ u \o v = Append(all, last)
  BY <1>1, ConcatProperties, ConcatAppend, SMTT(30)
<1> HIDE DEF all
<1>3. ReadChar(u \o v, c) =
        IF c = NewLine THEN Append(Append(all, last), <<>>) ELSE Append(all, Append(last, c))
  BY <1>1, <1>2, ReadCharOf
<1>4. ReadChar(v, c) = IF c = NewLine THEN Append(v, <<>>) ELSE Append(front, Append(last, c))
  BY <1>1, ReadCharOf
<1>5. u \o Append(v, <<>>) = Append(u \o v, <<>>)
  BY <1>0, ConcatAppend
<1>6. u \o Append(front, Append(last, c)) = Append(all, Append(last, c))
  <2>1. Append(last, c) \in Seq(S)
    BY <1>1, AppendProperties
  <2> QED
    BY <1>1, <2>1, ConcatAppend, SMTT(30) DEF all
<1> QED
  BY <1>2, <1>3, <1>4, <1>5, <1>6

\* The lines, joined, are the text again.
LEMMA LinesJoin ==
  ASSUME NEW S, NewLine \in S, NEW z \in Seq(S)
  PROVE  Join(Lines(z), LineSeparator) = z
<1> DEFINE T == {t \in Seq(S) : Join(Lines(t), LineSeparator) = t}
           sep == LineSeparator
<1>0. sep \in Seq(S) /\ sep = <<NewLine>>
  <2>1. <<NewLine>> \in Seq(S)
    BY LettersOne
  <2> QED
    BY <2>1 DEF LineSeparator
<1>1. <<>> \in T
  <2>1. Lines(<<>>) = Append(<<>>, <<>>) /\ <<>> \in Seq(S)
    BY LinesEmpty
  <2>2. Join(Append(<<>>, <<>>), sep) = <<>>
    BY <1>0, <2>1, JoinOne
  <2> QED
    BY <2>1, <2>2
<1> HIDE DEF sep
<1>2. ASSUME NEW t \in Seq(S), NEW c \in S, t \in T PROVE Append(t, c) \in T
  <2> DEFINE v == Lines(t)
             front == Front(v)
             last == Last(v)
             more == Append(last, c)
  <2>1. v \in Seq(Seq(S)) /\ v # <<>> /\ Join(v, sep) = t
    BY <1>2, LinesType DEF sep
  <2>2. front \in Seq(Seq(S)) /\ last \in Seq(S) /\ v = Append(front, last)
    BY <2>1, FrontLast
  <2>3. Append(t, c) \in Seq(S) /\ Lines(Append(t, c)) = ReadChar(v, c) /\ more \in Seq(S)
    BY <2>2, LinesAppend, AppendProperties
  <2> HIDE DEF v, front, last
  <2>4. CASE c = NewLine
    <3>1. ReadChar(v, c) = Append(v, <<>>)
      BY <2>4 DEF ReadChar
    <3>2. <<>> \in Seq(S)
      OBVIOUS
    <3>3. Join(Append(v, <<>>), sep) = (t \o sep) \o <<>>
      BY <1>0, <2>1, <3>2, JoinMore
    <3>4. t \o sep = Append(t, c) /\ t \o sep \in Seq(S)
      BY <1>0, <2>4, AppendIsConcat, ConcatProperties
    <3>5. (t \o sep) \o <<>> = Append(t, c)
      BY <3>4, ConcatEmptySeq
    <3> QED
      BY <2>3, <3>1, <3>3, <3>5 DEF sep
  <2>5. CASE c # NewLine
    <3>1. ReadChar(v, c) = Append(front, more)
      BY <2>2, <2>5, ReadCharOf
    <3> HIDE DEF more
    <3>2. Join(Append(front, more), sep) = Append(t, c)
      <4>1. CASE front = <<>>
        <5>1. Join(Append(front, more), sep) = more /\ Join(v, sep) = last
          BY <1>0, <2>2, <2>3, <4>1, JoinOne
        <5> QED
          BY <2>1, <5>1 DEF more
      <4>2. CASE front # <<>>
        <5> DEFINE j == Join(front, sep)
                   js == j \o sep
        <5>1. Join(Append(front, more), sep) = js \o more /\ Join(v, sep) = js \o last
          BY <1>0, <2>2, <2>3, <4>2, JoinMore
        <5>2. js \in Seq(S)
          <6>1. j \in Seq(S)
            BY <1>0, <2>2, JoinType
          <6> HIDE DEF j
          <6> QED
            BY <1>0, <6>1, ConcatProperties
        <5> HIDE DEF js
        <5>3. js \o more = Append(js \o last, c)
          BY <2>2, <5>2, ConcatAppend DEF more
        <5> QED
          BY <2>1, <5>1, <5>3
      <4> QED
        BY <4>1, <4>2
    <3> QED
      BY <2>3, <3>1, <3>2 DEF sep
  <2> QED
    BY <2>4, <2>5
<1>3. Seq(S) \subseteq T
  <2> HIDE DEF T
  <2> QED
    BY <1>1, <1>2, SeqInduct
<1> QED
  BY <1>3

\* A text without a line break is one line, and a line break ends one.
LEMMA LinesOne ==
  ASSUME NEW S, NEW z \in Seq(S), \A i \in DOMAIN z : z[i] # NewLine
  PROVE  Lines(z) = <<z>>
<1> DEFINE T == {t \in Seq(S) : (\A i \in DOMAIN t : t[i] # NewLine) => Lines(t) = <<t>>}
<1>1. <<>> \in T
  BY LinesEmpty
<1>2. ASSUME NEW t \in Seq(S), NEW c \in S, t \in T PROVE Append(t, c) \in T
  <2> DEFINE u == Append(t, c)
  <2>1. /\ u \in Seq(S) /\ DOMAIN u = 1 .. Len(t) + 1 /\ u[Len(t) + 1] = c /\ Len(t) \in Nat
        /\ DOMAIN t = 1 .. Len(t) /\ \A i \in 1 .. Len(t) : u[i] = t[i]
    BY AppendProperties
  <2> HIDE DEF u
  <2>2. ASSUME \A i \in DOMAIN u : u[i] # NewLine PROVE Lines(u) = <<u>>
    <3>1. \A i \in DOMAIN t : t[i] # NewLine
      <4>1. \A i \in 1 .. Len(t) : i \in 1 .. Len(t) + 1
        BY <2>1
      <4> QED
        BY <2>1, <2>2, <4>1
    <3>2. c # NewLine
      <4>1. Len(t) + 1 \in 1 .. Len(t) + 1
        BY <2>1
      <4> QED
        BY <2>1, <2>2, <4>1
    <3>3. Lines(t) = <<t>>
      BY <1>2, <3>1
    <3> DEFINE none == <<>>
    <3>4. <<t>> = Append(none, t) /\ none \in Seq(Seq(S)) /\ <<u>> = Append(none, u)
      OBVIOUS
    <3> HIDE DEF none
    <3>5. Lines(u) = ReadChar(Lines(t), c)
      BY LinesAppend DEF u
    <3>6. ReadChar(Append(none, t), c) =
            IF c = NewLine THEN Append(Append(none, t), <<>>) ELSE Append(none, Append(t, c))
      BY <3>4, ReadCharOf
    <3>7. Append(t, c) = u
      BY DEF u
    <3> QED
      BY <3>2, <3>3, <3>4, <3>5, <3>6, <3>7
  <2> QED
    BY <2>1, <2>2 DEF u
<1>3. Seq(S) \subseteq T
  <2> HIDE DEF T
  <2> QED
    BY <1>1, <1>2, SeqInduct
<1> QED
  BY <1>3

LEMMA LinesConcat ==
  ASSUME NEW S, NewLine \in S, NEW x \in Seq(S), NEW z \in Seq(S)
  PROVE  Lines((x \o LineSeparator) \o z) = Lines(x) \o Lines(z)
<1> DEFINE head == x \o LineSeparator
           T == {t \in Seq(S) : Lines(head \o t) = Lines(x) \o Lines(t)}
<1>0. head \in Seq(S) /\ head = Append(x, NewLine) /\ Lines(x) \in Seq(Seq(S)) /\ <<>> \in Seq(S)
  <2>1. <<NewLine>> \in Seq(S)
    BY LettersOne
  <2> QED
    BY <2>1, AppendIsConcat, ConcatProperties, LinesType DEF LineSeparator
<1> HIDE DEF head
<1>1. <<>> \in T
  <2>1. head \o <<>> = head
    BY <1>0, ConcatEmptySeq
  <2>2. Lines(head) = Append(Lines(x), <<>>)
    BY <1>0, LinesAppend DEF ReadChar
  <2>3. Append(Lines(x), <<>>) = Lines(x) \o <<<<>>>>
    BY <1>0, AppendIsConcat
  <2> QED
    BY <1>0, <2>1, <2>2, <2>3, LinesEmpty
<1>2. ASSUME NEW t \in Seq(S), NEW c \in S, t \in T PROVE Append(t, c) \in T
  <2> DEFINE u == head \o t
  <2>1. u \in Seq(S) /\ head \o Append(t, c) = Append(u, c) /\ Append(t, c) \in Seq(S)
    BY <1>0, ConcatProperties, ConcatAppend, AppendProperties
  <2>2. Lines(u) = Lines(x) \o Lines(t)
    BY <1>2
  <2> HIDE DEF u
  <2>3. Lines(Append(u, c)) = ReadChar(Lines(u), c) /\ Lines(Append(t, c)) = ReadChar(Lines(t), c)
    BY <2>1, LinesAppend
  <2>4. Lines(t) \in Seq(Seq(S)) /\ Lines(t) # <<>>
    BY LinesType
  <2>5. ReadChar(Lines(x) \o Lines(t), c) = Lines(x) \o ReadChar(Lines(t), c)
    BY <1>0, <2>4, ReadCharConcat
  <2> QED
    BY <2>1, <2>2, <2>3, <2>5
<1>3. Seq(S) \subseteq T
  <2> HIDE DEF T
  <2> QED
    BY <1>1, <1>2, SeqInduct
<1> QED
  BY <1>3 DEF head

-------------------------------------------------------------------------------
(* HTML that is whole: no entity cut, no tag open. *)
Whole(S) == {t \in Seq(S) : HasNoEntityCut(t) /\ HasNoOpenTag(t)}

\* x stands in m behind the first d characters.
IsSlice(m, x, d) == d + Len(x) <= Len(m) /\ \A i \in 1 .. Len(x) : m[d + i] = x[i]

\* The "&" at i has its ";" within m.
IsEntity(m, i) == \E j \in i + 1 .. Len(m) : m[j] = ";" /\ \A k \in i + 1 .. j - 1 : m[k] # "&"
IsTagged(m, i) == \E j \in DOMAIN m : AreTagPair(m, i, j) \/ AreTagPair(m, j, i)

LEMMA EntityInSlice ==
  ASSUME NEW S, NEW m \in Seq(S), NEW x \in Seq(S), NEW d \in Nat, IsSlice(m, x, d),
         NEW i \in 1 .. Len(x), IsEntity(x, i)
  PROVE  IsEntity(m, d + i)
<1>1. PICK j \in i + 1 .. Len(x) : x[j] = ";" /\ \A k \in i + 1 .. j - 1 : x[k] # "&"
  BY DEF IsEntity
<1>2. Len(x) \in Nat /\ Len(m) \in Nat /\ d + Len(x) <= Len(m) /\ \A k \in 1 .. Len(x) : m[d + k] = x[k]
  BY DEF IsSlice
<1>3. d + j \in (d + i) + 1 .. Len(m) /\ m[d + j] = ";"
  <2>1. j \in 1 .. Len(x) /\ j \in Nat /\ i + 1 <= j /\ j <= Len(x)
    BY <1>2
  <2>2. d + j \in (d + i) + 1 .. Len(m)
    BY <1>2, <2>1
  <2> QED
    BY <1>1, <1>2, <2>1, <2>2
<1>4. ASSUME NEW k \in (d + i) + 1 .. (d + j) - 1 PROVE m[k] # "&"
  <2>1. k - d \in i + 1 .. j - 1 /\ k - d \in 1 .. Len(x) /\ d + (k - d) = k
    BY <1>2
  <2> QED
    BY <1>1, <1>2, <2>1
<1> QED
  BY <1>3, <1>4 DEF IsEntity

LEMMA TagPairInSlice ==
  ASSUME NEW S, NEW m \in Seq(S), NEW x \in Seq(S), NEW d \in Nat, IsSlice(m, x, d),
         NEW i \in 1 .. Len(x), NEW j \in 1 .. Len(x), AreTagPair(x, i, j)
  PROVE  AreTagPair(m, d + i, d + j)
<1>1. Len(x) \in Nat /\ Len(m) \in Nat /\ \A k \in 1 .. Len(x) : m[d + k] = x[k]
  BY DEF IsSlice
<1>2. d + i < d + j /\ m[d + i] \in DOMAIN ClosingTag /\ m[d + j] = ClosingTag[m[d + i]]
  <2>1. i < j /\ x[i] \in DOMAIN ClosingTag /\ x[j] = ClosingTag[x[i]]
    BY DEF AreTagPair
  <2> QED
    BY <1>1, <2>1
<1>3. ASSUME NEW k \in (d + i) + 1 .. (d + j) - 1 PROVE m[k] \notin Tags
  <2>1. k - d \in i + 1 .. j - 1 /\ k - d \in 1 .. Len(x) /\ d + (k - d) = k
    BY <1>1
  <2> QED
    BY <1>1, <2>1 DEF AreTagPair
<1> QED
  BY <1>2, <1>3 DEF AreTagPair

LEMMA TagInSlice ==
  ASSUME NEW S, NEW m \in Seq(S), NEW x \in Seq(S), NEW d \in Nat, IsSlice(m, x, d),
         NEW i \in 1 .. Len(x), IsTagged(x, i)
  PROVE  IsTagged(m, d + i)
<1>1. PICK j \in 1 .. Len(x) : AreTagPair(x, i, j) \/ AreTagPair(x, j, i)
  BY DEF IsTagged
<1>2. AreTagPair(m, d + i, d + j) \/ AreTagPair(m, d + j, d + i)
  BY <1>1, TagPairInSlice
<1>3. d + j \in DOMAIN m
  BY DEF IsSlice
<1> QED
  BY <1>2, <1>3 DEF IsTagged

LEMMA WholeIs ==
  ASSUME NEW S, NEW m \in Seq(S)
  PROVE  m \in Whole(S) <=> \A i \in 1 .. Len(m) : /\ m[i] = "&" => IsEntity(m, i)
                                                   /\ m[i] \in Tags => IsTagged(m, i)
<1>1. DOMAIN m = 1 .. Len(m)
  OBVIOUS
<1>2. HasNoEntityCut(m) <=> \A i \in 1 .. Len(m) : m[i] = "&" => IsEntity(m, i)
  BY <1>1 DEF HasNoEntityCut, IsEntity
<1>3. HasNoOpenTag(m) <=> \A i \in 1 .. Len(m) : m[i] \in Tags => IsTagged(m, i)
  BY <1>1 DEF HasNoOpenTag, IsTagged
<1> QED
  BY <1>2, <1>3 DEF Whole

\* Two texts that are whole make one that is.
LEMMA WholeConcat ==
  ASSUME NEW S, NEW x \in Whole(S), NEW y \in Whole(S)
  PROVE  x \o y \in Whole(S)
<1> DEFINE m == x \o y
           d == Len(x)
<1>1. x \in Seq(S) /\ y \in Seq(S)
  BY DEF Whole
<1>2. /\ m \in Seq(S) /\ Len(m) = d + Len(y) /\ d \in Nat /\ Len(y) \in Nat
      /\ \A i \in 1 .. Len(m) : m[i] = IF i <= d THEN x[i] ELSE y[i - d]
  BY <1>1, ConcatProperties
<1> HIDE DEF m, d
<1>3. IsSlice(m, x, 0) /\ IsSlice(m, y, d)
  <2>1. \A i \in 1 .. d : i \in 1 .. Len(m) /\ i <= d /\ 0 + i = i
    BY <1>2
  <2>2. \A i \in 1 .. Len(y) : d + i \in 1 .. Len(m) /\ ~(d + i <= d) /\ (d + i) - d = i
    BY <1>2
  <2>3. 0 + d <= Len(m) /\ d + Len(y) <= Len(m)
    BY <1>2
  <2>4. \A i \in 1 .. d : m[0 + i] = x[i]
    BY <1>2, <2>1
  <2>5. \A i \in 1 .. Len(y) : m[d + i] = y[i]
    BY <1>2, <2>2
  <2> QED
    BY <2>3, <2>4, <2>5 DEF IsSlice, d
<1>4. ASSUME NEW i \in 1 .. Len(m)
      PROVE  (m[i] = "&" => IsEntity(m, i)) /\ (m[i] \in Tags => IsTagged(m, i))
  <2>1. CASE i <= d
    <3>1. i \in 1 .. Len(x) /\ m[i] = x[i] /\ 0 + i = i /\ 0 \in Nat
      BY <1>2, <2>1 DEF d
    <3>2. (x[i] = "&" => IsEntity(x, i)) /\ (x[i] \in Tags => IsTagged(x, i))
      BY <1>1, <3>1, WholeIs
    <3>3. IsEntity(x, i) => IsEntity(m, 0 + i)
      BY <1>1, <1>2, <1>3, <3>1, EntityInSlice
    <3>4. IsTagged(x, i) => IsTagged(m, 0 + i)
      BY <1>1, <1>2, <1>3, <3>1, TagInSlice
    <3> QED
      BY <3>1, <3>2, <3>3, <3>4
  <2>2. CASE ~(i <= d)
    <3> DEFINE h == i - d
    <3>1. h \in 1 .. Len(y) /\ m[i] = y[h] /\ d + h = i
      BY <1>2, <2>2
    <3> HIDE DEF h
    <3>2. (y[h] = "&" => IsEntity(y, h)) /\ (y[h] \in Tags => IsTagged(y, h))
      BY <1>1, <3>1, WholeIs
    <3>3. IsEntity(y, h) => IsEntity(m, d + h)
      BY <1>1, <1>2, <1>3, <3>1, EntityInSlice
    <3>4. IsTagged(y, h) => IsTagged(m, d + h)
      BY <1>1, <1>2, <1>3, <3>1, TagInSlice
    <3> QED
      BY <3>1, <3>2, <3>3, <3>4
  <2> QED
    BY <2>1, <2>2
<1>5. m \in Whole(S)
  BY <1>2, <1>4, WholeIs
<1> QED
  BY <1>5 DEF m

\* A text without a tag and an entity is whole; so are line breaks.
LEMMA PlainIsWhole ==
  ASSUME NEW S, NEW x \in Seq(S), \A i \in 1 .. Len(x) : x[i] \notin Tags \cup {"&"}
  PROVE  x \in Whole(S)
BY WholeIs

LEMMA TagsAre ==
  Tags = {"<b>", "<a>", "<i>", "</b>", "</a>", "</i>"}
<1>1. DOMAIN ClosingTag = {"<b>", "<a>", "<i>"}
  BY DEF ClosingTag
<1>2. ClosingTag["<b>"] = "</b>" /\ ClosingTag["<a>"] = "</a>" /\ ClosingTag["<i>"] = "</i>"
  BY DEF ClosingTag
<1> QED
  BY <1>1, <1>2 DEF Tags

LEMMA Separators ==
  ASSUME NEW S, NewLine \in S
  PROVE  /\ LineSeparator \in Whole(S) /\ BlockSeparator \in Whole(S)
         /\ LineSeparator \in Seq(S) /\ BlockSeparator \in Seq(S)
         /\ Letters(LineSeparator) = <<>> /\ Letters(BlockSeparator) = <<>>
         /\ BlockSeparator = LineSeparator \o LineSeparator
<1>1. NewLine \notin Tags \cup {"&"}
  BY TagsAre DEF NewLine
<1> DEFINE line == LineSeparator
<1>2. line \in Seq(S) /\ Len(line) = 1 /\ line[1] = NewLine
  <2>1. <<NewLine>> \in Seq(S)
    BY LettersOne
  <2> QED
    BY <2>1 DEF LineSeparator
<1>3. Letters(line) = <<>>
  BY LettersOne DEF LineSeparator, Letter
<1>4. BlockSeparator = line \o line
  BY DEF BlockSeparator, LineSeparator
<1> HIDE DEF line
<1>5. line \in Whole(S)
  <2>1. \A i \in 1 .. Len(line) : line[i] = NewLine
    BY <1>2
  <2> QED
    BY <1>1, <1>2, <2>1, PlainIsWhole
<1>6. line \o line \in Whole(S) /\ line \o line \in Seq(S)
  BY <1>2, <1>5, WholeConcat, ConcatProperties
<1>7. Letters(line \o line) = <<>>
  <2>1. Letters(line \o line) = Letters(line) \o Letters(line)
    BY <1>2, LettersConcat
  <2>2. <<>> \o <<>> = <<>>
    OBVIOUS
  <2> QED
    BY <1>3, <2>1, <2>2
<1> QED
  BY <1>2, <1>3, <1>4, <1>5, <1>6, <1>7 DEF line

LEMMA WholeIsClosed ==
  ASSUME NEW S, NEW sep \in Whole(S)
  PROVE  IsClosed(Whole(S), sep) /\ Whole(S) \subseteq Seq(S) /\ <<>> \in Whole(S)
<1>1. ASSUME NEW x \in Whole(S), NEW y \in Whole(S) PROVE (x \o sep) \o y \in Whole(S)
  <2>1. x \o sep \in Whole(S)
    BY WholeConcat
  <2> QED
    BY <2>1, WholeConcat
<1>2. <<>> \in Whole(S)
  <2> DEFINE none == <<>>
  <2>1. none \in Seq(S) /\ Len(none) = 0
    OBVIOUS
  <2> HIDE DEF none
  <2>2. \A i \in 1 .. Len(none) : none[i] \notin Tags \cup {"&"}
    BY <2>1
  <2>3. none \in Whole(S)
    BY <2>1, <2>2, PlainIsWhole
  <2> QED
    BY <2>3 DEF none
<1> QED
  BY <1>1, <1>2 DEF IsClosed, Whole

-------------------------------------------------------------------------------
(* Cutting a line that is too long. *)
Escaped(S) == {t \in Seq(S) : t # <<>> /\ IsEscaped(t)}

LEMMA EscapedIsWhole ==
  ASSUME NEW S, NEW t \in Escaped(S)
  PROVE  t \in Whole(S) /\ t \in Seq(S) /\ t # <<>>
<1>1. t \in Seq(S) /\ t # <<>> /\ IsEscaped(t) /\ DOMAIN t = 1 .. Len(t)
  BY DEF Escaped
<1>2. ASSUME NEW i \in 1 .. Len(t) PROVE t[i] \notin Tags /\ (t[i] = "&" => IsEntity(t, i))
  <2>1. t[i] \notin Tags
    BY <1>1 DEF IsEscaped
  <2>2. ASSUME t[i] = "&" PROVE IsEntity(t, i)
    <3>1. PICK j \in 1 .. Len(t) : i < j /\ t[j] = ";" /\ \A k \in i + 1 .. j - 1 : t[k] # "&"
      BY <1>1, <2>2 DEF IsEscaped
    <3>2. j \in i + 1 .. Len(t)
      <4>1. i < j
        BY <3>1
      <4>2. Len(t) \in Nat
        BY <1>1
      <4> QED
        BY <4>1, <4>2
    <3> QED
      BY <3>1, <3>2 DEF IsEntity
  <2> QED
    BY <2>1, <2>2
<1> QED
  BY <1>1, <1>2, WholeIs

\* A number below a bound that is greatest of its set.
LEMMA GreatestBelow ==
  ASSUME NEW N \in Nat, NEW T, T \subseteq 0 .. N, T # {}
  PROVE  \E x \in T : \A y \in T : y <= x
<1> DEFINE R == {N - y : y \in T}
<1>1. R \subseteq Nat /\ R # {}
  <2>1. \A y \in T : N - y \in Nat
    OBVIOUS
  <2> QED
    BY <2>1
<1>2. PICK m \in R : \A y \in R : m <= y
  <2> HIDE DEF R
  <2> QED
    BY <1>1, LeastNat
<1>3. PICK x \in T : m = N - x
  OBVIOUS
<1>4. ASSUME NEW y \in T PROVE y <= x
  <2>1. N - x <= N - y
    BY <1>2, <1>3
  <2>2. x \in 0 .. N /\ y \in 0 .. N
    OBVIOUS
  <2> QED
    BY <2>1, <2>2
<1> QED
  BY <1>4

\* No entity that begins before end ends behind it.
CutsNoEntity(t, end) ==
  \A i \in 1 .. end : t[i] = "&" =>
    \E j \in i + 1 .. end : t[j] = ";" /\ \A k \in i + 1 .. j - 1 : t[k] # "&"

LEMMA EndOfPartIs ==
  ASSUME NEW S, NEW t \in Seq(S), IsEscaped(t), Len(t) > MaxChars
  PROVE  EndOfPart(t) \in 1 .. MaxChars /\ CutsNoEntity(t, EndOfPart(t))
<1> DEFINE starts == {i \in 2 .. MaxChars : t[i] = "&"}
           start == CHOOSE i \in starts : \A j \in starts : j <= i
           isCut == starts # {} /\ ~ \E i \in start .. MaxChars : t[i] = ";"
           end == EndOfPart(t)
           ends(i, q) == t[q] = ";" /\ \A k \in i + 1 .. q - 1 : t[k] # "&"
<1>1. MaxChars \in Nat /\ MaxChars >= 1 /\ Len(t) \in Nat
  BY SplitterAssumption
<1>2. end = IF isCut THEN start - 1 ELSE MaxChars
  BY DEF EndOfPart
<1>3. starts # {} => start \in starts /\ \A j \in starts : j <= start
  <2>1. starts \subseteq 0 .. MaxChars
    OBVIOUS
  <2> HIDE DEF starts
  <2>2. starts # {} => \E x \in starts : \A y \in starts : y <= x
    BY <1>1, <2>1, GreatestBelow
  <2> QED
    BY <2>2
<1>4. \A i \in starts : i \in 2 .. MaxChars /\ t[i] = "&"
  OBVIOUS
<1>5. \A i \in 1 .. MaxChars : t[i] = "&" => i = 1 \/ i \in starts
  BY <1>1
<1>6. ASSUME NEW i \in 1 .. MaxChars, t[i] = "&"
      PROVE  \E j \in i + 1 .. Len(t) : j - i < MaxChars /\ ends(i, j)
  <2>1. i \in DOMAIN t
    BY <1>1
  <2>2. PICK j \in DOMAIN t : /\ i < j /\ j - i < MaxChars /\ t[j] = ";"
                              /\ \A k \in i + 1 .. j - 1 : t[k] # "&"
    BY <1>6, <2>1 DEF IsEscaped
  <2>3. j \in i + 1 .. Len(t)
    <3>1. i < j
      BY <2>2
    <3>2. j \in 1 .. Len(t)
      OBVIOUS
    <3> QED
      BY <1>1, <3>1, <3>2
  <2> QED
    BY <2>2, <2>3
<1> HIDE DEF starts, start, end
\* An entity before another one ends before it begins.
<1>7. ASSUME NEW i \in 1 .. MaxChars, t[i] = "&", starts # {}, i < start
      PROVE  \E j \in i + 1 .. start - 1 : ends(i, j)
  <2>1. PICK j \in i + 1 .. Len(t) : ends(i, j)
    BY <1>6, <1>7
  <2>2. start \in 2 .. MaxChars /\ t[start] = "&"
    BY <1>3, <1>4, <1>7
  <2>3. j # start
    BY <2>1, <2>2
  <2>4. ~(start < j)
    <3>1. start < j => start \in i + 1 .. j - 1
      BY <1>1, <1>7, <2>2
    <3> QED
      BY <2>1, <2>2, <3>1
  <2>5. j \in i + 1 .. start - 1
    BY <1>1, <2>2, <2>3, <2>4
  <2> QED
    BY <2>1, <2>5
<1>10. (\A i \in 1 .. end : t[i] = "&" => \E j \in i + 1 .. end : ends(i, j))
         => CutsNoEntity(t, end)
  BY DEF CutsNoEntity
<1> HIDE DEF ends
<1>8. CASE isCut
  <2>1. start \in 2 .. MaxChars /\ end = start - 1
    BY <1>2, <1>3, <1>4, <1>8
  <2>2. end \in 1 .. MaxChars
    BY <1>1, <2>1
  <2>3. ASSUME NEW i \in 1 .. end, t[i] = "&" PROVE \E j \in i + 1 .. end : ends(i, j)
    <3>1. i \in 1 .. MaxChars /\ i < start
      BY <1>1, <2>1
    <3> QED
      BY <1>7, <1>8, <2>1, <2>3, <3>1
  <2> QED
    BY <1>10, <2>2, <2>3 DEF end
<1>9. CASE ~isCut
  <2>1. end = MaxChars
    BY <1>2, <1>9
  <2>2. end \in 1 .. MaxChars
    BY <1>1, <2>1
  <2>3. ASSUME NEW i \in 1 .. end, t[i] = "&" PROVE \E j \in i + 1 .. end : ends(i, j)
    <3>1. i \in 1 .. MaxChars
      BY <2>1
    <3>2. CASE starts = {}
      <4>1. i = 1
        BY <1>5, <2>3, <3>1, <3>2
      <4>2. PICK j \in i + 1 .. Len(t) : j - i < MaxChars /\ ends(i, j)
        BY <1>6, <2>3, <3>1
      <4>3. j \in i + 1 .. end
        BY <1>1, <2>1, <4>1, <4>2
      <4> QED
        BY <4>2, <4>3
    <3>3. CASE starts # {}
      <4>1. start \in 2 .. MaxChars /\ t[start] = "&" /\ \A j \in starts : j <= start
        BY <1>3, <1>4, <3>3
      <4>2. CASE i < start
        <5>1. PICK j \in i + 1 .. start - 1 : ends(i, j)
          BY <1>7, <2>3, <3>1, <3>3, <4>2
        <5>2. j \in i + 1 .. end
          BY <1>1, <2>1, <4>1, <5>1
        <5> QED
          BY <5>1, <5>2
      <4>3. CASE ~(i < start)
        <5>1. i = start
          <6>1. i = 1 \/ i <= start
            BY <1>5, <2>3, <3>1, <4>1
          <6> QED
            BY <1>1, <4>1, <4>3, <6>1
        <5>2. PICK q \in start .. MaxChars : t[q] = ";"
          BY <1>9, <3>3
        <5>6. start \in Nat /\ q \in Nat /\ start <= q /\ q <= MaxChars
          <6>1. start \in 2 .. MaxChars /\ q \in start .. MaxChars
            BY <4>1, <5>2
          <6> QED
            BY <1>1, <6>1
        <5>3. q # start
          BY <4>1, <5>2
        <5>4. q \in i + 1 .. end
          BY <1>1, <2>1, <5>1, <5>6, <5>3
        <5>5. ASSUME NEW k \in i + 1 .. q - 1 PROVE t[k] # "&"
          <6>1. k \in 1 .. MaxChars /\ k # 1 /\ ~(k <= start)
            <7>1. start + 1 <= k /\ k <= q - 1 /\ k \in Int /\ 2 <= start
              BY <1>1, <4>1, <5>1, <5>6
            <7> QED
              BY <1>1, <5>6, <7>1
          <6> QED
            BY <1>5, <4>1, <6>1
        <5> QED
          BY <5>2, <5>4, <5>5 DEF ends
      <4> QED
        BY <4>2, <4>3
    <3> QED
      BY <3>2, <3>3
  <2> QED
    BY <1>10, <2>2, <2>3 DEF end
<1> QED
  BY <1>8, <1>9

LEMMA SuffixIsEscaped ==
  ASSUME NEW S, NEW t \in Seq(S), IsEscaped(t), NEW n \in Nat, n < Len(t)
  PROVE  SubSeq(t, n + 1, Len(t)) \in Escaped(S)
<1> DEFINE r == SubSeq(t, n + 1, Len(t))
<1>1. n + 1 \in Nat /\ Len(t) \in Nat /\ DOMAIN t = 1 .. Len(t) /\ n + 1 <= Len(t)
  OBVIOUS
<1>2. \A i \in n + 1 .. Len(t) : t[i] \in S
  BY <1>1
<1>3. /\ r \in Seq(S) /\ Len(r) = Len(t) - n /\ DOMAIN r = 1 .. Len(t) - n
      /\ \A i \in 1 .. Len(t) - n : r[i] = t[n + i]
  <2>1. /\ r \in Seq(S)
        /\ Len(r) = IF n + 1 <= Len(t) THEN Len(t) - (n + 1) + 1 ELSE 0
        /\ \A i \in 1 .. Len(t) - (n + 1) + 1 : r[i] = t[n + 1 + i - 1]
    BY <1>1, <1>2, SubSeqProperties
  <2> HIDE DEF r
  <2>2. Len(t) - (n + 1) + 1 = Len(t) - n
    BY <1>1
  <2>3. \A i \in 1 .. Len(t) - n : n + 1 + i - 1 = n + i
    BY <1>1
  <2>4. Len(r) = Len(t) - n /\ r \in Seq(S)
    BY <1>1, <2>1, <2>2
  <2>5. \A i \in 1 .. Len(t) - n : r[i] = t[n + i]
    BY <2>1, <2>2, <2>3
  <2> QED
    BY <2>4, <2>5
<1> HIDE DEF r
<1>4. r # <<>>
  <2>1. Len(r) = Len(t) - n
    BY <1>3
  <2>2. Len(t) \in Nat /\ n + 1 <= Len(t)
    BY <1>1
  <2>3. 1 <= Len(r)
    BY <2>1, <2>2
  <2> QED
    BY <2>3
<1>5. ASSUME NEW i \in DOMAIN r
      PROVE  /\ r[i] \notin Tags
             /\ r[i] = "&" => \E j \in DOMAIN r : /\ i < j /\ j - i < MaxChars /\ r[j] = ";"
                                                  /\ \A k \in i + 1 .. j - 1 : r[k] # "&"
  <2>1. i \in 1 .. Len(t) - n /\ n + i \in DOMAIN t /\ i \in Nat
    BY <1>1, <1>3
  <2>2. r[i] = t[n + i]
    BY <1>3, <2>1
  <2>3. r[i] \notin Tags
    BY <2>1, <2>2 DEF IsEscaped
  <2>4. ASSUME r[i] = "&"
        PROVE  \E j \in DOMAIN r : /\ i < j /\ j - i < MaxChars /\ r[j] = ";"
                                   /\ \A k \in i + 1 .. j - 1 : r[k] # "&"
    <3>1. PICK q \in DOMAIN t : /\ n + i < q /\ q - (n + i) < MaxChars /\ t[q] = ";"
                                /\ \A k \in (n + i) + 1 .. q - 1 : t[k] # "&"
      BY <2>1, <2>2, <2>4 DEF IsEscaped
    <3>2. q \in 1 .. Len(t) /\ n + i < q /\ q - (n + i) < MaxChars
      BY <1>1, <3>1
    <3> DEFINE j == q - n
    <3>3. MaxChars \in Nat
      BY SplitterAssumption
    <3>4. /\ j \in 1 .. Len(t) - n /\ i < j /\ j - i < MaxChars /\ n + j = q
      BY <1>1, <2>1, <3>2, <3>3
    <3> HIDE DEF j
    <3>5. ASSUME NEW k \in i + 1 .. j - 1
          PROVE  k \in 1 .. Len(t) - n /\ n + k \in (n + i) + 1 .. q - 1
      <4>1. i \in Nat /\ j \in Int /\ j <= Len(t) - n /\ n + j = q /\ Len(t) - n \in Int
        BY <1>1, <2>1, <3>4
      <4>2. k \in Int /\ i + 1 <= k /\ k <= j - 1
        BY <4>1
      <4>3. k \in 1 .. Len(t) - n
        BY <4>1, <4>2
      <4>4. n + k \in (n + i) + 1 .. q - 1
        BY <4>1, <4>2
      <4> QED
        BY <4>3, <4>4
    <3>6. r[j] = ";" /\ j \in DOMAIN r
      BY <1>3, <3>1, <3>4
    <3>7. \A k \in i + 1 .. j - 1 : r[k] # "&"
      BY <1>3, <3>1, <3>5
    <3> QED
      BY <3>4, <3>6, <3>7
  <2> QED
    BY <2>3, <2>4
<1>6. IsEscaped(r)
  BY <1>5 DEF IsEscaped
<1> QED
  BY <1>3, <1>4, <1>6 DEF Escaped, r

\* The part that is cut off is whole and the rest is escaped; together they are the line.
LEMMA CutIs ==
  ASSUME NEW S, NEW t \in Escaped(S), Len(t) > MaxChars,
         NEW end, end = EndOfPart(t)
  PROVE  /\ SubSeq(t, 1, end) \in Sendable(Whole(S))
         /\ SubSeq(t, end + 1, Len(t)) \in Escaped(S)
         /\ Len(SubSeq(t, end + 1, Len(t))) < Len(t)
         /\ t = SubSeq(t, 1, end) \o SubSeq(t, end + 1, Len(t))
<1> DEFINE p == SubSeq(t, 1, end)
           r == SubSeq(t, end + 1, Len(t))
<1>1. t \in Seq(S) /\ IsEscaped(t)
  BY DEF Escaped
<1>2. end \in 1 .. MaxChars /\ CutsNoEntity(t, end)
  BY <1>1, EndOfPartIs
<1>3. MaxChars \in Nat /\ Len(t) \in Nat /\ DOMAIN t = 1 .. Len(t)
  BY <1>1, SplitterAssumption
<1>4. end \in Nat /\ 1 <= end /\ end <= MaxChars /\ end < Len(t)
  BY <1>2, <1>3
<1>5. p \in Seq(S) /\ Len(p) = end /\ \A i \in 1 .. end : p[i] = t[i]
  BY <1>1, <1>4
<1>6. r \in Escaped(S)
  BY <1>1, <1>4, SuffixIsEscaped
<1>7. Len(r) < Len(t)
  <2>1. Len(r) = Len(t) - end
    BY <1>1, <1>4
  <2> QED
    BY <1>3, <1>4, <2>1
<1>8. t = p \o r
  <2> DEFINE u == p \o r
  <2>1. r \in Seq(S) /\ Len(r) = Len(t) - end
    BY <1>1, <1>4
  <2>2. \A i \in 1 .. Len(t) - end : r[i] = t[end + i]
    BY <1>1, <1>4
  <2> HIDE DEF p, r
  <2>3. /\ u \in Seq(S) /\ Len(u) = Len(p) + Len(r)
        /\ \A i \in 1 .. Len(u) : u[i] = IF i <= Len(p) THEN p[i] ELSE r[i - Len(p)]
    <3>1. p \in Seq(S) /\ r \in Seq(S)
      BY <1>5, <2>1
    <3> QED
      BY <3>1, ConcatProperties
  <2> HIDE DEF u
  <2>4. Len(u) = Len(t)
    BY <1>3, <1>4, <1>5, <2>1, <2>3
  <2>5. ASSUME NEW i \in 1 .. Len(t) PROVE u[i] = t[i]
    <3>1. CASE i <= end
      <4>1. i \in 1 .. end /\ i \in 1 .. Len(u)
        BY <1>3, <1>4, <2>4, <3>1
      <4>2. u[i] = p[i]
        BY <1>5, <2>3, <3>1, <4>1
      <4> QED
        BY <1>5, <4>1, <4>2
    <3>2. CASE ~(i <= end)
      <4>1. i - end \in 1 .. Len(t) - end /\ i \in 1 .. Len(u) /\ end + (i - end) = i
        BY <1>3, <1>4, <2>4, <3>2
      <4>2. u[i] = r[i - end]
        BY <1>5, <2>3, <3>2, <4>1
      <4> QED
        BY <2>2, <4>1, <4>2
    <3> QED
      BY <3>1, <3>2
  <2>6. t = u
    BY <1>1, <2>3, <2>4, <2>5, SeqEqual
  <2> QED
    BY <2>6 DEF u
<1> HIDE DEF p, r
<1>9. p \in Sendable(Whole(S))
  <2>1. ASSUME NEW i \in 1 .. Len(p) PROVE p[i] \notin Tags /\ (p[i] = "&" => IsEntity(p, i))
    <3>1. i \in 1 .. end /\ i \in DOMAIN t
      <4>1. i \in 1 .. end
        BY <1>5
      <4> QED
        BY <1>3, <1>4, <4>1
    <3>2. p[i] = t[i]
      BY <1>5, <3>1
    <3>3. p[i] \notin Tags
      BY <1>1, <3>1, <3>2 DEF IsEscaped
    <3>4. ASSUME p[i] = "&" PROVE IsEntity(p, i)
      <4>1. PICK j \in i + 1 .. end : t[j] = ";" /\ \A k \in i + 1 .. j - 1 : t[k] # "&"
        BY <1>2, <3>1, <3>2, <3>4 DEF CutsNoEntity
      <4>2. j \in 1 .. end /\ \A k \in i + 1 .. j - 1 : k \in 1 .. end
        BY <1>4, <3>1
      <4>3. p[j] = ";" /\ \A k \in i + 1 .. j - 1 : p[k] # "&"
        BY <1>5, <4>1, <4>2
      <4>4. j \in i + 1 .. Len(p)
        BY <1>5
      <4> QED
        BY <4>3, <4>4 DEF IsEntity
    <3> QED
      BY <3>3, <3>4
  <2>2. p \in Whole(S)
    BY <1>5, <2>1, WholeIs
  <2>3. p # <<>>
    BY <1>4, <1>5
  <2> QED
    BY <1>4, <1>5, <2>2, <2>3 DEF Sendable
<1> QED
  BY <1>6, <1>7, <1>8, <1>9 DEF p, r

\* The parts of a line so far, the last one the rest.
Cuts(S) == {v \in Seq(Seq(S)) :
              \E front \in Seq(Sendable(Whole(S))), rest \in Escaped(S) : v = Append(front, rest)}

LEMMA CutOnceIs ==
  ASSUME NEW S, NEW v \in Cuts(S)
  PROVE  /\ CutOnce(v) \in Cuts(S) /\ Written(CutOnce(v)) = Written(v)
         /\ Len(Last(v)) <= MaxChars => CutOnce(v) = v
         /\ Len(Last(v)) > MaxChars => Len(Last(CutOnce(v))) < Len(Last(v))
<1> DEFINE P == Sendable(Whole(S))
<1>0. P \subseteq Seq(S) /\ Escaped(S) \subseteq Seq(S) /\ Seq(P) \subseteq Seq(Seq(S))
  <2>1. P \subseteq Seq(S) /\ Escaped(S) \subseteq Seq(S)
    BY DEF Sendable, Whole, Escaped
  <2> HIDE DEF P
  <2> QED
    BY <2>1, SeqMonotonic
<1> HIDE DEF P
<1>1. PICK front \in Seq(P), rest \in Escaped(S) : v = Append(front, rest)
  BY DEF Cuts, P
<1>2. front \in Seq(Seq(S)) /\ rest \in Seq(S)
  BY <1>0
<1>3. Front(v) = front /\ Last(v) = rest
  BY <1>1, <1>2, FrontOfAppend
<1>4. Len(rest) \in Nat /\ MaxChars \in Nat
  BY <1>2, SplitterAssumption
<1>5. CASE Len(rest) <= MaxChars
  <2>1. CutOnce(v) = v
    BY <1>3, <1>5 DEF CutOnce
  <2>2. ~(Len(rest) > MaxChars)
    BY <1>4, <1>5
  <2> QED
    BY <1>3, <2>1, <2>2
<1>6. CASE ~(Len(rest) <= MaxChars)
  <2> DEFINE end == EndOfPart(rest)
             a == SubSeq(rest, 1, end)
             b == SubSeq(rest, end + 1, Len(rest))
             u == Append(front, a)
             w == Append(u, b)
  <2>1. Len(rest) > MaxChars
    BY <1>4, <1>6
  <2>2. CutOnce(v) = front \o <<a, b>>
    BY <1>3, <1>6 DEF CutOnce
  <2> HIDE DEF end
  <2>3. a \in P /\ b \in Escaped(S) /\ Len(b) < Len(rest) /\ rest = a \o b
    <3>1. end = EndOfPart(rest)
      BY DEF end
    <3> QED
      BY <2>1, <3>1, CutIs DEF P
  <2> HIDE DEF a, b
  <2>4. a \in Seq(S) /\ b \in Seq(S)
    BY <1>0, <2>3
  <2>5. u \in Seq(P) /\ u \in Seq(Seq(S))
    BY <1>0, <2>3, AppendProperties
  <2>6. front \o <<a, b>> = w
    <3>1. u = front \o <<a>> /\ w = u \o <<b>>
      <4>1. u = front \o <<a>>
        BY <1>2, <2>4, AppendIsConcat
      <4> HIDE DEF u
      <4>2. w = u \o <<b>>
        BY <2>4, <2>5, AppendIsConcat
      <4> QED
        BY <4>1, <4>2
    <3>2. <<a>> \in Seq(Seq(S)) /\ <<b>> \in Seq(Seq(S))
      BY <2>4
    <3> DEFINE one == <<a>>
               two == <<b>>
    <3>5. <<a, b>> = Append(one, b)
      OBVIOUS
    <3> HIDE DEF one
    <3>6. Append(one, b) = one \o <<b>>
      BY <2>4, <3>2, AppendIsConcat DEF one
    <3>4. <<a, b>> = one \o two
      BY <3>5, <3>6
    <3> HIDE DEF two, u, w
    <3>3. (front \o one) \o two = front \o (one \o two)
      BY <1>2, <3>2, ConcatAssociative DEF one, two
    <3> QED
      BY <3>1, <3>3, <3>4 DEF one, two
  <2> HIDE DEF u
  <2>7. w \in Cuts(S) /\ Last(w) = b
    <3>1. w \in Seq(Seq(S)) /\ Last(w) = b
      BY <2>4, <2>5, AppendProperties, FrontOfAppend
    <3> QED
      BY <2>3, <2>5, <3>1 DEF Cuts, P
  <2>8. Written(w) = Written(v)
    <3>1. Written(w) = Written(u) \o Letters(b) /\ Written(u) = Written(front) \o Letters(a)
      <4>1. Written(w) = Written(u) \o Letters(b)
        BY <2>4, <2>5, WrittenAppend
      <4>2. Written(u) = Written(front) \o Letters(a)
        BY <1>2, <2>4, WrittenAppend DEF u
      <4> QED
        BY <4>1, <4>2
    <3>2. Written(v) = Written(front) \o Letters(rest)
      BY <1>1, <1>2, WrittenAppend
    <3>3. Letters(rest) = Letters(a) \o Letters(b)
      BY <2>3, <2>4, LettersConcat
    <3>4. Written(front) \in Seq(S) /\ Letters(a) \in Seq(S) /\ Letters(b) \in Seq(S)
      BY <1>2, <2>4, WrittenAppend
    <3>5. (Written(front) \o Letters(a)) \o Letters(b) = Written(front) \o (Letters(a) \o Letters(b))
      BY <3>4, ConcatAssociative, SMTT(30)
    <3> QED
      BY <3>1, <3>2, <3>3, <3>5
  <2> HIDE DEF w
  <2> QED
    BY <1>3, <1>6, <2>2, <2>3, <2>6, <2>7, <2>8
<1> QED
  BY <1>5, <1>6

\* A line that is too long becomes parts that can be sent, and holds the same letters.
LEMMA CutLineIs ==
  ASSUME NEW S, NEW t \in Escaped(S)
  PROVE  /\ CutLine(t) \in Seq(Sendable(Whole(S)))
         /\ Written(CutLine(t)) = Letters(t)
<1> DEFINE N == Len(t)
           V == Cuts(S)
           a == <<t>>
           Step(f) == [n \in 0 .. N |-> IF n = 0 THEN a ELSE CutOnce(f[n - 1])]
           c == CHOOSE f : f = Step(f)
           step == [n \in 1 .. N |-> [v \in V |-> CutOnce(v)]]
<1>1. N \in Nat /\ t \in Seq(S) /\ t # <<>>
  BY DEF Escaped
<1>2. a \in V /\ Last(a) = t /\ Written(a) = Letters(t)
  <2> DEFINE none == <<>>
  <2>1. a = Append(none, t) /\ none \in Seq(Sendable(Whole(S))) /\ none \in Seq(Seq(S)) /\ a \in Seq(Seq(S))
    BY <1>1
  <2>2. Written(none) = <<>>
    BY <1>1, <2>1, WrittenIs
  <2> HIDE DEF none, a
  <2>3. a \in V
    BY <2>1 DEF Cuts
  <2>4. Last(a) = t
    BY <1>1, <2>1, FrontOfAppend
  <2>5. Written(a) = Letters(t)
    <3>1. Written(a) = Written(none) \o Letters(t) /\ Letters(t) \in Seq(S)
      BY <1>1, <2>1, WrittenAppend
    <3>2. <<>> \o Letters(t) = Letters(t)
      BY <3>1, ConcatEmptySeq
    <3> QED
      BY <2>2, <3>1, <3>2
  <2> QED
    BY <2>3, <2>4, <2>5
<1>3. CutLine(t) = c[N]
  BY DEF CutLine
<1> HIDE DEF a, V
<1>4. \A n \in 1 .. N : \A v \in V : step[n][v] = CutOnce(v)
  OBVIOUS
<1>5. \A n \in 1 .. N : \A v \in V : step[n][v] \in V
  BY <1>4, CutOnceIs DEF V
<1>6. PICK f : IsRecursion(f, N, V, a, step)
  <2> HIDE DEF N, step
  <2> QED
    BY <1>1, <1>2, <1>5, Recursion
<1>7. f \in [0 .. N -> V] /\ f[0] = a /\ \A n \in 1 .. N : f[n] = step[n][f[n - 1]]
  BY <1>6 DEF IsRecursion
<1>8. \A n \in 1 .. N : n - 1 \in 0 .. N /\ f[n - 1] \in V /\ f[n] = CutOnce(f[n - 1])
  <2> SUFFICES ASSUME NEW n \in 1 .. N
               PROVE  n - 1 \in 0 .. N /\ f[n - 1] \in V /\ f[n] = CutOnce(f[n - 1])
    OBVIOUS
  <2>1. n - 1 \in 0 .. N
    BY <1>1
  <2>2. f[n - 1] \in V
    BY <1>7, <2>1
  <2> HIDE DEF step
  <2> QED
    BY <1>4, <1>7, <2>1, <2>2
<1> HIDE DEF step
<1>9. f = Step(f)
  <2>1. \A n \in 0 .. N : f[n] = IF n = 0 THEN a ELSE CutOnce(f[n - 1])
    <3> SUFFICES ASSUME NEW n \in 0 .. N PROVE f[n] = IF n = 0 THEN a ELSE CutOnce(f[n - 1])
      OBVIOUS
    <3>1. CASE n = 0
      BY <1>7, <3>1
    <3>2. CASE n # 0
      <4>1. n \in 1 .. N
        BY <1>1, <3>2
      <4> QED
        BY <1>8, <3>2, <4>1
    <3> QED
      BY <3>1, <3>2
  <2>2. f = [n \in 0 .. N |-> f[n]]
    BY <1>7
  <2> QED
    BY <2>1, <2>2
<1>10. c = Step(c)
  <2> HIDE DEF Step
  <2> QED
    BY <1>9
<1> HIDE DEF c
<1>11. \A n \in 0 .. N : c[n] = IF n = 0 THEN a ELSE CutOnce(c[n - 1])
  BY <1>10
<1> HIDE DEF Step, N
<1> DEFINE Fits(v, n) == Len(Last(v)) <= MaxChars \/ Len(Last(v)) <= N - n
           T == {n \in 0 .. N : c[n] \in V /\ Written(c[n]) = Letters(t) /\ Fits(c[n], n)}
<1>12. 0 \in T
  <2>1. 0 \in 0 .. N /\ c[0] = a
    BY <1>1, <1>11
  <2>2. Fits(a, 0)
    BY <1>1, <1>2 DEF N
  <2> HIDE DEF Fits
  <2> QED
    BY <1>2, <2>1, <2>2
<1>13. ASSUME NEW n \in 1 .. N, n - 1 \in T PROVE n \in T
  <2> DEFINE v == c[n - 1]
             w == CutOnce(v)
  <2>1. n \in 0 .. N /\ c[n] = w /\ v \in V /\ Written(v) = Letters(t) /\ Fits(v, n - 1)
    <3>1. n \in 0 .. N /\ n # 0
      BY <1>1
    <3> HIDE DEF Fits
    <3> QED
      BY <1>11, <1>13, <3>1
  <2> HIDE DEF v
  <2>2. /\ w \in V /\ Written(w) = Written(v)
        /\ Len(Last(v)) <= MaxChars => w = v
        /\ Len(Last(v)) > MaxChars => Len(Last(w)) < Len(Last(v))
    BY <2>1, CutOnceIs DEF V
  <2> HIDE DEF w
  <2>3. Fits(w, n)
    <3>1. Len(Last(v)) \in Nat /\ Len(Last(w)) \in Nat /\ MaxChars \in Nat
      <4>1. ASSUME NEW x \in V PROVE Len(Last(x)) \in Nat
        <5>1. PICK front \in Seq(Sendable(Whole(S))), rest \in Escaped(S) : x = Append(front, rest)
          BY DEF V, Cuts
        <5>2. front \in Seq(Seq(S)) /\ rest \in Seq(S)
          <6>1. Sendable(Whole(S)) \subseteq Seq(S)
            BY DEF Sendable, Whole
          <6> QED
            BY <6>1, SeqMonotonic DEF Escaped
        <5>3. Last(x) = rest
          BY <5>1, <5>2, FrontOfAppend
        <5> QED
          BY <5>2, <5>3
      <4> QED
        BY <2>1, <2>2, <4>1, SplitterAssumption
    <3> DEFINE m == Len(Last(v))
               k == Len(Last(w))
    <3>2. (m <= MaxChars => k <= MaxChars) /\ (m > MaxChars => k < m)
      BY <2>2
    <3>3. m <= MaxChars \/ m <= N - (n - 1)
      BY <2>1
    <3> HIDE DEF m, k
    <3>4. k <= MaxChars \/ k <= N - n
      BY <1>1, <3>1, <3>2, <3>3 DEF m, k
    <3> QED
      BY <3>4 DEF k
  <2> HIDE DEF Fits
  <2> QED
    BY <2>1, <2>2, <2>3
<1>14. N \in T
  <2> HIDE DEF T
  <2>1. \A n \in 0 .. N : n \in T
    BY <1>1, <1>12, <1>13, UpTo
  <2> QED
    BY <1>1, <2>1
<1>15. c[N] \in V /\ Written(c[N]) = Letters(t) /\ Fits(c[N], N)
  <2> HIDE DEF Fits
  <2> QED
    BY <1>14
<1> HIDE DEF T
<1>16. PICK front \in Seq(Sendable(Whole(S))), rest \in Escaped(S) : c[N] = Append(front, rest)
  BY <1>15 DEF V, Cuts
<1>17. rest \in Sendable(Whole(S))
  <2>1. Sendable(Whole(S)) \subseteq Seq(S)
    BY DEF Sendable, Whole
  <2>2. front \in Seq(Seq(S))
    BY <2>1, SeqMonotonic
  <2>3. rest \in Whole(S) /\ rest # <<>> /\ rest \in Seq(S)
    BY EscapedIsWhole
  <2>4. Last(c[N]) = rest
    BY <1>16, <2>2, <2>3, FrontOfAppend
  <2>5. Len(rest) <= MaxChars
    <3>1. Len(rest) \in Nat /\ Len(rest) # 0 /\ MaxChars \in Nat
      BY <2>3, SplitterAssumption
    <3>2. Len(rest) <= MaxChars \/ Len(rest) <= N - N
      BY <1>15, <2>4
    <3> QED
      BY <1>1, <3>1, <3>2
  <2> QED
    BY <2>3, <2>5 DEF Sendable
<1>18. c[N] \in Seq(Sendable(Whole(S)))
  BY <1>16, <1>17, AppendProperties
<1> QED
  BY <1>3, <1>15, <1>18 DEF N

-------------------------------------------------------------------------------
(* Splitting blocks. *)
IsElement(s, e) == \E q \in 1 .. Len(s) : s[q] = e

LEMMA ElementOfConcat ==
  ASSUME NEW P, NEW s \in Seq(P), NEW x \in Seq(P), NEW e, IsElement(s, e) \/ IsElement(x, e)
  PROVE  IsElement(s \o x, e)
<1> DEFINE u == s \o x
<1>1. /\ Len(u) = Len(s) + Len(x) /\ Len(s) \in Nat /\ Len(x) \in Nat
      /\ \A i \in 1 .. Len(u) : u[i] = IF i <= Len(s) THEN s[i] ELSE x[i - Len(s)]
  BY ConcatProperties
<1> HIDE DEF u
<1>2. ASSUME NEW q \in 1 .. Len(s), s[q] = e PROVE IsElement(u, e)
  <2>1. q \in 1 .. Len(u) /\ q <= Len(s)
    BY <1>1
  <2>2. u[q] = s[q]
    BY <1>1, <2>1
  <2> QED
    BY <1>2, <2>1, <2>2 DEF IsElement
<1>3. ASSUME NEW q \in 1 .. Len(x), x[q] = e PROVE IsElement(u, e)
  <2> DEFINE k == Len(s) + q
  <2>1. k \in 1 .. Len(u) /\ ~(k <= Len(s)) /\ k - Len(s) = q
    BY <1>1
  <2> HIDE DEF k
  <2>2. u[k] = x[q]
    BY <1>1, <2>1
  <2> QED
    BY <1>3, <2>1, <2>2 DEF IsElement
<1>4. IsElement(u, e)
  BY <1>2, <1>3 DEF IsElement
<1> QED
  BY <1>4 DEF u

LEMMA FlattenHolds ==
  ASSUME NEW P, NEW z \in Seq(Seq(P)), NEW i \in 1 .. Len(z), NEW e, IsElement(z[i], e)
  PROVE  IsElement(FlattenSeq(z), e)
<1> DEFINE T == {w \in Seq(Seq(P)) :
                   (\E k \in 1 .. Len(w) : IsElement(w[k], e)) => IsElement(FlattenSeq(w), e)}
<1>1. <<>> \in T
  <2>1. <<>> \in Seq(Seq(P)) /\ \A k \in 1 .. Len(<<>>) : FALSE
    OBVIOUS
  <2> QED
    BY <2>1
<1>2. ASSUME NEW w \in Seq(Seq(P)), NEW x \in Seq(P), w \in T PROVE Append(w, x) \in T
  <2> DEFINE v == Append(w, x)
  <2>1. /\ v \in Seq(Seq(P)) /\ Len(v) = Len(w) + 1 /\ v[Len(w) + 1] = x /\ Len(w) \in Nat
        /\ \A k \in 1 .. Len(w) : v[k] = w[k]
    BY AppendProperties
  <2>2. FlattenSeq(v) = FlattenSeq(w) \o x /\ FlattenSeq(w) \in Seq(P)
    BY FlattenAppend, FlattenType
  <2> HIDE DEF v
  <2>3. ASSUME NEW k \in 1 .. Len(v), IsElement(v[k], e) PROVE IsElement(FlattenSeq(v), e)
    <3>1. CASE k = Len(w) + 1
      <4>1. IsElement(x, e)
        BY <2>1, <2>3, <3>1
      <4> QED
        BY <2>2, <4>1, ElementOfConcat
    <3>2. CASE k # Len(w) + 1
      <4>1. k \in 1 .. Len(w)
        BY <2>1, <3>2
      <4>2. IsElement(w[k], e)
        BY <2>1, <2>3, <4>1
      <4>3. IsElement(FlattenSeq(w), e)
        BY <1>2, <4>1, <4>2
      <4> QED
        BY <2>2, <4>3, ElementOfConcat
    <3> QED
      BY <3>1, <3>2
  <2> QED
    BY <2>1, <2>3 DEF v
<1>3. Seq(Seq(P)) \subseteq T
  <2> DEFINE Q == Seq(P)
  <2> HIDE DEF T, Q
  <2>1. \A w \in Seq(Q), x \in Q : w \in T => Append(w, x) \in T
    BY <1>2 DEF Q
  <2>2. Seq(Q) \subseteq T
    BY <1>1, <2>1, SeqInduct
  <2> QED
    BY <2>2 DEF Q
<1> QED
  BY <1>3

\* Texts cut into pieces: the pieces, one after the other, hold the letters of the texts.
LEMMA WrittenPieces ==
  ASSUME NEW S, NEW P, P \subseteq Seq(S), NEW w \in Seq(Seq(P)), NEW texts \in Seq(Seq(S)),
         Len(w) = Len(texts), \A i \in 1 .. Len(w) : Written(w[i]) = Letters(texts[i])
  PROVE  Written(FlattenSeq(w)) = Written(texts)
<1> DEFINE N == Len(w)
           cut(n) == SubSeq(w, 1, n)
           all(n) == SubSeq(texts, 1, n)
           T == {n \in 0 .. N : Written(FlattenSeq(cut(n))) = Written(all(n))}
<1>1. N \in Nat /\ N \in 0 .. N
  OBVIOUS
<1>2. 0 \in T
  <2>1. cut(0) = <<>> /\ all(0) = <<>>
    BY SubSeqEmpty
  <2>2. FlattenSeq(<<>>) = <<>>
    BY FlattenEmpty
  <2> HIDE DEF cut, all
  <2> QED
    BY <1>1, <2>1, <2>2
<1>3. ASSUME NEW n \in 1 .. N, n - 1 \in T PROVE n \in T
  <2> DEFINE u == cut(n - 1)
             x == w[n]
             t == all(n - 1)
             y == texts[n]
             f == FlattenSeq(u)
  <2>1. cut(n) = Append(u, x) /\ u \in Seq(Seq(P)) /\ x \in Seq(P)
    BY SubSeqIsAppend
  <2>2. all(n) = Append(t, y) /\ t \in Seq(Seq(S)) /\ y \in Seq(S)
    <3>1. n \in 1 .. Len(texts)
      OBVIOUS
    <3> QED
      BY <3>1, SubSeqIsAppend
  <2>3. Written(x) = Letters(y) /\ n \in 0 .. N
    BY <1>1
  <2>4. Written(f) = Written(t)
    BY <1>3
  <2> HIDE DEF cut, all, u, x, t, y
  <2>5. FlattenSeq(Append(u, x)) = f \o x /\ f \in Seq(P)
    BY <2>1, FlattenAppend, FlattenType
  <2> HIDE DEF f
  <2>6. f \in Seq(Seq(S)) /\ x \in Seq(Seq(S))
    BY <2>1, <2>5, SeqMonotonic
  <2>7. Written(f \o x) = Written(f) \o Written(x)
    BY <2>6, WrittenIs
  <2>8. Written(Append(t, y)) = Written(t) \o Letters(y)
    BY <2>2, WrittenAppend
  <2>9. Written(FlattenSeq(cut(n))) = Written(all(n))
    BY <2>1, <2>2, <2>3, <2>4, <2>5, <2>7, <2>8
  <2> QED
    BY <2>3, <2>9
<1>4. N \in T
  <2> HIDE DEF T, N
  <2>1. \A n \in 0 .. N : n \in T
    BY <1>1, <1>2, <1>3, UpTo
  <2> QED
    BY <1>1, <2>1
<1>5. cut(N) = w /\ all(N) = texts
  BY SubSeqFull
<1> QED
  BY <1>4, <1>5

\* What is packed: whole pieces that fit into a message.
Pieces(S) == {t \in Whole(S) : Len(t) <= MaxChars}
ArePieces(S, w, texts) ==
  /\ w \in Seq(Seq(Pieces(S))) /\ texts \in Seq(Seq(S)) /\ Len(w) = Len(texts)
  /\ \A i \in 1 .. Len(w) : Written(w[i]) = Letters(texts[i])

LEMMA PackedPieces ==
  ASSUME NEW S, NewLine \in S, NEW sep \in {LineSeparator, BlockSeparator},
         NEW w, NEW texts, ArePieces(S, w, texts)
  PROVE  /\ Pack(FlattenSeq(w), sep) \in Seq(Sendable(Whole(S)))
         /\ Written(Pack(FlattenSeq(w), sep)) = Written(texts)
         /\ \A i \in 1 .. Len(w) : \A e : IsElement(w[i], e) /\ e # <<>>
                                            => Holds(S, Pack(FlattenSeq(w), sep), e)
<1> DEFINE p == FlattenSeq(w)
           P == Pieces(S)
           G == Whole(S)
<1>1. P \subseteq G /\ P \subseteq Seq(S) /\ \A x \in P : Len(x) <= MaxChars
  BY DEF Pieces, Whole
<1>0. /\ w \in Seq(Seq(P)) /\ texts \in Seq(Seq(S)) /\ Len(w) = Len(texts)
      /\ \A i \in 1 .. Len(w) : Written(w[i]) = Letters(texts[i])
  BY DEF ArePieces
<1>2. sep \in Seq(S) /\ sep \in G /\ Letters(sep) = <<>>
  BY Separators
<1>3. IsClosed(G, sep) /\ G \subseteq Seq(S) /\ <<>> \in G
  BY <1>2, WholeIsClosed
<1> HIDE DEF P, G
<1>4. p \in Seq(P)
  BY <1>0, FlattenType
<1>5. Written(p) = Written(texts)
  BY <1>0, <1>1, WrittenPieces, ZenonT(30)
<1>6. ASSUME NEW i \in 1 .. Len(w), NEW e, IsElement(w[i], e) PROVE IsElement(p, e)
  BY <1>0, <1>6, FlattenHolds
<1> HIDE DEF p
<1>7. p \in Seq(G) /\ \A i \in 1 .. Len(p) : Len(p[i]) <= MaxChars
  <2>1. p \in Seq(G)
    BY <1>1, <1>4, SeqMonotonic
  <2>2. \A i \in 1 .. Len(p) : p[i] \in P
    BY <1>4
  <2> QED
    BY <1>1, <2>1, <2>2
<1>8. /\ Pack(p, sep) \in Seq(Sendable(G)) /\ Written(Pack(p, sep)) = Written(p)
      /\ \A i \in 1 .. Len(p) : p[i] # <<>> => Holds(S, Pack(p, sep), p[i])
  BY <1>2, <1>3, <1>7, PackIs
<1>9. ASSUME NEW i \in 1 .. Len(w), NEW e, IsElement(w[i], e), e # <<>>
      PROVE  Holds(S, Pack(p, sep), e)
  <2>1. PICK q \in 1 .. Len(p) : p[q] = e
    BY <1>6, <1>9 DEF IsElement
  <2> QED
    BY <1>8, <1>9, <2>1
<1> QED
  BY <1>5, <1>8, <1>9 DEF p, G

\* Lines that the splitter can cut where they are too long, and texts of such lines.
GoodLines(S) == {t \in Whole(S) : Len(t) <= MaxChars \/ t \in Escaped(S)}
GoodTexts(S) == {t \in Seq(S) : Lines(t) \in Seq(GoodLines(S))}

LEMMA GoodTextIsWhole ==
  ASSUME NEW S, NewLine \in S, NEW t \in GoodTexts(S)
  PROVE  t \in Whole(S) /\ t \in Seq(S)
<1> DEFINE v == Lines(t)
           G == Whole(S)
           sep == LineSeparator
<1>1. t \in Seq(S) /\ v \in Seq(GoodLines(S))
  BY DEF GoodTexts
<1>2. GoodLines(S) \subseteq G
  BY DEF GoodLines
<1>3. v # <<>> /\ Join(v, sep) = t
  BY <1>1, LinesType, LinesJoin
<1>4. sep \in G /\ sep \in Seq(S)
  BY Separators
<1>5. IsClosed(G, sep) /\ G \subseteq Seq(S)
  BY <1>4, WholeIsClosed
<1> HIDE DEF v, G, sep
<1>6. v \in Seq(G)
  BY <1>1, <1>2, SeqMonotonic
<1>7. Join(v, sep) \in G
  BY <1>3, <1>4, <1>5, <1>6, JoinClosed
<1> QED
  BY <1>1, <1>3, <1>7 DEF G

LEMMA PieceOne ==
  ASSUME NEW S, NEW t \in Pieces(S)
  PROVE  /\ <<t>> \in Seq(Pieces(S)) /\ Written(<<t>>) = Letters(t)
         /\ IsElement(<<t>>, t)
<1>1. t \in Seq(S)
  BY DEF Pieces, Whole
<1> DEFINE none == <<>>
           a == <<t>>
<1>2. a = Append(none, t) /\ none \in Seq(Seq(S)) /\ a \in Seq(Pieces(S)) /\ Len(a) = 1 /\ a[1] = t
  BY <1>1
<1>3. Written(none) = <<>>
  BY <1>1, <1>2, WrittenIs
<1> HIDE DEF none, a
<1>4. Written(a) = Written(none) \o Letters(t) /\ Letters(t) \in Seq(S)
  BY <1>1, <1>2, WrittenAppend
<1>5. <<>> \o Letters(t) = Letters(t)
  BY <1>4, ConcatEmptySeq
<1>6. IsElement(a, t)
  BY <1>2 DEF IsElement
<1> QED
  BY <1>2, <1>3, <1>4, <1>5, <1>6 DEF a

LEMMA SendableIsPiece ==
  ASSUME NEW S
  PROVE  Seq(Sendable(Whole(S))) \subseteq Seq(Pieces(S))
<1>1. Sendable(Whole(S)) \subseteq Pieces(S)
  BY DEF Sendable, Pieces
<1> QED
  BY <1>1, SeqMonotonic

LEMMA LinePiecesIs ==
  ASSUME NEW S, NEW t \in GoodLines(S)
  PROVE  LinePieces(t) \in Seq(Pieces(S)) /\ Written(LinePieces(t)) = Letters(t)
<1>1. CASE Len(t) <= MaxChars
  <2>1. LinePieces(t) = <<t>> /\ t \in Pieces(S)
    BY <1>1 DEF LinePieces, GoodLines, Pieces
  <2> QED
    BY <2>1, PieceOne
<1>2. CASE ~(Len(t) <= MaxChars)
  <2>1. LinePieces(t) = CutLine(t) /\ t \in Escaped(S)
    BY <1>2 DEF LinePieces, GoodLines
  <2> QED
    BY <2>1, CutLineIs, SendableIsPiece
<1> QED
  BY <1>1, <1>2

LEMMA SplitBlockIs ==
  ASSUME NEW S, NewLine \in S, NEW t \in GoodTexts(S)
  PROVE  /\ SplitBlock(t) \in Seq(Sendable(Whole(S)))
         /\ Written(SplitBlock(t)) = Letters(t)
<1> DEFINE v == Lines(t)
           w == [i \in DOMAIN v |-> LinePieces(v[i])]
           sep == LineSeparator
<1>1. v \in Seq(GoodLines(S)) /\ t \in Seq(S)
  BY DEF GoodTexts
<1>2. SplitBlock(t) = Pack(FlattenSeq(w), sep)
  BY DEF SplitBlock
<1>3. v \in Seq(Seq(S)) /\ Join(v, sep) = t
  BY <1>1, LinesType, LinesJoin
<1>4. sep \in Seq(S) /\ Letters(sep) = <<>>
  BY Separators
<1>5. Written(v) = Letters(t)
  <2>1. Letters(Join(v, sep)) = Written(v)
    <3> HIDE DEF v, sep
    <3> QED
      BY <1>3, <1>4, LettersOfJoin
  <2> QED
    BY <1>3, <2>1
<1> HIDE DEF v
<1>6. /\ w \in Seq(Seq(Pieces(S))) /\ Len(w) = Len(v)
      /\ \A i \in 1 .. Len(w) : Written(w[i]) = Letters(v[i])
  <2>1. \A i \in DOMAIN v : /\ LinePieces(v[i]) \in Seq(Pieces(S))
                            /\ Written(LinePieces(v[i])) = Letters(v[i])
    <3>1. \A i \in DOMAIN v : v[i] \in GoodLines(S)
      BY <1>1
    <3> QED
      BY <3>1, LinePiecesIs
  <2>2. DOMAIN v = 1 .. Len(v) /\ Len(v) \in Nat
    BY <1>1
  <2>3. w \in Seq(Seq(Pieces(S))) /\ Len(w) = Len(v)
    BY <2>1, <2>2
  <2>4. \A i \in DOMAIN v : w[i] = LinePieces(v[i])
    OBVIOUS
  <2> HIDE DEF w
  <2> QED
    BY <2>1, <2>2, <2>3, <2>4
<1>8. sep \in {LineSeparator, BlockSeparator} /\ v \in Seq(Seq(S))
  BY <1>3
<1> HIDE DEF w, sep
<1>7. /\ Pack(FlattenSeq(w), sep) \in Seq(Sendable(Whole(S)))
      /\ Written(Pack(FlattenSeq(w), sep)) = Written(v)
  <2>1. ArePieces(S, w, v)
    BY <1>6, <1>8 DEF ArePieces
  <2> QED
    BY <1>8, <2>1, PackedPieces
<1> QED
  BY <1>2, <1>5, <1>7

LEMMA BlockPiecesIs ==
  ASSUME NEW S, NewLine \in S, NEW t \in GoodTexts(S)
  PROVE  /\ BlockPieces(t) \in Seq(Pieces(S)) /\ Written(BlockPieces(t)) = Letters(t)
         /\ Len(t) <= MaxChars => IsElement(BlockPieces(t), t)
<1>1. t \in Whole(S)
  BY GoodTextIsWhole
<1>2. CASE Len(t) <= MaxChars
  <2>1. BlockPieces(t) = <<t>> /\ t \in Pieces(S)
    BY <1>1, <1>2 DEF BlockPieces, Pieces
  <2> QED
    BY <2>1, PieceOne
<1>3. CASE ~(Len(t) <= MaxChars)
  <2>1. BlockPieces(t) = SplitBlock(t)
    BY <1>3 DEF BlockPieces
  <2> QED
    BY <1>3, <2>1, SplitBlockIs, SendableIsPiece
<1> QED
  BY <1>2, <1>3

\* "Nothing is dropped and order is kept" (message-splitter.ts:7): the messages can be sent,
\* hold the letters of the blocks in order, and a block that fits into one is in one.
LEMMA SplitMessagesIs ==
  ASSUME NEW S, NewLine \in S, NEW blocks \in Seq(GoodTexts(S))
  PROVE  /\ SplitMessages(blocks) \in Seq(Sendable(Whole(S)))
         /\ Written(SplitMessages(blocks)) = Written(blocks)
         /\ \A i \in 1 .. Len(blocks) :
              blocks[i] # <<>> /\ Len(blocks[i]) <= MaxChars
                => Holds(S, SplitMessages(blocks), blocks[i])
<1> DEFINE w == [i \in DOMAIN blocks |-> BlockPieces(blocks[i])]
           sep == BlockSeparator
<1>1. SplitMessages(blocks) = Pack(FlattenSeq(w), sep)
  BY DEF SplitMessages
<1>2. blocks \in Seq(Seq(S))
  <2>1. GoodTexts(S) \subseteq Seq(S)
    BY DEF GoodTexts
  <2> QED
    BY <2>1, SeqMonotonic
<1>3. /\ w \in Seq(Seq(Pieces(S))) /\ Len(w) = Len(blocks)
      /\ \A i \in 1 .. Len(w) : Written(w[i]) = Letters(blocks[i])
      /\ \A i \in 1 .. Len(w) : Len(blocks[i]) <= MaxChars => IsElement(w[i], blocks[i])
  <2>1. \A i \in DOMAIN blocks : blocks[i] \in GoodTexts(S)
    OBVIOUS
  <2>2. \A i \in DOMAIN blocks : /\ BlockPieces(blocks[i]) \in Seq(Pieces(S))
                                 /\ Written(BlockPieces(blocks[i])) = Letters(blocks[i])
    BY <2>1, BlockPiecesIs
  <2>3. \A i \in DOMAIN blocks :
          Len(blocks[i]) <= MaxChars => IsElement(BlockPieces(blocks[i]), blocks[i])
    BY <2>1, BlockPiecesIs
  <2>4. DOMAIN blocks = 1 .. Len(blocks) /\ Len(blocks) \in Nat
    OBVIOUS
  <2>5. w \in Seq(Seq(Pieces(S))) /\ Len(w) = Len(blocks)
    BY <2>2, <2>4
  <2>6. \A i \in DOMAIN blocks : w[i] = BlockPieces(blocks[i])
    OBVIOUS
  <2> HIDE DEF w
  <2>7. \A i \in 1 .. Len(w) : Written(w[i]) = Letters(blocks[i])
    BY <2>2, <2>4, <2>5, <2>6
  <2>8. \A i \in 1 .. Len(w) : Len(blocks[i]) <= MaxChars => IsElement(w[i], blocks[i])
    BY <2>3, <2>4, <2>5, <2>6
  <2> QED
    BY <2>5, <2>7, <2>8
<1> HIDE DEF w
<1>4. /\ Pack(FlattenSeq(w), sep) \in Seq(Sendable(Whole(S)))
      /\ Written(Pack(FlattenSeq(w), sep)) = Written(blocks)
      /\ \A i \in 1 .. Len(w) : \A e : IsElement(w[i], e) /\ e # <<>>
                                         => Holds(S, Pack(FlattenSeq(w), sep), e)
  <2>1. ArePieces(S, w, blocks)
    BY <1>2, <1>3 DEF ArePieces
  <2> QED
    BY <2>1, PackedPieces
<1> DEFINE all == SplitMessages(blocks)
<1> HIDE DEF sep, all
<1>5. \A i \in 1 .. Len(blocks) :
        blocks[i] # <<>> /\ Len(blocks[i]) <= MaxChars => Holds(S, all, blocks[i])
  <2>1. \A i \in 1 .. Len(w) : \A e : IsElement(w[i], e) /\ e # <<>> => Holds(S, all, e)
    BY <1>1, <1>4 DEF all
  <2> QED
    BY <1>3, <2>1
<1> QED
  BY <1>1, <1>4, <1>5 DEF all

-------------------------------------------------------------------------------
(* The blocks of a digest can be split. *)
Notes == {",", "title", "counts", "counted", "skipped", "untranslated", "fallback", "listed"}
Chars == Characters \cup Tags \cup Notes \cup {NewLine}
Words == Chars \ (Tags \cup {"&", NewLine})
Plain == Chars \ {NewLine}
BlockTexts == GoodTexts(Chars) \ {<<>>}

LEMMA CharsAre ==
  /\ NewLine \in Chars /\ Words \subseteq Chars /\ Words \subseteq Plain /\ Plain \subseteq Chars
  /\ Tags \subseteq Plain /\ "&" \notin Tags /\ DOMAIN ClosingTag = {"<b>", "<a>", "<i>"}
  /\ Notes \subseteq Words
<1>1. NewLine \in Chars /\ Words \subseteq Chars /\ Plain \subseteq Chars
  BY DEF Chars, Words, Plain
<1>2. Words \subseteq Plain
  BY DEF Words, Plain
<1>3. Tags \subseteq Plain /\ "&" \notin Tags
  <2>1. Tags \subseteq Chars
    BY DEF Chars
  <2>2. NewLine \notin Tags /\ "&" \notin Tags
    BY TagsAre DEF NewLine
  <2> QED
    BY <2>1, <2>2 DEF Plain
<1>4. DOMAIN ClosingTag = {"<b>", "<a>", "<i>"}
  BY DEF ClosingTag
<1>5. Notes \subseteq Words
  <2>1. Notes \subseteq Chars
    BY DEF Chars
  <2>2. \A c \in Notes : c \notin Tags /\ c # "&" /\ c # NewLine
    BY TagsAre DEF NewLine, Notes
  <2> QED
    BY <2>1, <2>2 DEF Words
<1> QED
  BY <1>1, <1>2, <1>3, <1>4, <1>5

LEMMA SpaceIs ==
  /\ MaxChars \in Nat /\ LinksPerLine \in Nat \ {0} /\ 4 <= MaxChars
  /\ \A k \in 1 .. LinksPerLine : 4 * k - 1 <= MaxChars
<1>1. MaxChars \in Nat /\ LinksPerLine \in Nat \ {0} /\ 4 * LinksPerLine <= MaxChars
  BY SplitterAssumption, ContentAssumption, TextAssumption
<1> QED
  BY <1>1

\* A short text without a line break is one line that can be sent as it is.
LEMMA ShortLineIsGood ==
  ASSUME NEW t \in Whole(Chars), t \in Seq(Plain), Len(t) <= MaxChars, t # <<>>
  PROVE  t \in BlockTexts
<1>1. t \in Seq(Chars) /\ \A i \in DOMAIN t : t[i] # NewLine
  <2>1. \A i \in DOMAIN t : t[i] \in Plain
    OBVIOUS
  <2> QED
    BY <2>1 DEF Whole, Plain
<1>2. Lines(t) = <<t>>
  BY <1>1, LinesOne
<1>3. t \in GoodLines(Chars)
  BY DEF GoodLines
<1>4. <<t>> \in Seq(GoodLines(Chars))
  BY <1>3
<1> QED
  BY <1>1, <1>2, <1>4 DEF BlockTexts, GoodTexts

LEMMA BlockTextsAreClosed ==
  IsClosed(BlockTexts, LineSeparator) /\ BlockTexts \subseteq Seq(Chars)
<1>1. BlockTexts \subseteq Seq(Chars)
  BY DEF BlockTexts, GoodTexts
<1>2. ASSUME NEW x \in BlockTexts, NEW y \in BlockTexts
      PROVE  (x \o LineSeparator) \o y \in BlockTexts
  <2> DEFINE u == (x \o LineSeparator) \o y
  <2>1. x \in Seq(Chars) /\ y \in Seq(Chars) /\ y # <<>> /\ NewLine \in Chars
    BY <1>1, CharsAre DEF BlockTexts
  <2>2. Lines(x) \in Seq(GoodLines(Chars)) /\ Lines(y) \in Seq(GoodLines(Chars))
    BY DEF BlockTexts, GoodTexts
  <2>3. Lines(u) = Lines(x) \o Lines(y)
    BY <2>1, LinesConcat
  <2>4. x \o LineSeparator \in Seq(Chars)
    BY <2>1, Separators, ConcatProperties
  <2>5. u \in Seq(Chars) /\ u # <<>>
    <3> DEFINE h == x \o LineSeparator
    <3> HIDE DEF h
    <3>1. h \in Seq(Chars)
      BY <2>4 DEF h
    <3>2. h \o y \in Seq(Chars) /\ h \o y # <<>>
      BY <2>1, <3>1, ConcatProperties, ConcatEqualIffEmpty
    <3> QED
      BY <3>2 DEF h
  <2> HIDE DEF u
  <2>6. Lines(u) \in Seq(GoodLines(Chars))
    BY <2>2, <2>3, ConcatProperties
  <2>7. u \in BlockTexts
    BY <2>5, <2>6 DEF BlockTexts, GoodTexts
  <2> QED
    BY <2>7 DEF u
<1> QED
  BY <1>1, <1>2 DEF IsClosed

\* Lines of a block make a block.
LEMMA JoinedLines ==
  ASSUME NEW w \in Seq(BlockTexts), w # <<>>
  PROVE  Join(w, LineSeparator) \in BlockTexts
<1> DEFINE sep == LineSeparator
<1>1. sep \in Seq(Chars)
  BY CharsAre, Separators
<1>2. IsClosed(BlockTexts, sep) /\ BlockTexts \subseteq Seq(Chars)
  BY BlockTextsAreClosed
<1> HIDE DEF sep
<1>3. Join(w, sep) \in BlockTexts
  BY <1>1, <1>2, JoinClosed
<1> QED
  BY <1>3 DEF sep

\* A word between a tag and its closing tag.
Tagged == {t \in Whole(Chars) : t \in Seq(Plain) /\ Len(t) = 3}

LEMMA TaggedIs ==
  ASSUME NEW tag \in DOMAIN ClosingTag, NEW c \in Words, NEW t, t = <<tag, c, ClosingTag[tag]>>
  PROVE  t \in Tagged
<1>1. tag \in Tags /\ ClosingTag[tag] \in Tags
  BY DEF Tags
<1>2. c \in Plain /\ c \notin Tags /\ c # "&"
  BY CharsAre DEF Words
<1>3. tag \in Plain /\ ClosingTag[tag] \in Plain /\ tag # "&" /\ ClosingTag[tag] # "&"
  BY <1>1, CharsAre
<1>4. t \in Seq(Plain) /\ Len(t) = 3 /\ t[1] = tag /\ t[2] = c /\ t[3] = ClosingTag[tag]
  BY <1>2, <1>3
<1>5. t \in Seq(Chars)
  BY <1>4, CharsAre, SeqMonotonic
<1>6. AreTagPair(t, 1, 3)
  <2>1. \A k \in 1 + 1 .. 3 - 1 : k = 2
    OBVIOUS
  <2> QED
    BY <1>2, <1>4, <2>1 DEF AreTagPair
<1>7. IsTagged(t, 1) /\ IsTagged(t, 3)
  <2>1. 1 \in DOMAIN t /\ 3 \in DOMAIN t
    BY <1>4
  <2> QED
    BY <1>6, <2>1 DEF IsTagged
<1>8. ASSUME NEW i \in 1 .. Len(t)
      PROVE  (t[i] = "&" => IsEntity(t, i)) /\ (t[i] \in Tags => IsTagged(t, i))
  <2>1. i = 1 \/ i = 2 \/ i = 3
    BY <1>4
  <2> QED
    BY <1>2, <1>3, <1>4, <1>7, <2>1
<1>9. t \in Whole(Chars)
  BY <1>5, <1>8, WholeIs
<1> QED
  BY <1>4, <1>9 DEF Tagged

LEMMA TaggedIsGood ==
  ASSUME NEW t \in Tagged
  PROVE  t \in BlockTexts
<1>1. t \in Whole(Chars) /\ t \in Seq(Plain) /\ Len(t) = 3
  BY DEF Tagged
<1>2. t # <<>> /\ Len(t) <= MaxChars
  BY <1>1, SpaceIs
<1> QED
  BY <1>1, <1>2, ShortLineIsGood

LEMMA HeaderIsGood == HeaderBlock \in BlockTexts
<1> DEFINE a == <<"<b>", "title", "</b>">>
           b == <<"counts">>
           h == a \o LineSeparator
<1>1. a \in BlockTexts
  <2>1. "<b>" \in DOMAIN ClosingTag /\ ClosingTag["<b>"] = "</b>" /\ "title" \in Words
    BY CharsAre DEF ClosingTag, Notes
  <2>2. a \in Tagged
    BY <2>1, TaggedIs
  <2> QED
    BY <2>2, TaggedIsGood
<1>2. b \in BlockTexts /\ "counts" \in Chars
  <2> DEFINE c == "counts"
  <2>1. c \in Words
    BY CharsAre DEF Notes
  <2>2. c \in Plain /\ c \in Chars /\ c \notin Tags \cup {"&"}
    BY <2>1, CharsAre DEF Words
  <2> DEFINE d == <<c>>
  <2> HIDE DEF c
  <2>3. d \in Seq(Plain) /\ d \in Seq(Chars) /\ Len(d) = 1 /\ d[1] = c
    BY <2>2
  <2> HIDE DEF d
  <2>4. d \in Whole(Chars)
    <3>1. \A i \in 1 .. Len(d) : i = 1
      BY <2>3
    <3>2. \A i \in 1 .. Len(d) : d[i] \notin Tags \cup {"&"}
      BY <2>2, <2>3, <3>1
    <3> QED
      BY <2>3, <3>2, PlainIsWhole
  <2>5. d # <<>> /\ Len(d) <= MaxChars
    BY <2>3, SpaceIs
  <2>6. d \in BlockTexts
    BY <2>3, <2>4, <2>5, ShortLineIsGood
  <2> QED
    BY <2>2, <2>6 DEF c, d
<1>3. h \o b = HeaderBlock
  <2> DEFINE x == NewLine
             y == "counts"
  <2>1. HeaderBlock = Append(Append(a, x), y)
    BY DEF HeaderBlock
  <2>2. a \in Seq(Chars) /\ x \in Chars /\ y \in Chars
    BY <1>1, <1>2, BlockTextsAreClosed, CharsAre
  <2> HIDE DEF a, x, y
  <2>3. Append(a, x) = a \o <<x>> /\ Append(a, x) \in Seq(Chars)
    BY <2>2, AppendIsConcat, AppendProperties
  <2>4. Append(Append(a, x), y) = Append(a, x) \o <<y>>
    BY <2>2, <2>3, AppendIsConcat
  <2>5. h = a \o <<x>> /\ b = <<y>>
    BY DEF x, y, LineSeparator
  <2> QED
    BY <2>1, <2>3, <2>4, <2>5
<1> HIDE DEF a, b
<1>4. h \o b \in BlockTexts
  BY <1>1, <1>2, BlockTextsAreClosed DEF IsClosed
<1> QED
  BY <1>3, <1>4

LEMMA ConcatIsNonEmpty ==
  ASSUME NEW S, NEW s \in Seq(S) \ {<<>>}, NEW t \in Seq(S)
  PROVE  s \o t \in Seq(S) \ {<<>>}
BY ConcatProperties, ConcatEqualIffEmpty

LEMMA FooterLinesAre == FooterLines \in Seq(Words) \ {<<>>}
<1>1. ASSUME NEW b \in BOOLEAN, NEW c \in Words PROVE Shown(b, c) \in Seq(Words)
  BY DEF Shown
<1> DEFINE s1 == Shown(kept # Posts, "skipped")
           s2 == Shown(untranslated > 0, "untranslated")
           s3 == Shown(FallbackPosts(topics) # {}, "fallback")
           s4 == Shown(listed, "listed")
           a == <<"counted">>
           b == CollectorLines
           Q == Seq(Words) \ {<<>>}
<1>2. a \in Q
  <2>1. "counted" \in Words
    BY CharsAre DEF Notes
  <2> QED
    BY <2>1
<1>3. b \in Seq(Words)
  <2>1. b \in Seq(Characters) /\ \A i \in DOMAIN b : IsWords(b[i])
    BY TextAssumption
  <2>2. \A i \in DOMAIN b : b[i] \in Words
    BY <2>1 DEF IsWords, Words, Chars
  <2> HIDE DEF b
  <2>3. b = [i \in 1 .. Len(b) |-> b[i]] /\ Len(b) \in Nat /\ DOMAIN b = 1 .. Len(b)
    BY <2>1
  <2> QED
    BY <2>2, <2>3
<1>4. s1 \in Seq(Words) /\ s2 \in Seq(Words) /\ s3 \in Seq(Words) /\ s4 \in Seq(Words)
  <2>1. \A flag : \A c \in Words : Shown(flag, c) \in Seq(Words)
    BY DEF Shown
  <2>2. "skipped" \in Words /\ "untranslated" \in Words /\ "fallback" \in Words /\ "listed" \in Words
    BY CharsAre DEF Notes
  <2>3. s1 \in Seq(Words)
    BY <2>2 DEF Shown
  <2>4. s2 \in Seq(Words)
    BY <2>2 DEF Shown
  <2>5. s3 \in Seq(Words)
    BY <2>2 DEF Shown
  <2>6. s4 \in Seq(Words)
    BY <2>2 DEF Shown
  <2> QED
    BY <2>3, <2>4, <2>5, <2>6
<1>5. FooterLines = ((((a \o b) \o s1) \o s2) \o s3) \o s4
  BY DEF FooterLines
<1> HIDE DEF s1, s2, s3, s4, a, b
<1>6. a \o b \in Q
  BY <1>2, <1>3, ConcatIsNonEmpty
<1>7. (a \o b) \o s1 \in Q
  BY <1>4, <1>6, ConcatIsNonEmpty
<1>8. ((a \o b) \o s1) \o s2 \in Q
  BY <1>4, <1>7, ConcatIsNonEmpty
<1>9. (((a \o b) \o s1) \o s2) \o s3 \in Q
  BY <1>4, <1>8, ConcatIsNonEmpty
<1> QED
  BY <1>4, <1>5, <1>9, ConcatIsNonEmpty

LEMMA FooterIsGood == FooterBlock \in BlockTexts
<1> DEFINE v == FooterLines
           w == [i \in DOMAIN v |-> <<"<i>", v[i], "</i>">>]
<1>1. v \in Seq(Words) /\ v # <<>>
  BY FooterLinesAre
<1>2. FooterBlock = Join(w, LineSeparator)
  BY DEF FooterBlock
<1> HIDE DEF v
<1>3. ASSUME NEW i \in DOMAIN v PROVE <<"<i>", v[i], "</i>">> \in BlockTexts
  <2>1. v[i] \in Words
    BY <1>1
  <2>3. "<i>" \in DOMAIN ClosingTag /\ ClosingTag["<i>"] = "</i>"
    BY DEF ClosingTag
  <2>2. <<"<i>", v[i], "</i>">> \in Tagged
    BY <2>1, <2>3, TaggedIs
  <2> QED
    BY <2>2, TaggedIsGood
<1>4. w \in Seq(BlockTexts) /\ w # <<>>
  <2>1. DOMAIN v = 1 .. Len(v) /\ Len(v) \in Nat /\ Len(v) # 0
    BY <1>1
  <2>2. w \in Seq(BlockTexts) /\ Len(w) = Len(v)
    BY <1>3, <2>1
  <2> HIDE DEF w
  <2> QED
    BY <2>1, <2>2
<1> HIDE DEF w
<1> QED
  BY <1>2, <1>4, JoinedLines

\* Links of three characters each, with a character between them.
LEMMA LenOfConcat ==
  ASSUME NEW S, NEW s \in Seq(S), NEW t \in Seq(S)
  PROVE  s \o t \in Seq(S) /\ Len(s \o t) = Len(s) + Len(t)
BY ConcatProperties

Triples(S) == {x \in Seq(S) : Len(x) = 3}

LEMMA JoinLength ==
  ASSUME NEW S, NEW sep \in Seq(S), Len(sep) = 1, NEW z \in Seq(Triples(S))
  PROVE  z # <<>> => Len(Join(z, sep)) = 4 * Len(z) - 1
<1> DEFINE G == Triples(S)
           T == {w \in Seq(G) : w # <<>> => Len(Join(w, sep)) = 4 * Len(w) - 1}
<1>1. <<>> \in T
  OBVIOUS
<1>2. ASSUME NEW w \in Seq(G), NEW x \in G, w \in T PROVE Append(w, x) \in T
  <2>1. x \in Seq(S) /\ Len(x) = 3 /\ w \in Seq(Seq(S))
    <3>1. G \subseteq Seq(S)
      BY DEF Triples
    <3> QED
      BY <3>1, SeqMonotonic DEF Triples
  <2>2. Append(w, x) \in Seq(G) /\ Len(Append(w, x)) = Len(w) + 1 /\ Len(w) \in Nat
    BY AppendProperties
  <2>3. Len(Join(Append(w, x), sep)) = 4 * Len(Append(w, x)) - 1
    <3>1. CASE w = <<>>
      <4>1. Join(Append(w, x), sep) = x /\ Len(w) = 0
        BY <2>1, <3>1, JoinOne
      <4> QED
        BY <2>1, <2>2, <4>1
    <3>2. CASE w # <<>>
      <4> DEFINE j == Join(w, sep)
                 h == j \o sep
      <4>1. Len(j) = 4 * Len(w) - 1
        BY <1>2, <3>2
      <4>2. Join(Append(w, x), sep) = h \o x
        BY <2>1, <3>2, JoinMore
      <4>3. j \in Seq(S)
        BY <2>1, JoinType
      <4> HIDE DEF j
      <4>4. h \in Seq(S) /\ Len(h) = Len(j) + 1
        BY <4>3, LenOfConcat
      <4> HIDE DEF h
      <4>5. Len(h \o x) = Len(h) + 3
        <5>1. h \in Seq(S) /\ x \in Seq(S)
          BY <2>1, <4>4
        <5>2. Len(h \o x) = Len(h) + Len(x)
          BY <5>1, LenOfConcat
        <5> QED
          BY <2>1, <5>2
      <4>6. Len(h \o x) = 4 * (Len(w) + 1) - 1
        BY <2>2, <4>1, <4>4, <4>5
      <4> QED
        BY <2>2, <4>2, <4>6
    <3> QED
      BY <3>1, <3>2
  <2> QED
    BY <2>2, <2>3
<1>3. Seq(G) \subseteq T
  <2> HIDE DEF T
  <2> QED
    BY <1>1, <1>2, SeqInduct
<1> QED
  BY <1>3

LEMMA CommaIs ==
  <<",">> \in Whole(Chars) /\ <<",">> \in Seq(Plain) /\ Len(<<",">>) = 1
<1> DEFINE c == ","
           d == <<c>>
<1>1. c \in Words
  BY CharsAre DEF Notes
<1>2. c \in Plain /\ c \in Chars /\ c \notin Tags \cup {"&"}
  BY <1>1, CharsAre DEF Words
<1> HIDE DEF c
<1>3. d \in Seq(Plain) /\ d \in Seq(Chars) /\ Len(d) = 1 /\ d[1] = c
  BY <1>2
<1> HIDE DEF d
<1>4. d \in Whole(Chars)
  <2>1. \A i \in 1 .. Len(d) : i = 1
    BY <1>3
  <2>2. \A i \in 1 .. Len(d) : d[i] \notin Tags \cup {"&"}
    BY <1>2, <1>3, <2>1
  <2> QED
    BY <1>3, <2>2, PlainIsWhole
<1> QED
  BY <1>3, <1>4 DEF c, d

\* The links of one line fit into a message (DIGEST_LINKS_PER_LINE).
LEMMA LinkLineIsGood ==
  ASSUME NEW v \in Seq(Tagged), v # <<>>, Len(v) <= LinksPerLine
  PROVE  Join(v, <<",">>) \in BlockTexts
<1> DEFINE sep == <<",">>
           j == Join(v, sep)
<1>1. sep \in Whole(Chars) /\ sep \in Seq(Plain) /\ Len(sep) = 1
  BY CommaIs
<1>2. Tagged \subseteq Whole(Chars) /\ Tagged \subseteq Seq(Plain) /\ Tagged \subseteq Triples(Plain)
  BY DEF Tagged, Triples
<1> HIDE DEF sep
<1>3. j \in Whole(Chars)
  <2> DEFINE G == Whole(Chars)
  <2>1. IsClosed(G, sep) /\ G \subseteq Seq(Chars) /\ sep \in Seq(Chars)
    BY <1>1, WholeIsClosed DEF Whole
  <2>2. v \in Seq(G)
    BY <1>2, SeqMonotonic
  <2> HIDE DEF G, j
  <2>3. Join(v, sep) \in G
    BY <2>1, <2>2, JoinClosed
  <2> QED
    BY <2>3 DEF G, j
<1>4. j \in Seq(Plain)
  <2>1. v \in Seq(Seq(Plain))
    BY <1>2, SeqMonotonic
  <2> QED
    BY <1>1, <2>1, JoinType
<1>5. Len(j) = 4 * Len(v) - 1
  <2>1. v \in Seq(Triples(Plain))
    BY <1>2, SeqMonotonic
  <2> QED
    BY <1>1, <2>1, JoinLength
<1> HIDE DEF j
<1>6. Len(v) \in 1 .. LinksPerLine
  <2>1. Len(v) \in Nat /\ Len(v) # 0
    OBVIOUS
  <2> QED
    BY <2>1, SpaceIs
<1>7. Len(j) <= MaxChars /\ j # <<>>
  <2>1. 4 * Len(v) - 1 <= MaxChars
    BY <1>6, SpaceIs
  <2>2. Len(j) # 0
    BY <1>5, <1>6, SpaceIs
  <2> QED
    BY <1>5, <2>1, <2>2
<1>8. j \in BlockTexts
  BY <1>3, <1>4, <1>7, ShortLineIsGood
<1> QED
  BY <1>8 DEF j, sep

LEMMA LinkLinesAreGood ==
  ASSUME NEW links \in Seq(Tagged)
  PROVE  LinkLines(links) \in Seq(BlockTexts)
<1> DEFINE L == LinksPerLine
           n == Len(links)
           lines == (n + L - 1) \div L
           first(k) == (k - 1) * L + 1
           last(k) == IF k * L < n THEN k * L ELSE n
           line(k) == Join(SubSeq(links, first(k), last(k)), <<",">>)
<1>1. n \in Nat /\ L \in Nat \ {0} /\ lines \in Nat
  <2>1. n \in Nat /\ L \in Nat \ {0}
    BY SpaceIs
  <2> HIDE DEF n, L
  <2> QED
    BY <2>1
<1>2. LinkLines(links) = [k \in 1 .. lines |-> line(k)]
  BY DEF LinkLines
<1>3. ASSUME NEW k \in 1 .. lines PROVE line(k) \in BlockTexts
  <2> DEFINE i == first(k)
             j == last(k)
             v == SubSeq(links, i, j)
  <2>1. i \in Nat /\ 1 <= i /\ i <= n
    <3>1. k \in Nat /\ 1 <= k
      BY <1>1
    <3>2. k \in 1 .. ((n + L - 1) \div L)
      OBVIOUS
    <3> HIDE DEF n, L, lines
    <3>3. (k - 1) * L \in Nat
      BY <1>1, <3>1
    <3>4. (k - 1) * L + 1 <= n
      BY <1>1, <3>2
    <3> QED
      BY <1>1, <3>3, <3>4
  <2>2. j \in Nat /\ j <= n /\ i <= j /\ j - i + 1 <= L
    <3>1. k \in Nat /\ 1 <= k
      BY <1>1
    <3> DEFINE m == (k - 1) * L
    <3>2. k * L = m + L /\ m \in Nat
      <4> HIDE DEF n, L, lines
      <4> QED
        BY <1>1, <3>1
    <3>3. i = m + 1
      OBVIOUS
    <3>4. j = IF k * L < n THEN k * L ELSE n
      OBVIOUS
    <3> HIDE DEF m, n, L, lines, i, j
    <3> QED
      BY <1>1, <2>1, <3>2, <3>3, <3>4
  <2> HIDE DEF i, j
  <2>3. v \in Seq(Tagged) /\ Len(v) = j - i + 1
    <3>1. i \in 1 .. n + 1 /\ j \in 0 .. n
      BY <1>1, <2>1, <2>2
    <3>2. \A q \in i .. j : links[q] \in Tagged
      <4>1. \A q \in i .. j : q \in 1 .. Len(links)
        BY <1>1, <2>1, <2>2
      <4> QED
        BY <4>1
    <3>3. /\ v \in Seq(Tagged) /\ Len(v) = IF i <= j THEN j - i + 1 ELSE 0
      BY <2>1, <2>2, <3>2, SubSeqProperties
    <3> QED
      BY <2>2, <3>3
  <2> HIDE DEF v
  <2>4. v # <<>> /\ Len(v) <= LinksPerLine
    <3>1. Len(v) # 0 /\ Len(v) <= L
      BY <2>1, <2>2, <2>3
    <3> QED
      BY <3>1
  <2>5. Join(v, <<",">>) \in BlockTexts
    BY <2>3, <2>4, LinkLineIsGood
  <2> QED
    BY <2>5 DEF v, i, j
<1> HIDE DEF lines, line
<1> QED
  BY <1>1, <1>2, <1>3

\* A text that is escaped line by line can be cut in every line.
LEMMA EscapedTextIsGood ==
  ASSUME NEW words, IsEscapedText(words)
  PROVE  words \in BlockTexts
<1>1. words \in Seq(Characters) /\ words # <<>> /\ \A i \in DOMAIN Lines(words) : IsEscaped(Lines(words)[i])
  BY DEF IsEscapedText
<1>2. words \in Seq(Chars)
  <2>1. Characters \subseteq Chars
    BY DEF Chars
  <2> QED
    BY <1>1, <2>1, SeqMonotonic
<1> DEFINE v == Lines(words)
<1>3. v \in Seq(Seq(Chars))
  BY <1>2, LinesType
<1> HIDE DEF v
<1>4. ASSUME NEW k \in DOMAIN v PROVE v[k] \in GoodLines(Chars)
  <2> DEFINE t == v[k]
  <2>1. t \in Seq(Chars) /\ IsEscaped(t)
    BY <1>1, <1>3 DEF v
  <2> HIDE DEF t
  <2>2. CASE t = <<>>
    <3>1. Len(t) = 0 /\ Len(t) <= MaxChars
      BY <2>2, SpaceIs
    <3>2. t \in Whole(Chars)
      <4>1. \A i \in 1 .. Len(t) : t[i] \notin Tags \cup {"&"}
        BY <3>1
      <4> QED
        BY <2>1, <4>1, PlainIsWhole
    <3> QED
      BY <3>1, <3>2 DEF GoodLines, t
  <2>3. CASE t # <<>>
    <3>1. t \in Escaped(Chars)
      BY <2>1, <2>3 DEF Escaped
    <3> QED
      BY <3>1, EscapedIsWhole DEF GoodLines, t
  <2> QED
    BY <2>2, <2>3
<1>5. v \in Seq(GoodLines(Chars))
  <2>1. v = [i \in 1 .. Len(v) |-> v[i]] /\ Len(v) \in Nat /\ DOMAIN v = 1 .. Len(v)
    BY <1>3
  <2> QED
    BY <1>4, <2>1
<1> QED
  BY <1>1, <1>2, <1>5 DEF BlockTexts, GoodTexts, v

LEMMA AllLinesAreGood == AllLines \subseteq Seq(BlockTexts) \ {<<>>}
<1>1. ASSUME NEW i \in 1 .. MaxTopics + 1 PROVE Theses[i] \in Seq(BlockTexts) \ {<<>>}
  <2> DEFINE w == Theses[i]
  <2>1. w \in Seq(Seq(Characters)) \ {<<>>} /\ \A k \in DOMAIN w : IsEscapedText(w[k])
    BY TextAssumption
  <2> HIDE DEF w
  <2>2. \A k \in DOMAIN w : w[k] \in BlockTexts
    BY <2>1, EscapedTextIsGood
  <2>3. w = [k \in 1 .. Len(w) |-> w[k]] /\ Len(w) \in Nat /\ DOMAIN w = 1 .. Len(w)
    BY <2>1
  <2>5. w \in Seq(BlockTexts)
    BY <2>2, <2>3
  <2>4. w \in Seq(BlockTexts) \ {<<>>}
    BY <2>1, <2>5
  <2> QED
    BY <2>4 DEF w
<1>2. ASSUME NEW p \in Posts PROVE <<Texts[p]>> \in Seq(BlockTexts) \ {<<>>}
  <2>1. Texts[p] \in BlockTexts
    BY TextAssumption, EscapedTextIsGood
  <2> QED
    BY <2>1
<1> QED
  BY <1>1, <1>2 DEF AllLines

LEMMA TopicIsGood ==
  ASSUME NEW topic \in TopicType
  PROVE  TopicBlock(topic) \in BlockTexts
<1> DEFINE refs == topic.refs
           n == Cardinality(refs)
           links == [i \in 1 .. n |-> Link(InOrder(refs)[i])]
           w == topic.lines \o LinkLines(links)
<1>1. refs \subseteq Posts /\ topic.lines \in Seq(BlockTexts) \ {<<>>}
  <2>1. refs \subseteq Posts /\ topic.lines \in AllLines
    BY DEF TopicType
  <2> QED
    BY <2>1, AllLinesAreGood
<1>2. links \in Seq(Tagged)
  <2>1. Posts \subseteq Int /\ IsFiniteSet(Posts)
    BY PostsAre
  <2>2. IsFiniteSet(refs) /\ refs \subseteq Int
    BY <1>1, <2>1, FS_Subset
  <2>3. InOrder(refs) \in Seq(refs) /\ Len(InOrder(refs)) = n /\ n \in Nat
    BY <2>2, InOrderIs
  <2> HIDE DEF n, refs
  <2>4. ASSUME NEW i \in 1 .. n PROVE Link(InOrder(refs)[i]) \in Tagged
    <3> DEFINE p == InOrder(refs)[i]
    <3>1. p \in refs
      BY <2>3
    <3> HIDE DEF p
    <3>2. p \in Posts /\ IsWords(Labels[p])
      BY <1>1, <3>1, TextAssumption
    <3>3. Labels[p] \in Words
      BY <3>2 DEF IsWords, Words, Chars
    <3>4. "<a>" \in DOMAIN ClosingTag /\ ClosingTag["<a>"] = "</a>"
      BY DEF ClosingTag
    <3>5. Link(p) = <<"<a>", Labels[p], ClosingTag["<a>"]>>
      BY <3>4 DEF Link
    <3>6. Link(p) \in Tagged
      BY <3>3, <3>4, <3>5, TaggedIs
    <3> QED
      BY <3>6 DEF p
  <2> QED
    BY <2>3, <2>4
<1>3. TopicBlock(topic) = Join(w, LineSeparator)
  BY DEF TopicBlock
<1> HIDE DEF links
<1>4. w \in Seq(BlockTexts) \ {<<>>}
  <2>1. LinkLines(links) \in Seq(BlockTexts)
    BY <1>2, LinkLinesAreGood
  <2> QED
    BY <1>1, <2>1, ConcatIsNonEmpty
<1> HIDE DEF w
<1> QED
  BY <1>3, <1>4, JoinedLines

LEMMA BlocksAreGood ==
  ASSUME topics \in Seq(TopicType)
  PROVE  Blocks \in Seq(BlockTexts)
<1> DEFINE a == <<HeaderBlock>>
           b == [i \in DOMAIN topics |-> TopicBlock(topics[i])]
           c == <<FooterBlock>>
<1>1. a \in Seq(BlockTexts) /\ c \in Seq(BlockTexts)
  BY HeaderIsGood, FooterIsGood
<1>2. b \in Seq(BlockTexts)
  <2>1. DOMAIN topics = 1 .. Len(topics) /\ Len(topics) \in Nat /\ \A i \in DOMAIN topics : topics[i] \in TopicType
    OBVIOUS
  <2>2. \A i \in DOMAIN topics : TopicBlock(topics[i]) \in BlockTexts
    BY <2>1, TopicIsGood
  <2> QED
    BY <2>1, <2>2
<1>3. Blocks = (a \o b) \o c
  BY DEF Blocks
<1> HIDE DEF a, b, c
<1>4. a \o b \in Seq(BlockTexts)
  BY <1>1, <1>2, ConcatProperties
<1> QED
  BY <1>1, <1>3, <1>4, ConcatProperties

LEMMA IsInIsPart ==
  ASSUME NEW S, NEW x \in Seq(S), NEW y \in Seq(S), IsIn(S, y, x)
  PROVE  IsPartOf(y, x)
<1>1. PICK a \in Seq(S), b \in Seq(S) : x = (a \o y) \o b
  BY DEF IsIn
<1> DEFINE u == a \o y
           d == Len(a)
           n == Len(y)
           start == d + 1
           part == SubSeq(x, start, start + n - 1)
<1>2. /\ u \in Seq(S) /\ Len(u) = d + n /\ d \in Nat /\ n \in Nat
      /\ \A i \in 1 .. Len(u) : u[i] = IF i <= d THEN a[i] ELSE y[i - d]
  BY ConcatProperties
<1>0. x = u \o b
  BY <1>1
<1> HIDE DEF u
<1>3. /\ Len(x) = Len(u) + Len(b) /\ Len(b) \in Nat
      /\ \A i \in 1 .. Len(x) : x[i] = IF i <= Len(u) THEN u[i] ELSE b[i - Len(u)]
  <2> DEFINE v == u \o b
  <2>1. u \in Seq(S)
    BY <1>2
  <2>2. /\ Len(v) = Len(u) + Len(b) /\ Len(b) \in Nat
        /\ \A i \in 1 .. Len(v) : v[i] = IF i <= Len(u) THEN u[i] ELSE b[i - Len(u)]
    BY <2>1, ConcatProperties
  <2>3. x = v
    BY <1>0
  <2> HIDE DEF v
  <2> QED
    BY <2>2, <2>3
<1>4. \A i \in 1 .. n : x[d + i] = y[i]
  <2> SUFFICES ASSUME NEW i \in 1 .. n PROVE x[d + i] = y[i]
    OBVIOUS
  <2> DEFINE k == d + i
  <2>1. k \in 1 .. Len(u) /\ k \in 1 .. Len(x) /\ k <= Len(u) /\ ~(k <= d) /\ k - d = i
    BY <1>2, <1>3
  <2> HIDE DEF k
  <2>2. x[k] = u[k]
    BY <1>3, <2>1
  <2>3. u[k] = y[k - d]
    BY <1>2, <2>1
  <2>4. x[k] = y[i]
    BY <2>1, <2>2, <2>3
  <2> QED
    BY <2>4 DEF k
<1>5. part \in Seq(S) /\ Len(part) = n /\ \A i \in 1 .. n : part[i] = x[d + i]
  <2>1. start \in Nat /\ start + n - 1 \in Nat /\ start + n - 1 = d + n /\ 1 <= start /\ d + n <= Len(x)
    BY <1>2, <1>3
  <2>2. \A q \in start .. start + n - 1 : x[q] \in S
    <3>1. \A q \in start .. start + n - 1 : q \in 1 .. Len(x)
      BY <2>1
    <3> QED
      BY <3>1
  <2> DEFINE m == start
             e == start + n - 1
  <2>3. /\ SubSeq(x, m, e) \in Seq(S)
        /\ Len(SubSeq(x, m, e)) = IF m <= e THEN e - m + 1 ELSE 0
        /\ \A i \in 1 .. e - m + 1 : SubSeq(x, m, e)[i] = x[m + i - 1]
    <3>1. m \in Nat /\ e \in Nat /\ \A q \in m .. e : x[q] \in S
      BY <2>1, <2>2
    <3> HIDE DEF m, e
    <3> QED
      BY <3>1, SubSeqProperties
  <2>4. e - m + 1 = n /\ Len(part) = n /\ \A i \in 1 .. n : m + i - 1 = d + i
    <3>1. e - m + 1 = n /\ \A i \in 1 .. n : m + i - 1 = d + i
      BY <1>2
    <3>2. (IF m <= e THEN e - m + 1 ELSE 0) = n
      BY <1>2
    <3> QED
      BY <2>3, <3>1, <3>2
  <2> QED
    BY <2>3, <2>4
<1> HIDE DEF part
<1>6. part = y
  BY <1>4, <1>5, SeqEqual
<1>7. start \in 1 .. Len(x) - Len(y) + 1
  BY <1>2, <1>3
<1> QED
  BY <1>6, <1>7 DEF IsPartOf, part

LEMMA MessagesFitFollows == TopicInv => MessagesFit
<1> SUFFICES ASSUME TopicInv
             PROVE  LET given == ToSet(Messages)
                    IN /\ \A message \in given :
                            /\ message # <<>> /\ Len(message) <= MaxChars
                            /\ HasNoEntityCut(message) /\ HasNoOpenTag(message)
                       /\ BlocksStayWhole(given) /\ NothingIsDropped
  BY DEF MessagesFit
<1> DEFINE all == Messages
           given == ToSet(all)
           fit == Sendable(Whole(Chars))
<1>1. Blocks \in Seq(BlockTexts) /\ NewLine \in Chars
  <2>1. topics \in Seq(TopicType)
    BY DEF TopicInv
  <2> QED
    BY <2>1, BlocksAreGood, CharsAre
<1>2. Blocks \in Seq(GoodTexts(Chars)) /\ \A i \in 1 .. Len(Blocks) : Blocks[i] # <<>> /\ Blocks[i] \in Seq(Chars)
  <2>1. BlockTexts \subseteq GoodTexts(Chars) /\ BlockTexts \subseteq Seq(Chars) /\ <<>> \notin BlockTexts
    BY DEF BlockTexts, GoodTexts
  <2>2. \A i \in 1 .. Len(Blocks) : Blocks[i] \in BlockTexts
    BY <1>1
  <2>3. Blocks \in Seq(GoodTexts(Chars))
    BY <1>1, <2>1, SeqMonotonic
  <2> QED
    BY <2>1, <2>2, <2>3
<1>3. /\ all \in Seq(fit) /\ Written(all) = Written(Blocks)
      /\ \A i \in 1 .. Len(Blocks) :
           Blocks[i] # <<>> /\ Len(Blocks[i]) <= MaxChars => Holds(Chars, all, Blocks[i])
  BY <1>1, <1>2, SplitMessagesIs DEF Messages
<1>4. NothingIsDropped
  BY <1>3 DEF NothingIsDropped
<1> HIDE DEF all
<1>5. given = {all[i] : i \in 1 .. Len(all)} /\ \A i \in 1 .. Len(all) : all[i] \in fit
  BY <1>3 DEF ToSet
<1>6. \A message \in given : /\ message # <<>> /\ Len(message) <= MaxChars
                             /\ HasNoEntityCut(message) /\ HasNoOpenTag(message)
  BY <1>5 DEF Sendable, Whole
<1>7. BlocksStayWhole(given)
  <2> SUFFICES ASSUME NEW i \in 1 .. Len(Blocks), Len(Blocks[i]) <= MaxChars
               PROVE  \E message \in given : IsPartOf(Blocks[i], message)
    <3>1. ToSet(Blocks) = {Blocks[i] : i \in 1 .. Len(Blocks)}
      BY <1>1 DEF ToSet
    <3> QED
      BY <3>1 DEF BlocksStayWhole
  <2>1. Holds(Chars, all, Blocks[i])
    BY <1>2, <1>3
  <2>2. PICK k \in DOMAIN all : IsIn(Chars, Blocks[i], all[k])
    BY <2>1 DEF Holds
  <2>3. k \in 1 .. Len(all) /\ all[k] \in Seq(Chars)
    <3>1. k \in 1 .. Len(all)
      BY <1>3
    <3> QED
      BY <1>5, <3>1 DEF Sendable, Whole
  <2>4. IsPartOf(Blocks[i], all[k])
    BY <1>2, <2>2, <2>3, IsInIsPart
  <2> QED
    BY <1>5, <2>3, <2>4
<1> QED
  BY <1>4, <1>6, <1>7 DEF all

\* "each within BOT_MESSAGE_MAX_CHARS" (digest-formatter.ts:10): whatever the topics are,
\* every message of a digest can be sent, its HTML whole; the messages hold the letters of
\* the blocks in order, and a block that fits into a message is in one.
THEOREM MessagesCanBeSent == ContentSpec => []MessagesFit
<1>1. KeptInv /\ TopicInv /\ [ContentNext]_contentVars => KeptInv' /\ TopicInv'
  BY KeptInvNext, TopicInvNext
<1> QED
  BY <1>1, ContentInitHolds, MessagesFitFollows, PTL DEF ContentSpec

-------------------------------------------------------------------------------
(* 4. Both sides of a digest deliver it in the same way (DigestDelivery).    *)

\* What a step of a run does to its messages.
DeliveryStep(r) == Delivery(r)!DeliveryNext \/ UNCHANGED Delivery(r)!delivery

\* A run that is not in the hands of a step leaves its messages alone.
Untouched(r) == pc'[r] = pc[r] /\ size'[r] = size[r] /\ sent'[r] = sent[r]

LEMMA UntouchedStutters ==
  ASSUME NEW r \in Runs, Untouched(r)
  PROVE  DeliveryStep(r)
<1>1. Phase(r)' = Phase(r)
  BY DEF Untouched, Phase
<1> QED
  BY <1>1 DEF DeliveryStep, Untouched, Delivery!delivery

\* Not sending yet and not over: where a run is among its earlier steps does not show.
Before == {"idle", "reading", "waiting", "preparing"}
Stopped == {"reporting", "failed", "cancelled", "lost"}

LEMMA PhaseIs ==
  ASSUME NEW r \in Runs, pc[r] \in {"idle"} \cup Working \cup Ended
  PROVE  /\ pc[r] \in Before => Phase(r) = "making"
         /\ pc[r] \in Stopped => Phase(r) = "stopped"
         /\ pc[r] = "sending" => Phase(r) = "sending"
         /\ pc[r] = "delivered" => Phase(r) = "delivered"
  BY DEF Phase, Before, Stopped

\* A run reads on, or stops, without a word of its digest.
LEMMA CollectionDelivers ==
  ASSUME NEW r \in Runs, pc[r] \in Before \cup Stopped \cup {"sending"},
         pc'[r] \in Before \cup Stopped, size'[r] = size[r], sent'[r] = sent[r],
         pc[r] \in Stopped => pc'[r] \in Stopped, pc[r] = "sending" => pc'[r] \in Stopped
  PROVE  DeliveryStep(r)
<1>1. /\ Phase(r) \in {"making", "sending", "stopped"} /\ Phase(r)' \in {"making", "stopped"}
      /\ Phase(r) # "making" => Phase(r)' = "stopped"
  BY DEF Phase, Before, Stopped
<1>2. CASE Phase(r)' = Phase(r)
  BY <1>2 DEF DeliveryStep, Delivery!delivery
<1>3. CASE Phase(r)' # Phase(r)
  BY <1>1, <1>3 DEF DeliveryStep, Delivery!DeliveryNext, Delivery!Stop
<1> QED
  BY <1>2, <1>3

LEMMA OwnStepDelivers ==
  ASSUME TypeOK, NEW r \in Runs, Progress(r)
  PROVE  DeliveryStep(r)
<1>1. CASE \/ ReadSucceeds(r) \/ ReadSkipped(r) \/ ReadFails(r) \/ WaitEnds(r) \/ DeliveryFails(r)
           \/ NoticeDelivered(r) \/ NoticeFails(r)
           \/ \E w \in Waits : ReadFlooded(r, w) \/ FloodTooLong(r, w)
  <2>1. /\ pc[r] \in Before \cup Stopped \cup {"sending"} /\ pc'[r] \in Before \cup Stopped
        /\ pc[r] \in Stopped => pc'[r] \in Stopped
        /\ pc[r] = "sending" => pc'[r] \in Stopped
    <3>1. CASE ReadSucceeds(r) \/ ReadSkipped(r)
      BY <3>1 DEF ReadSucceeds, ReadSkipped, NextChannel, ReadUnlessCancelled, Go, Finish, TypeOK,
           Before, Stopped
    <3>2. CASE ReadFails(r) \/ DeliveryFails(r) \/ \E w \in Waits : FloodTooLong(r, w)
      BY <3>2 DEF ReadFails, DeliveryFails, FloodTooLong, Fail, Go, TypeOK, Before, Stopped
    <3>3. CASE WaitEnds(r) \/ \E w \in Waits : ReadFlooded(r, w)
      BY <3>3 DEF WaitEnds, ReadFlooded, ReadUnlessCancelled, Go, Finish, TypeOK, Before, Stopped
    <3>4. CASE NoticeDelivered(r) \/ NoticeFails(r)
      BY <3>4 DEF NoticeDelivered, NoticeFails, Finish, TypeOK, Before, Stopped
    <3> QED
      BY <1>1, <3>1, <3>2, <3>3, <3>4
  <2>2. UNCHANGED <<size, sent>>
    BY <1>1 DEF ReadSucceeds, ReadSkipped, NextChannel, ReadFails, WaitEnds, DeliveryFails,
         NoticeDelivered, NoticeFails, ReadFlooded, FloodTooLong, delivery
  <2> QED
    BY <2>1, <2>2, CollectionDelivers
<1>2. ASSUME NEW n \in 1 .. MaxSize, Prepare(r, n) PROVE DeliveryStep(r)
  <2>1. /\ pc[r] = "preparing" /\ pc'[r] = "sending"
        /\ size'[r] = n /\ sent'[r] = sent[r]
    BY <1>2 DEF Prepare, Go, TypeOK
  <2>2. Phase(r) = "making" /\ Phase(r)' = "sending"
    BY <2>1 DEF Phase
  <2>3. n \in Nat \ {0}
    BY DigestAssumption
  <2> QED
    BY <2>1, <2>2, <2>3 DEF DeliveryStep, Delivery!DeliveryNext, Delivery!Make
<1>3. CASE Deliver(r)
  <2>1. /\ pc[r] = "sending" /\ pc'[r] = pc[r] /\ size'[r] = size[r]
        /\ sent[r] + 1 < size[r] /\ sent'[r] = sent[r] + 1
    BY <1>3 DEF Deliver, service, TypeOK
  <2>2. Phase(r) = "sending" /\ Phase(r)' = "sending"
    BY <2>1 DEF Phase
  <2> QED
    BY <2>1, <2>2 DEF DeliveryStep, Delivery!DeliveryNext, Delivery!Deliver
<1>4. CASE DeliverLast(r)
  <2>1. /\ pc[r] = "sending" /\ pc'[r] = "delivered" /\ size'[r] = size[r]
        /\ sent[r] + 1 = size[r] /\ sent'[r] = sent[r] + 1
    BY <1>4 DEF DeliverLast, Finish, TypeOK
  <2>2. Phase(r) = "sending" /\ Phase(r)' = "delivered"
    BY <2>1 DEF Phase
  <2> QED
    BY <2>1, <2>2 DEF DeliveryStep, Delivery!DeliveryNext, Delivery!DeliverLast
<1> QED
  BY <1>1, <1>2, <1>3, <1>4 DEF Progress

LEMMA NextDelivers ==
  ASSUME TypeOK, [Next]_vars, NEW r \in Runs
  PROVE  DeliveryStep(r)
<1>1. ASSUME NEW x \in Runs, Progress(x) PROVE DeliveryStep(r)
  <2>1. CASE x = r
    BY <1>1, <2>1, OwnStepDelivers
  <2>2. CASE x # r
    BY <1>1, <2>2, OthersLeftAlone, UntouchedStutters DEF Untouched
  <2> QED
    BY <2>1, <2>2
<1>2. ASSUME NEW x \in Runs, Start(x) \/ RunScheduled(x) PROVE DeliveryStep(r)
  <2>1. /\ pc[x] = "idle" /\ pc' = [pc EXCEPT ![x] = "reading"]
        /\ size' = size /\ sent' = sent
    BY <1>2 DEF Start, RunScheduled, Execute, delivery
  <2>2. CASE x = r
    BY <2>1, <2>2, CollectionDelivers DEF TypeOK, Before, Stopped
  <2>3. CASE x # r
    BY <2>1, <2>3, UntouchedStutters DEF TypeOK, Untouched
  <2> QED
    BY <2>2, <2>3
<1>3. CASE OnModuleDestroy
  <2>1. size' = size /\ sent' = sent
    BY <1>3 DEF OnModuleDestroy, delivery
  <2>2. pc'[r] = pc[r] \/ (pc[r] = "waiting" /\ pc'[r] = "cancelled")
    BY <1>3 DEF OnModuleDestroy, Finish, service, TypeOK
  <2> QED
    BY <2>1, <2>2, UntouchedStutters, CollectionDelivers DEF Untouched, Before, Stopped
<1>4. CASE Restart
  <2>1. size' = size /\ sent' = sent /\ pc'[r] = IF Active(r) THEN "lost" ELSE pc[r]
    BY <1>4 DEF Restart, delivery
  <2>2. CASE Active(r)
    BY <2>1, <2>2, CollectionDelivers DEF Active, Working, Before, Stopped
  <2>3. CASE ~Active(r)
    BY <2>1, <2>3, UntouchedStutters DEF Untouched
  <2> QED
    BY <2>2, <2>3
<1>5. CASE UNCHANGED vars
  BY <1>5, UntouchedStutters DEF vars, service, delivery, Untouched
<1> QED
  BY <1>1, <1>2, <1>3, <1>4, <1>5 DEF Next

\* Every run delivers its digest as DigestDelivery says (digest.service.ts:116-131): it
\* sends nothing before all is made, and counts as delivered with its last message.
THEOREM RunsDeliver == Spec => EveryRunDelivers
<1> SUFFICES ASSUME NEW r \in Runs PROVE Spec => Delivery(r)!DeliverySpec
  BY DEF EveryRunDelivers
<1>1. Init => Delivery(r)!DeliveryInit
  BY DEF Init, Phase, Delivery!DeliveryInit
<1>2. TypeOK /\ [Next]_vars => [Delivery(r)!DeliveryNext]_(Delivery(r)!delivery)
  BY NextDelivers DEF DeliveryStep
<1> QED
  BY <1>1, <1>2, DigestTypeCorrect, PTL DEF Spec, Delivery!DeliverySpec

-------------------------------------------------------------------------------
\* A digest has letters whatever its topics are, so it has a message.
LEMMA WrittenConcat ==
  ASSUME NEW S, NEW v \in Seq(Seq(S)), NEW w \in Seq(Seq(S))
  PROVE  Written(v \o w) = Written(v) \o Written(w) /\ Written(v) \in Seq(S) /\ Written(w) \in Seq(S)
<1>1. FlattenSeq(v) \in Seq(S) /\ FlattenSeq(w) \in Seq(S)
  BY FlattenType
<1>2. FlattenSeq(v \o w) = FlattenSeq(v) \o FlattenSeq(w)
  BY FlattenConcat
<1>3. Letters(FlattenSeq(v) \o FlattenSeq(w)) = Letters(FlattenSeq(v)) \o Letters(FlattenSeq(w))
  BY <1>1, LettersConcat
<1>4. Written(v) \in Seq(S) /\ Written(w) \in Seq(S)
  BY WrittenIs
<1> QED
  BY <1>2, <1>3, <1>4 DEF Written

LEMMA HeaderHasLetters == Written(<<HeaderBlock>>) \in Seq(Chars) \ {<<>>}
<1> DEFINE p == <<"<b>", "title", "</b>", NewLine>>
           y == "counts"
<1>1. HeaderBlock \in Seq(Chars)
  BY HeaderIsGood, BlockTextsAreClosed
<1>2. "<b>" \in Chars /\ "title" \in Chars /\ "</b>" \in Chars /\ NewLine \in Chars /\ y \in Chars
  <2> DEFINE h == HeaderBlock
  <2>1. Len(h) = 5 /\ h[1] = "<b>" /\ h[2] = "title" /\ h[3] = "</b>" /\ h[4] = NewLine /\ h[5] = y
    BY DEF HeaderBlock
  <2>2. h \in Seq(Chars)
    BY <1>1
  <2> HIDE DEF h, y
  <2>3. \A i \in 1 .. Len(h) : h[i] \in Chars
    BY <2>2
  <2> QED
    BY <2>1, <2>3
<1>3. p \in Seq(Chars) /\ y \in Chars
  <2> HIDE DEF y
  <2> QED
    BY <1>2
<1>4. HeaderBlock = Append(p, y)
  BY DEF HeaderBlock
<1>5. y # NewLine
  BY DEF NewLine
<1> HIDE DEF p, y
<1>6. HeaderBlock = p \o <<y>> /\ <<y>> \in Seq(Chars)
  BY <1>3, <1>4, AppendIsConcat
<1>7. Letters(p \o <<y>>) = Letters(p) \o Letters(<<y>>)
  BY <1>3, <1>6, LettersConcat
<1>8. Letters(<<y>>) = <<y>> /\ Letters(p) \in Seq(Chars)
  BY <1>3, <1>5, LettersOne, SpreadIs DEF Letter
<1>9. Letters(HeaderBlock) = Append(Letters(p), y)
  BY <1>3, <1>6, <1>7, <1>8, AppendIsConcat
<1>10. FlattenSeq(<<HeaderBlock>>) = HeaderBlock
  BY <1>1, FlattenOne
<1> QED
  BY <1>3, <1>8, <1>9, <1>10, AppendProperties, AppendIsNonEmpty DEF Written

LEMMA BlocksHaveLetters ==
  ASSUME topics \in Seq(TopicType)
  PROVE  Written(Blocks) # <<>>
<1> DEFINE a == <<HeaderBlock>>
           b == [i \in DOMAIN topics |-> TopicBlock(topics[i])]
           c == <<FooterBlock>>
<1>1. BlockTexts \subseteq Seq(Chars) /\ Seq(BlockTexts) \subseteq Seq(Seq(Chars))
  <2>1. BlockTexts \subseteq Seq(Chars)
    BY BlockTextsAreClosed
  <2> QED
    BY <2>1, SeqMonotonic
<1>2. a \in Seq(BlockTexts) /\ c \in Seq(BlockTexts)
  BY HeaderIsGood, FooterIsGood
<1>3. b \in Seq(BlockTexts)
  <2>1. \A i \in DOMAIN topics : topics[i] \in TopicType
    OBVIOUS
  <2>2. \A i \in DOMAIN topics : TopicBlock(topics[i]) \in BlockTexts
    BY <2>1, TopicIsGood
  <2> QED
    BY <2>2
<1>4. Blocks = (a \o b) \o c
  BY DEF Blocks
<1>5. Written(a) \in Seq(Chars) \ {<<>>}
  BY HeaderHasLetters
<1> HIDE DEF a, b, c
<1>6. a \in Seq(Seq(Chars)) /\ b \in Seq(Seq(Chars)) /\ c \in Seq(Seq(Chars))
  BY <1>1, <1>2, <1>3
<1>7. Written(a \o b) = Written(a) \o Written(b) /\ Written(b) \in Seq(Chars)
  BY <1>6, WrittenConcat
<1>8. Written(a \o b) \in Seq(Chars) \ {<<>>} /\ a \o b \in Seq(Seq(Chars))
  BY <1>5, <1>6, <1>7, ConcatIsNonEmpty, ConcatProperties
<1>9. Written((a \o b) \o c) = Written(a \o b) \o Written(c) /\ Written(c) \in Seq(Chars)
  BY <1>6, <1>8, WrittenConcat
<1>10. Written(Blocks) \in Seq(Chars) \ {<<>>}
  BY <1>4, <1>8, <1>9, ConcatIsNonEmpty
<1> QED
  BY <1>10

LEMMA ThereAreMessages == TopicInv => Messages \in Seq(Seq(Chars)) /\ Len(Messages) \in Nat \ {0}
<1> SUFFICES ASSUME TopicInv PROVE Messages \in Seq(Seq(Chars)) /\ Len(Messages) \in Nat \ {0}
  OBVIOUS
<1>1. topics \in Seq(TopicType)
  BY DEF TopicInv
<1>2. Blocks \in Seq(GoodTexts(Chars)) /\ NewLine \in Chars
  <2>1. Blocks \in Seq(BlockTexts) /\ BlockTexts \subseteq GoodTexts(Chars)
    BY <1>1, BlocksAreGood DEF BlockTexts
  <2> QED
    BY <2>1, SeqMonotonic, CharsAre
<1>3. Messages \in Seq(Sendable(Whole(Chars))) /\ Written(Messages) = Written(Blocks)
  BY <1>2, SplitMessagesIs DEF Messages
<1>4. Messages # <<>>
  <2>1. Written(<<>>) = <<>>
    BY FlattenEmpty, LettersEmpty DEF Written
  <2> QED
    BY <1>1, <1>3, <2>1, BlocksHaveLetters
<1>5. Messages \in Seq(Seq(Chars))
  <2>1. Sendable(Whole(Chars)) \subseteq Seq(Chars)
    BY DEF Sendable, Whole
  <2> QED
    BY <1>3, <2>1, SeqMonotonic
<1> QED
  BY <1>4, <1>5, EmptySeq

\* Until they are sent there are no messages, and then one is left to send while any is.
SentInv ==
  /\ ~IsSent => messages = <<>>
  /\ stage = "sending" => Len(messages) \in Nat /\ round \in Nat /\ round < Len(messages)

\* What a step of the digest does to its messages.
ContentStep == Content!DeliveryNext \/ UNCHANGED Content!delivery

\* Every step before the messages are made.
LEMMA EarlierStepDelivers ==
  ASSUME SentInv, ~IsSent, ~IsSent', messages' = messages
  PROVE  ContentStep /\ SentInv'
<1>1. ContentPhase' = ContentPhase /\ ContentSent' = ContentSent /\ MessageCount' = MessageCount
  BY DEF IsSent, ContentPhase, ContentSent, MessageCount
<1>2. SentInv'
  BY DEF SentInv, IsSent
<1> QED
  BY <1>1, <1>2 DEF ContentStep, Content!delivery

LEMMA FormatDelivers ==
  ASSUME TopicInv, PaceInv, SentInv, FormatDigest
  PROVE  ContentStep /\ SentInv'
<1>1. /\ stage = "formatting" /\ stage' = "sending" /\ messages' = Messages
      /\ round' = round /\ round = 0
  BY DEF FormatDigest, PaceInv
<1>2. Len(messages') \in Nat \ {0}
  BY <1>1, ThereAreMessages
<1>3. ContentPhase = "making" /\ ContentSent = 0 /\ ContentPhase' = "sending" /\ ContentSent' = 0
  BY <1>1 DEF ContentPhase, ContentSent
<1>4. SentInv'
  BY <1>1, <1>2 DEF SentInv, IsSent
<1>5. Content!Make
  BY <1>2, <1>3 DEF Content!Make, MessageCount
<1> QED
  BY <1>4, <1>5 DEF ContentStep, Content!DeliveryNext

LEMMA SendingDelivers ==
  ASSUME SentInv, stage = "sending", messages' = messages,
         \/ stage' \in {"sending", "undelivered"} /\ round' = round
         \/ /\ round' = round + 1
            /\ stage' = IF round + 1 = Len(messages) THEN "delivered" ELSE "sending"
  PROVE  ContentStep /\ SentInv'
<1> DEFINE n == Len(messages)
<1>1. round \in Nat /\ n \in Nat /\ round < n
  BY DEF SentInv
<1>2. ContentPhase = "sending" /\ ContentSent = round /\ MessageCount = n /\ MessageCount' = n
  BY DEF ContentPhase, ContentSent, MessageCount
<1>3. CASE stage' = "sending" /\ round' = round
  <2>1. ContentPhase' = "sending" /\ ContentSent' = round
    BY <1>3 DEF ContentPhase, ContentSent
  <2>2. SentInv'
    BY <1>3 DEF SentInv, IsSent
  <2> QED
    BY <1>2, <2>1, <2>2 DEF ContentStep, Content!delivery
<1>4. CASE stage' = "undelivered" /\ round' = round
  <2>1. ContentPhase' = "stopped" /\ ContentSent' = round
    BY <1>4 DEF ContentPhase, ContentSent
  <2>2. SentInv'
    BY <1>4 DEF SentInv, IsSent
  <2> QED
    BY <1>2, <2>1, <2>2 DEF ContentStep, Content!DeliveryNext, Content!Stop
<1>5. CASE round' = round + 1 /\ round + 1 = n /\ stage' = "delivered"
  <2>1. ContentPhase' = "delivered" /\ ContentSent' = round + 1
    BY <1>5 DEF ContentPhase, ContentSent
  <2>2. SentInv'
    BY <1>5 DEF SentInv, IsSent
  <2> QED
    BY <1>2, <1>5, <2>1, <2>2 DEF ContentStep, Content!DeliveryNext, Content!DeliverLast
<1>6. CASE round' = round + 1 /\ round + 1 # n /\ stage' = "sending"
  <2>1. ContentPhase' = "sending" /\ ContentSent' = round + 1
    BY <1>6 DEF ContentPhase, ContentSent
  <2>2. round + 1 < n
    BY <1>1, <1>6
  <2>3. SentInv'
    BY <1>1, <1>6, <2>2 DEF SentInv, IsSent
  <2> QED
    BY <1>2, <2>1, <2>2, <2>3 DEF ContentStep, Content!DeliveryNext, Content!Deliver
<1> QED
  BY <1>3, <1>4, <1>5, <1>6

LEMMA ContentNextDelivers ==
  ASSUME TopicInv, PaceInv, SentInv, [ContentNext]_contentVars
  PROVE  ContentStep /\ SentInv'
<1>1. CASE \/ PrepareTexts \/ TextsReady \/ TranslationEnds \/ TranslationFails
           \/ SummaryFails \/ PlacingFails \/ CoverageEnds \/ TranslateFallbackTheses \/ GrokRetry
           \/ \E answer \in SUBSET Posts : Translated(answer)
           \/ \E answer \in Answers : Summarized(answer)
           \/ \E number \in 0 .. Len(topics), refs \in SUBSET Posts, new \in NewTopics :
                Placed(number, refs, new)
  <2>1. messages' = messages
    BY <1>1 DEF PrepareTexts, TextsReady, TranslationEnds, TranslationFails, SummaryFails,
         PlacingFails, CoverageEnds, TranslateFallbackTheses, GrokRetry, Translated, Summarized,
         Placed, outbox
  <2>2. ~IsSent /\ ~IsSent'
    BY <1>1 DEF PrepareTexts, TextsReady, TranslationEnds, TranslationFails, SummaryFails,
         PlacingFails, CoverageEnds, TranslateFallbackTheses, GrokRetry, Translated, Summarized,
         Placed, Translate, IsTranslating, AfterTranslation, IsFollowUpDue, IsSent
  <2> QED
    BY <2>1, <2>2, EarlierStepDelivers
<1>2. CASE FormatDigest
  BY <1>2, FormatDelivers
<1>3. CASE Accepted \/ RetryMessage \/ MessageFails
  <2>1. stage = "sending" /\ messages' = messages
    BY <1>3 DEF Accepted, RetryMessage, MessageFails, IsAttempt
  <2>2. \/ stage' \in {"sending", "undelivered"} /\ round' = round
        \/ /\ round' = round + 1
           /\ stage' = IF round + 1 = Len(messages) THEN "delivered" ELSE "sending"
    BY <1>3, <2>1 DEF Accepted, RetryMessage, MessageFails, NextMessage, MessageCount
  <2> QED
    BY <2>1, <2>2, SendingDelivers
<1>4. CASE UNCHANGED contentVars \/ \E request \in late : TakenLate(request)
  <2>1. UNCHANGED <<stage, round, messages>>
    BY <1>4 DEF TakenLate, contentVars, outbox
  <2>2. SentInv' /\ UNCHANGED Content!delivery
    BY <2>1 DEF SentInv, IsSent, Content!delivery, ContentPhase, ContentSent, MessageCount
  <2> QED
    BY <2>2 DEF ContentStep
<1> QED
  BY <1>1, <1>2, <1>3, <1>4 DEF ContentNext

\* What DigestRun takes for granted holds of the digest as it is really made
\* (digest.service.ts:118, bot-notifier.ts:42): whatever Grok and Telegram answer, there
\* is a message, no retry counts twice, and all are sent when it counts as delivered.
THEOREM ContentIsDelivered == ContentSpec => ContentDelivers
<1>1. ContentInit => Content!DeliveryInit /\ SentInv
  BY EmptySeq DEF ContentInit, Content!DeliveryInit, SentInv, ContentPhase, ContentSent, MessageCount
<1>2. /\ KeptInv /\ TopicInv /\ PaceInv /\ SentInv /\ [ContentNext]_contentVars
      => /\ KeptInv' /\ TopicInv' /\ PaceInv' /\ SentInv'
         /\ [Content!DeliveryNext]_(Content!delivery)
  BY KeptInvNext, TopicInvNext, PaceInvNext, ContentNextDelivers DEF ContentStep
<1> QED
  BY <1>1, <1>2, ContentInitHolds, PTL DEF ContentSpec, ContentDelivers, Content!DeliverySpec
===============================================================================
