------------------------- MODULE ProcessShutdown_proofs ------------------------
(***************************************************************************)
(* The shutdown of the process for any number of requests and signals, and *)
(* an alert queue of any size.                                             *)
(***************************************************************************)
EXTENDS ProcessShutdown, TLAPS

\* Where the close stands tells which hooks have begun, and a client cached when
\* it began is cached until SessionStore.close and released from then on.
ShutdownInv ==
  /\ HookBegun("redis") => stage \notin {"serving", "handling", "destroying", "disposing"}
  /\ stage \in {"disposing", "ending"} => DestroyHooks \subseteq ran
  /\ stage = "ending" \/ HookBegun("redis") => InRequest \subseteq hungUp
  /\ HookBegun("redis") => "sessions" \in ran
  /\ HookBegun("sessions") => stage \notin {"serving", "handling"}
  /\ stage = "serving" => held = {}
  /\ \A u \in held : client[u] \in {"cached", "released"}
  /\ HookBegun("sessions") => \A u \in held : client[u] = "released"
  /\ \A u \in Users : client[u] = "connecting" => user[u] # "idle"
  /\ held \subseteq Users
  /\ client \in [Users -> {"none", "connecting", "pending", "cached", "released"}]
  /\ user \in [Users -> {"idle", "opening", "signing"}]

LEMMA ShutdownInvInit == Init => ShutdownInv
  BY DEF Init, ShutdownInv, HookBegun, InRequest, Users

\* What a client step may do: leave what is cached or released alone, and open a
\* request only while the server takes connections.
LEMMA UseKeeps ==
  ASSUME ShutdownInv, NEW u \in Users,
         NEW does \in {"idle", "opening", "signing"},
         NEW has \in {"connecting", "pending", "cached", "released"},
         Use(u, does, has),
         has = "connecting" => does # "idle",
         client[u] # "cached", client[u] = "released" => has = "released",
         u \in Requests /\ user[u] = "idle" => stage \in {"serving", "destroying", "disposing"}
  PROVE  ShutdownInv'
<1>1. /\ UNCHANGED <<stage, busy, ran, held>>
      /\ user' = [user EXCEPT ![u] = does] /\ client' = [client EXCEPT ![u] = has]
      /\ hungUp' = IF does = "idle" THEN hungUp \ {u} ELSE hungUp
  BY DEF Use, closeVars, ghosts
<1>2. u \in held => client[u] = "released" /\ client'[u] = "released"
  BY <1>1 DEF ShutdownInv
<1>3. \A v \in held : client'[v] = client[v]
  BY <1>1, <1>2 DEF ShutdownInv
<1>4. InRequest \subseteq hungUp /\ stage \notin {"serving", "destroying", "disposing"} =>
        InRequest' \subseteq hungUp'
  BY <1>1 DEF ShutdownInv, InRequest, Users
<1>5. /\ client' \in [Users -> {"none", "connecting", "pending", "cached", "released"}]
      /\ user' \in [Users -> {"idle", "opening", "signing"}]
  BY <1>1 DEF ShutdownInv
<1>6. \A v \in Users : client'[v] = "connecting" => user'[v] # "idle"
  BY <1>1 DEF ShutdownInv
<1> QED
  BY <1>1, <1>3, <1>4, <1>5, <1>6 DEF ShutdownInv, HookBegun

LEMMA ClientKeeps ==
  ASSUME ShutdownInv, NEW u \in Users, ClientStep(u)
  PROVE  ShutdownInv'
<1>1. CASE Open(u)
  BY <1>1, UseKeeps, ShutdownAssumption DEF Open, ServesHTTP
<1>2. CASE IntoCache(u) \/ IntoAttempt(u) \/ OpenFails(u)
  <2>1. client[u] = "connecting"
    BY <1>2 DEF IntoCache, IntoAttempt, OpenFails
  <2>2. PICK has \in {"pending", "cached", "released"} : Use(u, "idle", has)
    BY <1>2 DEF IntoCache, IntoAttempt, OpenFails
  <2>3. ASSUME user[u] = "idle" PROVE FALSE
    BY <2>1, <2>3 DEF ShutdownInv
  <2> QED
    BY <2>1, <2>2, <2>3, UseKeeps
<1>3. CASE SignIn(u)
  BY <1>3, UseKeeps DEF SignIn, ServesHTTP
<1>4. CASE Claim(u) \/ SignInFails(u)
  BY <1>4, UseKeeps DEF Claim, SignInFails
<1> QED
  BY <1>1, <1>2, <1>3, <1>4 DEF ClientStep

LEMMA ShutdownInvNext == ShutdownInv /\ [Next]_vars => ShutdownInv'
<1> SUFFICES ASSUME ShutdownInv, [Next]_vars PROVE ShutdownInv'
  OBVIOUS
<1>1. ASSUME UNCHANGED <<stage, busy, ran, held, client, user, hungUp>> PROVE ShutdownInv'
  BY <1>1 DEF ShutdownInv, HookBegun, InRequest
<1>2. ASSUME NEW u \in Users, ClientStep(u) PROVE ShutdownInv'
  BY <1>2, ClientKeeps
<1>15. ASSUME NEW u \in Requests, HangUp(u) PROVE ShutdownInv'
  BY <1>15 DEF HangUp, ShutdownInv, HookBegun, InRequest, closeVars, ghosts
<1>3. ASSUME NEW trigger \in {"manual", "scheduled"}, StartRun(trigger) PROVE ShutdownInv'
  BY <1>3, <1>1 DEF StartRun, closeVars, clientVars, ghosts
<1>4. CASE RunEnds \/ AlertStep \/ DrainTimesOut
  BY <1>4, <1>1 DEF RunEnds, AlertStep, DrainTimesOut, closeVars, clientVars, ghosts
<1>5. ASSUME NEW s \in Signals, Signal(s) PROVE ShutdownInv'
  BY <1>5 DEF ShutdownInv, Signal, Handle, HookBegun, InRequest, clientVars, ghosts
<1>6. ASSUME NEW s \in Signals, SignalAgain(s) PROVE ShutdownInv'
  BY <1>6, <1>1 DEF SignalAgain, closeVars, clientVars, ghosts
<1>7. CASE UncaughtException
  BY <1>7 DEF ShutdownInv, UncaughtException, Handle, HookBegun, InRequest, clientVars
<1>8. CASE BeginClose
  BY <1>8 DEF ShutdownInv, BeginClose, HookBegun, InRequest, clientVars
<1>9. ASSUME NEW h \in Hooks, ReleaseClients(h) PROVE ShutdownInv'
  <2>1. /\ stage = "destroying" /\ busy = "none" /\ busy' = h /\ h \in {"auth", "sessions"}
        /\ UNCHANGED <<stage, ran, user, hungUp, held>>
        /\ client' = [u \in Users |-> IF client[u] = (IF h = "auth" THEN "pending" ELSE "cached")
                                      THEN "released" ELSE client[u]]
    BY <1>9 DEF ReleaseClients, Release, ghosts
  <2> QED
    BY <2>1 DEF ShutdownInv, HookBegun, InRequest
<1>10. ASSUME NEW h \in Hooks, StopDigest(h) \/ CloseRedis(h) \/ DrainAlerts(h) PROVE ShutdownInv'
  BY <1>10 DEF ShutdownInv, StopDigest, CloseRedis, DrainAlerts, HookBegun, InRequest, DestroyHooks,
               clientVars, ghosts
<1>11. CASE HookEnds
  BY <1>11 DEF ShutdownInv, HookEnds, HookBegun, InRequest, clientVars, ghosts
<1>12. CASE Proceed
  BY <1>12 DEF ShutdownInv, Proceed, HookBegun, InRequest, clientVars, ghosts
<1>13. CASE Closed \/ CloseFails \/ TimerFires
  BY <1>13 DEF ShutdownInv, Closed, CloseFails, TimerFires, Leave, HookBegun, InRequest, Closing,
               clientVars, ghosts
<1>14. CASE UNCHANGED vars
  BY <1>14, <1>1 DEF vars, closeVars, clientVars, ghosts
<1> QED
  BY <1>2, <1>3, <1>4, <1>5, <1>6, <1>7, <1>8, <1>9, <1>10, <1>11, <1>12, <1>13, <1>14, <1>15
     DEF Next, BeginHook

\* However many requests, logins and restores overlap the close, Redis goes after
\* every client that was cached when it began, and after the last connection: only a
\* handler whose caller has hung up may still be at work.
THEOREM ShutdownRedisGoesLast == Spec => []RedisGoesLast
<1>1. ShutdownInv => RedisGoesLast
  BY DEF ShutdownInv, RedisGoesLast, HookBegun
<1> QED
  BY <1>1, ShutdownInvInit, ShutdownInvNext, PTL DEF Spec

\* Behind the hooks of the digest no tick can start a run.
RunInv ==
  /\ HookBegun("digest") => ~job
  /\ RunsAreToldToStop

\* A run at work behind the hooks was aborted by them, or requested over HTTP.
THEOREM ShutdownStopsTheRun == Spec => []RunsAreToldToStop
<1>1. Init => RunInv
  BY DEF Init, RunInv, RunsAreToldToStop, HookBegun
<1>2. RunInv /\ [Next]_vars => RunInv'
  <2> SUFFICES ASSUME RunInv, [Next]_vars PROVE RunInv'
    OBVIOUS
  <2> USE DEF RunInv, RunsAreToldToStop, HookBegun
  <2>1. ASSUME UNCHANGED <<busy, ran, job, run, aborted>> PROVE RunInv'
    BY <2>1
  <2>2. ASSUME NEW u \in Users, ClientStep(u) PROVE RunInv'
    <3>1. PICK does, has : Use(u, does, has)
      BY <2>2 DEF ClientStep, Open, IntoCache, IntoAttempt, OpenFails, SignIn, Claim, SignInFails
    <3> QED
      BY <3>1, <2>1 DEF Use, closeVars, digestVars
  <2>12. ASSUME NEW u \in Requests, HangUp(u) PROVE RunInv'
    BY <2>12, <2>1 DEF HangUp, closeVars, digestVars
  <2>3. ASSUME NEW trigger \in {"manual", "scheduled"}, StartRun(trigger) PROVE RunInv'
    BY <2>3 DEF StartRun, closeVars
  <2>4. CASE RunEnds
    BY <2>4 DEF RunEnds, closeVars
  <2>5. CASE AlertStep \/ DrainTimesOut \/ BeginClose \/ UncaughtException
    BY <2>5, <2>1 DEF AlertStep, DrainTimesOut, BeginClose, UncaughtException, Handle, closeVars,
                      digestVars
  <2>6. ASSUME NEW s \in Signals, Signal(s) \/ SignalAgain(s) PROVE RunInv'
    BY <2>6, <2>1 DEF Signal, SignalAgain, Handle, closeVars, digestVars
  <2>7. ASSUME NEW h \in Hooks, StopDigest(h) PROVE RunInv'
    BY <2>7 DEF StopDigest
  <2>8. ASSUME NEW h \in Hooks, ReleaseClients(h) \/ CloseRedis(h) \/ DrainAlerts(h)
        PROVE RunInv'
    BY <2>8 DEF ReleaseClients, CloseRedis, DrainAlerts, digestVars
  <2>9. CASE HookEnds
    BY <2>9 DEF HookEnds, digestVars
  <2>10. CASE Proceed \/ Closed \/ CloseFails \/ TimerFires
    BY <2>10, <2>1 DEF Proceed, Closed, CloseFails, TimerFires, Leave, digestVars
  <2>11. CASE UNCHANGED vars
    BY <2>11, <2>1 DEF vars, closeVars, digestVars
  <2> QED
    BY <2>2, <2>3, <2>4, <2>5, <2>6, <2>7, <2>8, <2>9, <2>10, <2>11, <2>12 DEF Next, BeginHook
<1>3. RunInv => RunsAreToldToStop
  BY DEF RunInv
<1> QED
  BY <1>1, <1>2, <1>3, PTL DEF Spec

\* Every step of the process is a step of the alert queue or leaves it alone.
THEOREM ShutdownUsesTheQueue == Spec => AlertSpec
<1>1. Init => Alerts!Init
  BY DEF Init
<1>2. [Next]_vars => [Alerts!Next]_alertVars
  <2> SUFFICES ASSUME [Next]_vars PROVE [Alerts!Next]_alertVars
    OBVIOUS
  <2>1. ASSUME NEW u \in Users, ClientStep(u) PROVE UNCHANGED alertVars
    BY <2>1 DEF ClientStep, Open, IntoCache, IntoAttempt, OpenFails, SignIn, Claim, SignInFails,
                Use
  <2>11. ASSUME NEW u \in Requests, HangUp(u) PROVE UNCHANGED alertVars
    BY <2>11 DEF HangUp
  <2>2. CASE AlertStep \/ DrainTimesOut
    BY <2>2 DEF AlertStep, DrainTimesOut, Alerts!Next
  <2>3. CASE UncaughtException
    BY <2>3, ShutdownAssumption DEF UncaughtException, Alerts!Next, Alerts!Raise, Alerts!Alert
  <2>4. CASE BeginClose
    BY <2>4 DEF BeginClose, Alerts!Next
  <2>5. ASSUME NEW h \in Hooks, DrainAlerts(h) PROVE Alerts!Next
    BY <2>5 DEF DrainAlerts, Alerts!Next
  <2>6. ASSUME NEW h \in Hooks, ReleaseClients(h) \/ StopDigest(h) \/ CloseRedis(h)
        PROVE UNCHANGED alertVars
    BY <2>6 DEF ReleaseClients, StopDigest, CloseRedis
  <2>7. ASSUME NEW s \in Signals, Signal(s) \/ SignalAgain(s) PROVE UNCHANGED alertVars
    BY <2>7 DEF Signal, SignalAgain
  <2>8. ASSUME NEW trigger \in {"manual", "scheduled"}, StartRun(trigger)
        PROVE UNCHANGED alertVars
    BY <2>8 DEF StartRun
  <2>9. CASE RunEnds \/ HookEnds \/ Proceed \/ Closed \/ CloseFails \/ TimerFires
    BY <2>9 DEF RunEnds, HookEnds, Proceed, Closed, CloseFails, TimerFires, Leave
  <2>10. CASE UNCHANGED vars
    BY <2>10 DEF vars
  <2> QED
    BY <2>1, <2>2, <2>3, <2>4, <2>5, <2>6, <2>7, <2>8, <2>9, <2>10, <2>11 DEF Next, BeginHook
<1> QED
  BY <1>1, <1>2, PTL DEF Spec, AlertSpec

-------------------------------------------------------------------------------
(* The alert of a crash. *)
\* A drain that is not cut off ends with nothing left, and nothing is accepted from
\* the moment the hook is called.
CrashInv ==
  /\ cause = "crash" => told \in {"taken", "dropped"}
  /\ told = "dropped" /\ stage = "handling" => Len(queue) >= QueueMax
  /\ stage = "serving" => told = "none"
  /\ hook # "none" => accepting = FALSE
  /\ hook = "woken" \/ (hook = "ended" /\ ~cut) => queue = <<>> /\ inFlight = <<>>
  /\ "alerts" \in ran => hook = "ended"
  /\ stage = "closed" => "alerts" \in ran

\* What the alert queue may do by itself: it ends only a drain that was woken, wakes
\* it only when nothing is left, and starts nothing that was not there.
LEMMA QueueStepKeeps ==
  ASSUME CrashInv, UNCHANGED <<cause, told, cut, ran, stage>>, stage # "handling",
         \/ \E a \in Alerts!Alert : Alerts!Raise(a)
         \/ \E k \in Keys : Alerts!WindowLapses(k)
         \/ Alerts!LogWindowLapses \/ Alerts!Delivery \/ Alerts!DrainDone
  PROVE  CrashInv'
<1>1. ASSUME UNCHANGED <<hook, accepting, queue, inFlight>> PROVE CrashInv'
  BY <1>1 DEF CrashInv
<1>2. ASSUME NEW a \in Alerts!Alert, Alerts!Raise(a) PROVE CrashInv'
  <2>1. accepting = TRUE /\ accepting' = accepting /\ hook' = hook
    BY <1>2 DEF Alerts!Raise, Alerts!DropWhenFull, Alerts!Suppress, Alerts!Accept, Alerts!Raised
  <2> QED
    BY <2>1 DEF CrashInv
<1>3. ASSUME NEW k \in Keys, Alerts!WindowLapses(k) PROVE CrashInv'
  BY <1>1, <1>3 DEF Alerts!WindowLapses
<1>4. CASE Alerts!LogWindowLapses
  BY <1>1, <1>4 DEF Alerts!LogWindowLapses
<1>5. ASSUME NEW i \in DOMAIN inFlight, Alerts!Deliver(i) PROVE CrashInv'
  <2>1. inFlight # <<>>
    OBVIOUS
  <2>2. /\ accepting' = accepting
        /\ \/ hook' = hook
           \/ hook = "draining" /\ hook' = "woken" /\ queue' = <<>> /\ inFlight' = <<>>
    BY <1>5 DEF Alerts!Deliver, Alerts!RequestSucceeds, Alerts!RequestFailsForGood, Alerts!BackoffAborted,
                Alerts!GiveUp, Alerts!RequestFails, Alerts!Retry, Alerts!Finish
  <2> QED
    BY <2>1, <2>2 DEF CrashInv
<1>6. CASE Alerts!DrainDone
  BY <1>6 DEF Alerts!DrainDone, Alerts!EndHook, CrashInv
<1> QED
  BY <1>2, <1>3, <1>4, <1>5, <1>6 DEF Alerts!Delivery

LEMMA CrashInvNext == CrashInv /\ [Next]_vars => CrashInv'
<1> SUFFICES ASSUME CrashInv, [Next]_vars PROVE CrashInv'
  OBVIOUS
<1>1. ASSUME UNCHANGED <<cause, told, cut, ran, stage, hook, accepting, queue, inFlight>> PROVE CrashInv'
  BY <1>1 DEF CrashInv
<1>2. ASSUME NEW u \in Users, ClientStep(u) PROVE CrashInv'
  <2>1. PICK does, has : Use(u, does, has)
    BY <1>2 DEF ClientStep, Open, IntoCache, IntoAttempt, OpenFails, SignIn, Claim, SignInFails
  <2> QED
    BY <1>1, <2>1 DEF Use, closeVars, ghosts, alertVars
<1>16. ASSUME NEW u \in Requests, HangUp(u) PROVE CrashInv'
  BY <1>1, <1>16 DEF HangUp, closeVars, ghosts, alertVars
<1>3. ASSUME NEW trigger \in {"manual", "scheduled"}, StartRun(trigger) PROVE CrashInv'
  BY <1>1, <1>3 DEF StartRun, closeVars, ghosts, alertVars
<1>4. CASE RunEnds
  BY <1>1, <1>4 DEF RunEnds, closeVars, ghosts, alertVars
<1>5. CASE AlertStep
  BY <1>5, QueueStepKeeps DEF AlertStep, Running, closeVars, ghosts
<1>6. CASE DrainTimesOut
  BY <1>6 DEF DrainTimesOut, Running, Alerts!DrainTimesOut, Alerts!EndHook, closeVars, CrashInv
<1>7. ASSUME NEW s \in Signals, Signal(s) \/ SignalAgain(s) PROVE CrashInv'
  <2>1. /\ UNCHANGED <<told, cut, ran, hook, accepting, queue, inFlight>>
        /\ \/ UNCHANGED <<cause, stage>>
           \/ stage = "serving" /\ stage' = "handling" /\ cause' = "signal"
    BY <1>7 DEF Signal, SignalAgain, Handle, closeVars, ghosts, alertVars
  <2> QED
    BY <1>1, <2>1 DEF CrashInv
<1>8. CASE UncaughtException
  <2>1. /\ stage' = "handling" /\ UNCHANGED <<ran, cut>> /\ told' \in {"taken", "dropped"}
        /\ accepting = TRUE /\ accepting' = accepting /\ hook' = hook
        /\ told' = "dropped" => queue' = queue /\ Len(queue) >= QueueMax
    BY <1>8 DEF UncaughtException, Handle, Alerts!Accept, Alerts!DropWhenFull, Alerts!Raised
  <2> QED
    BY <2>1 DEF CrashInv
<1>9. CASE BeginClose
  <2>1. /\ stage' = "destroying" /\ UNCHANGED <<cause, told, cut, ran>> /\ Alerts!BeginShutdown
    BY <1>9 DEF BeginClose
  <2> QED
    BY <2>1 DEF Alerts!BeginShutdown, CrashInv
<1>10. ASSUME NEW h \in Hooks, ReleaseClients(h) \/ StopDigest(h) \/ CloseRedis(h) PROVE CrashInv'
  BY <1>1, <1>10 DEF ReleaseClients, StopDigest, CloseRedis, ghosts, alertVars
<1>11. ASSUME NEW h \in Hooks, DrainAlerts(h) PROVE CrashInv'
  BY <1>11 DEF DrainAlerts, Alerts!CallHook, Alerts!EndHook, ghosts, CrashInv
<1>12. CASE HookEnds
  BY <1>12 DEF HookEnds, ghosts, alertVars, CrashInv, Closing
<1>13. CASE Proceed
  BY <1>13 DEF Proceed, ghosts, alertVars, CrashInv
<1>14. CASE Closed \/ CloseFails \/ TimerFires
  BY <1>14 DEF Closed, CloseFails, TimerFires, Leave, Hooks, ShutdownHooks, ghosts, alertVars, CrashInv
<1>15. CASE UNCHANGED vars
  BY <1>1, <1>15 DEF vars, closeVars, ghosts, alertVars
<1> QED
  BY <1>2, <1>3, <1>4, <1>5, <1>6, <1>7, <1>8, <1>9, <1>10, <1>11, <1>12, <1>13, <1>14, <1>15, <1>16
     DEF Next, BeginHook

\* The alert of an exception is refused by no shutdown and lost to a full queue only;
\* a close that waited for its drain leaves it neither queued nor in flight, whatever
\* else is raised, retried or dropped around it.
THEOREM ShutdownReportsTheCrash == Spec => []CrashIsReported
<1>1. Init => CrashInv
  BY DEF Init, Alerts!Init, CrashInv
<1>2. CrashInv => CrashIsReported
  BY DEF CrashInv, CrashIsReported
<1> QED
  BY <1>1, <1>2, CrashInvNext, PTL DEF Spec

-------------------------------------------------------------------------------
(* The types of what is not the queue's. *)
OwnVars == <<closeVars, digestVars, clientVars, exit, ghosts>>

LEMMA ProcessTypesNext == ProcessTypeOK /\ [Next]_vars => ProcessTypeOK'
<1> SUFFICES ASSUME ProcessTypeOK, [Next]_vars PROVE ProcessTypeOK'
  OBVIOUS
<1> USE DEF closeVars, digestVars, clientVars, ghosts
<1>1. ASSUME UNCHANGED OwnVars PROVE ProcessTypeOK'
  BY <1>1 DEF OwnVars, ProcessTypeOK
<1>2. ASSUME NEW u \in Users, ClientStep(u) PROVE ProcessTypeOK'
  <2>1. PICK does \in {"idle", "opening", "signing"},
             has \in {"connecting", "pending", "cached", "released"} : Use(u, does, has)
    BY <1>2 DEF ClientStep, Open, IntoCache, IntoAttempt, OpenFails, SignIn, Claim, SignInFails
  <2>2. /\ user' \in [Users -> {"idle", "opening", "signing"}]
        /\ client' \in [Users -> {"none", "connecting", "pending", "cached", "released"}]
    BY <2>1 DEF Use, ProcessTypeOK
  <2>3. hungUp' \subseteq Requests
    BY <2>1 DEF Use, ProcessTypeOK
  <2> QED
    BY <2>1, <2>2, <2>3 DEF Use, ProcessTypeOK
<1>15. ASSUME NEW u \in Requests, HangUp(u) PROVE ProcessTypeOK'
  BY <1>15 DEF HangUp, ProcessTypeOK
<1>3. ASSUME NEW trigger \in {"manual", "scheduled"}, StartRun(trigger) PROVE ProcessTypeOK'
  <2>1. run' \in {"none", "manual", "scheduled"} /\ aborted' \in BOOLEAN
    BY <1>3 DEF StartRun
  <2>2. /\ stage' = stage /\ cause' = cause /\ listening' = listening /\ busy' = busy
        /\ ran' = ran /\ job' = job /\ user' = user /\ client' = client /\ hungUp' = hungUp
        /\ exit' = exit /\ told' = told /\ cut' = cut /\ held' = held
    BY <1>3 DEF StartRun
  <2> QED
    BY <2>1, <2>2, SMTT(30) DEF ProcessTypeOK
<1>4. CASE RunEnds
  <2>1. run' \in {"none", "manual", "scheduled"} /\ aborted' \in BOOLEAN
    BY <1>4 DEF RunEnds
  <2>2. /\ stage' = stage /\ cause' = cause /\ listening' = listening /\ busy' = busy
        /\ ran' = ran /\ job' = job /\ user' = user /\ client' = client /\ hungUp' = hungUp
        /\ exit' = exit /\ told' = told /\ cut' = cut /\ held' = held
    BY <1>4 DEF RunEnds
  <2> QED
    BY <2>1, <2>2, SMTT(30) DEF ProcessTypeOK
<1>5. CASE AlertStep
  BY <1>1, <1>5 DEF AlertStep, OwnVars
<1>6. CASE DrainTimesOut
  BY <1>6 DEF DrainTimesOut, ProcessTypeOK
<1>7. ASSUME NEW s \in Signals, Signal(s) \/ SignalAgain(s) PROVE ProcessTypeOK'
  BY <1>7 DEF Signal, SignalAgain, Handle, ProcessTypeOK
<1>8. CASE UncaughtException
  <2>1. told' \in {"taken", "dropped"}
    BY <1>8 DEF UncaughtException
  <2> QED
    BY <1>8, <2>1 DEF UncaughtException, Handle, ProcessTypeOK
<1>9. CASE BeginClose
  BY <1>9 DEF BeginClose, ProcessTypeOK, Closing
<1>10. ASSUME NEW h \in Hooks, BeginHook(h) PROVE ProcessTypeOK'
  <2>1. CASE ReleaseClients(h)
    <3>1. PICK state : Release(state)
      BY <2>1 DEF ReleaseClients
    <3>2. client' \in [Users -> {"none", "connecting", "pending", "cached", "released"}]
      BY <3>1 DEF Release, ProcessTypeOK
    <3> QED
      BY <2>1, <3>2 DEF ReleaseClients, ProcessTypeOK
  <2>2. CASE StopDigest(h)
    BY <2>2 DEF StopDigest, ProcessTypeOK
  <2>3. CASE CloseRedis(h) \/ DrainAlerts(h)
    BY <2>3 DEF CloseRedis, DrainAlerts, ProcessTypeOK
  <2> QED
    BY <1>10, <2>1, <2>2, <2>3 DEF BeginHook
<1>11. CASE HookEnds
  BY <1>11 DEF HookEnds, ProcessTypeOK
<1>12. CASE Proceed
  BY <1>12 DEF Proceed, ProcessTypeOK, Closing
<1>13. CASE Closed \/ CloseFails \/ TimerFires
  BY <1>13 DEF Closed, CloseFails, TimerFires, Leave, ProcessTypeOK
<1>14. CASE UNCHANGED vars
  BY <1>1, <1>14 DEF vars, OwnVars
<1> QED
  BY <1>2, <1>3, <1>4, <1>5, <1>6, <1>7, <1>8, <1>9, <1>10, <1>11, <1>12, <1>13, <1>14, <1>15 DEF Next

\* The process keeps its types for any requests and signals; those of the queue are
\* the queue's own, since every behaviour here is one of it.
THEOREM ShutdownTypeCorrect == Spec => []ProcessTypeOK
<1>1. Init => ProcessTypeOK
  BY DEF Init, ProcessTypeOK
<1> QED
  BY <1>1, ProcessTypesNext, PTL DEF Spec
===============================================================================
