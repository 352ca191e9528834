----------------------------- MODULE ProcessShutdown ---------------------------
(***************************************************************************)
(* The end of the process (shared/utils/process-handlers.ts): a signal or  *)
(* an uncaught exception closes the application once, under a timer.  The  *)
(* close runs the lifecycle hooks of the modules in the order of the       *)
(* framework while requests, a digest run and the alert queue go on.       *)
(***************************************************************************)
EXTENDS Integers, SequencesExt

CONSTANTS Requests,  \* HTTP requests that open a Telegram client each
          Digest,    \* the digest run, which restores a client of its own
          Signals,   \* SHUTDOWN_SIGNALS
          Crash,     \* the alert "Uncaught exception, shutting down"
          Keys, Info, QueueMax, MaxConcurrent, MaxRetries, MaxKeys, MaxRaised \* of AlertQueue

ASSUME ShutdownAssumption == Crash \in Keys /\ Digest \notin Requests

VARIABLES
  stage,      \* how far closeApplication is
  cause,      \* what made it close: the exit code
  listening,  \* signals that still have a handler: each has it once
  busy,       \* the hook the framework awaits
  ran,        \* the hooks that have ended
  job,        \* the daily job is registered
  run,        \* the digest run in progress, if any, by its trigger
  aborted,    \* its signal
  user,       \* what each request, and the run, is doing with a client
  client,     \* the client of each
  hungUp,     \* requests whose caller has gone and whose handler goes on
  exit,       \* the exit code, once the process is gone
  told, cut, held \* read by the properties only: what became of the crash alert, whether
                  \* the drain timed out, whose clients were cached when the close began

closeVars == <<stage, cause, listening, busy, ran>>
digestVars == <<job, run, aborted>>
clientVars == <<user, client, hungUp>>

VARIABLES queue, inFlight, droppedCount, unlogged, logged, windows, lapsed, suppressed,
          accepting, hook, raised, lost, delivered, forfeited, announced
Alerts == INSTANCE AlertQueue WITH told <- delivered
alertVars == <<queue, inFlight, droppedCount, unlogged, logged, windows, lapsed, suppressed,
               accepting, hook, raised, lost, delivered, forfeited, announced>>
ghosts == <<told, cut, held>>
vars == <<closeVars, digestVars, clientVars, exit, ghosts, alertVars>>

Users == Requests \cup {Digest}
DestroyHooks == {"auth", "sessions", "digest"}
ShutdownHooks == {"redis", "alerts"}
Hooks == DestroyHooks \cup ShutdownHooks
Closing == {"destroying", "disposing", "ending"}

ProcessTypeOK ==
  /\ stage \in Closing \cup {"serving", "handling", "closed", "failed", "expired"}
  /\ cause \in {"none", "signal", "crash"}
  /\ listening \subseteq Signals
  /\ busy \in Hooks \cup {"none"} /\ ran \subseteq Hooks
  /\ job \in BOOLEAN /\ aborted \in BOOLEAN /\ cut \in BOOLEAN
  /\ run \in {"none", "manual", "scheduled"}
  /\ user \in [Users -> {"idle", "opening", "signing"}]
  /\ client \in [Users -> {"none", "connecting", "pending", "cached", "released"}]
  /\ hungUp \subseteq Requests
  /\ exit \in {"none", "success", "failure", "killed"}
  /\ told \in {"none", "refused", "taken", "dropped"}
  /\ held \subseteq Users

TypeOK == ProcessTypeOK /\ Alerts!TypeOK

Init ==
  /\ stage = "serving" /\ cause = "none" /\ listening = Signals
  /\ busy = "none" /\ ran = {}
  /\ job = TRUE /\ run = "none" /\ aborted = FALSE
  /\ user = [u \in Users |-> "idle"] /\ client = [u \in Users |-> "none"]
  /\ hungUp = {}
  /\ exit = "none" /\ told = "none" /\ cut = FALSE /\ held = {}
  /\ Alerts!Init

-------------------------------------------------------------------------------
\* A handler runs to its await: between the alert and the close nothing else does.
Running == exit = "none" /\ stage # "handling"
\* The server takes connections until it is disposed of, after the first hooks; one
\* that a caller keeps alive may bring a request until it has closed.
ServesHTTP == Running /\ stage \in {"serving", "destroying", "disposing"}
HookBegun(h) == busy = h \/ h \in ran
InRequest == {u \in Requests : user[u] # "idle"}

(* Requests and the digest run, over the session store and the login flow. *)
Use(u, does, has) ==
  /\ user' = [user EXCEPT ![u] = does]
  /\ client' = [client EXCEPT ![u] = has]
  /\ hungUp' = IF does = "idle" THEN hungUp \ {u} ELSE hungUp
  /\ UNCHANGED <<closeVars, digestVars, exit, ghosts, alertVars>>

\* The caller closes its connection (or its network does): nothing tells the handler.
HangUp(u) ==
  /\ Running /\ u \in InRequest \ hungUp
  /\ hungUp' = hungUp \cup {u}
  /\ UNCHANGED <<user, client, closeVars, digestVars, exit, ghosts, alertVars>>

\* A restore asks Redis for the record first; a login does not.
Open(u) ==
  /\ client[u] = "none" /\ user[u] = "idle"
  /\ IF u = Digest THEN Running /\ run # "none" /\ ~HookBegun("redis") ELSE ServesHTTP
  /\ Use(u, "opening", "connecting")

\* Adopted or restored into the cache.
IntoCache(u) ==
  /\ Running /\ client[u] = "connecting"
  /\ Use(u, "idle", "cached")

\* Step 1 of a login leaves its client with the attempt.
IntoAttempt(u) ==
  /\ Running /\ user[u] = "opening" /\ client[u] = "connecting" /\ u \in Requests
  /\ Use(u, "idle", "pending")

OpenFails(u) ==
  /\ Running /\ client[u] = "connecting"
  /\ Use(u, "idle", "released")

\* A later request signs in with the client of the attempt.
SignIn(u) ==
  /\ ServesHTTP /\ u \in Requests /\ user[u] = "idle" /\ client[u] = "pending"
  /\ Use(u, "signing", "pending")

\* Telegram accepts it: the attempt is given up and the client is the request's.
Claim(u) ==
  /\ Running /\ user[u] = "signing" /\ client[u] = "pending"
  /\ Use(u, "signing", "connecting")

\* Telegram refuses, or the client was released under the request.
SignInFails(u) ==
  /\ Running /\ user[u] = "signing" /\ client[u] \in {"pending", "released"}
  /\ Use(u, "idle", "released")

StartRun(trigger) ==
  /\ run = "none"
  /\ CASE trigger = "manual" -> ServesHTTP
       [] trigger = "scheduled" -> Running /\ job
  /\ run' = trigger /\ aborted' = FALSE
  /\ UNCHANGED <<closeVars, job, clientVars, exit, ghosts, alertVars>>

RunEnds ==
  /\ Running /\ run # "none" /\ user[Digest] = "idle"
  /\ run' = "none" /\ aborted' = FALSE
  /\ UNCHANGED <<closeVars, job, clientVars, exit, ghosts, alertVars>>

\* The alert queue goes on by itself; any code may raise an alert.
AlertStep ==
  /\ Running
  /\ \/ \E a \in Alerts!Alert \ {Crash} : Alerts!Raise(a)
     \/ \E k \in Keys : Alerts!WindowLapses(k)
     \/ Alerts!LogWindowLapses \/ Alerts!Delivery \/ Alerts!DrainDone
  /\ UNCHANGED <<closeVars, digestVars, clientVars, exit, ghosts>>

DrainTimesOut ==
  /\ Running /\ Alerts!DrainTimesOut
  /\ cut' = TRUE
  /\ UNCHANGED <<closeVars, digestVars, clientVars, exit, told, held>>

-------------------------------------------------------------------------------
(* registerProcessHandlers and closeApplication. *)
Handle(why) == cause' = why /\ stage' = "handling" /\ UNCHANGED <<busy, ran>>

\* The latch lets the first cause through; a later one returns at once.
Signal(s) ==
  /\ Running /\ s \in listening
  /\ listening' = listening \ {s}
  /\ IF stage = "serving" THEN Handle("signal") ELSE UNCHANGED <<cause, stage, busy, ran>>
  /\ UNCHANGED <<digestVars, clientVars, exit, ghosts, alertVars>>

\* A signal heard once has no handler left: its default action ends the process.
SignalAgain(s) ==
  /\ Running /\ s \in Signals \ listening
  /\ exit' = "killed"
  /\ UNCHANGED <<closeVars, digestVars, clientVars, ghosts, alertVars>>

\* Mutant: the alert is raised after the close has begun, and is not accepted.
CrashAlertLast ==
  /\ Running /\ stage = "serving"
  /\ Handle("crash")
  /\ told' = "refused"
  /\ UNCHANGED <<listening, digestVars, clientVars, exit, cut, held, alertVars>>

\* The alert is raised before the close, once: no window of it is open.  An
\* exception during a close changes nothing: alerts are refused by then and the
\* latch returns.
UncaughtException ==
  /\ Running /\ stage = "serving"
  /\ Handle("crash")
  /\ \/ Alerts!Accept(Crash) /\ told' = "taken"
     \/ Alerts!DropWhenFull(Crash) /\ told' = "dropped"
  /\ UNCHANGED <<listening, digestVars, clientVars, exit, cut, held>>

BeginClose ==
  /\ exit = "none" /\ stage = "handling"
  /\ stage' = "destroying"
  /\ Alerts!BeginShutdown
  /\ held' = {u \in Users : client[u] = "cached"}
  /\ UNCHANGED <<cause, listening, busy, ran, digestVars, clientVars, exit, told, cut>>

(* The hooks, one after the other: the modules of one phase in any order, the two
   of TelegramService in theirs. *)
Release(state) ==
  client' = [u \in Users |-> IF client[u] = state THEN "released" ELSE client[u]]

\* Mutant: Redis is closed by a hook of the first phase.
CloseRedisEarly(h) ==
  /\ Running /\ stage = "destroying" /\ busy = "none" /\ h = "redis" /\ h \notin ran
  /\ busy' = h
  /\ UNCHANGED <<stage, cause, listening, ran, digestVars, clientVars, exit, ghosts, alertVars>>

\* closeRedisClient: no command is answered from here on.
CloseRedis(h) ==
  /\ Running /\ stage = "ending" /\ busy = "none" /\ h = "redis" /\ h \notin ran
  /\ busy' = h
  /\ UNCHANGED <<stage, cause, listening, ran, digestVars, clientVars, exit, ghosts, alertVars>>

\* Mutant: the alert queue is thrown away instead of drained.
DropAlerts(h) ==
  /\ Running /\ stage = "ending" /\ busy = "none" /\ h = "alerts" /\ h \notin ran
  /\ busy' = h
  /\ accepting' = FALSE /\ hook' = "ended" /\ queue' = <<>> /\ inFlight' = <<>>
  /\ UNCHANGED <<droppedCount, unlogged, logged, windows, lapsed, suppressed, raised, lost,
                 delivered, forfeited, announced>>
  /\ UNCHANGED <<stage, cause, listening, ran, digestVars, clientVars, exit, ghosts>>

DrainAlerts(h) ==
  /\ Running /\ stage = "ending" /\ busy = "none" /\ h = "alerts" /\ h \notin ran
  /\ busy' = h
  /\ Alerts!CallHook
  /\ UNCHANGED <<stage, cause, listening, ran, digestVars, clientVars, exit, ghosts>>

\* TelegramService: the attempts first, then the cache, what either holds by then.
ReleaseClients(h) ==
  /\ Running /\ stage = "destroying" /\ busy = "none" /\ h \notin ran
  /\ \/ h = "auth" /\ Release("pending")
     \/ h = "sessions" /\ "auth" \in ran /\ Release("cached")
  /\ busy' = h
  /\ UNCHANGED <<stage, cause, listening, ran, digestVars, user, hungUp, exit, ghosts, alertVars>>

\* Mutant: the run is aborted and the job keeps ticking.
AbortRunOnly(h) ==
  /\ Running /\ stage = "destroying" /\ busy = "none" /\ h = "digest" /\ h \notin ran
  /\ "auth" \in ran => "sessions" \in ran
  /\ busy' = h
  /\ job' = job /\ aborted' = (run # "none") /\ run' = run
  /\ UNCHANGED <<stage, cause, listening, ran, clientVars, exit, ghosts, alertVars>>

\* DigestScheduler and DigestService, and GrokClient, whose connections are awaited.
StopDigest(h) ==
  /\ Running /\ stage = "destroying" /\ busy = "none" /\ h = "digest" /\ h \notin ran
  /\ "auth" \in ran => "sessions" \in ran
  /\ busy' = h
  /\ job' = FALSE /\ aborted' = (run # "none") /\ run' = run
  /\ UNCHANGED <<stage, cause, listening, ran, clientVars, exit, ghosts, alertVars>>

BeginHook(h) == ReleaseClients(h) \/ StopDigest(h) \/ CloseRedis(h) \/ DrainAlerts(h)

HookEnds ==
  /\ Running /\ busy # "none" /\ stage \in Closing
  /\ busy = "alerts" => hook = "ended"
  /\ ran' = ran \cup {busy} /\ busy' = "none"
  /\ UNCHANGED <<stage, cause, listening, digestVars, clientVars, exit, ghosts, alertVars>>

\* app.close(): the first hooks, the server, which closes once no connection is
\* open (whatever a handler without one still does), the last hooks.
Proceed ==
  /\ Running /\ busy = "none"
  /\ \/ stage = "destroying" /\ DestroyHooks \subseteq ran /\ stage' = "disposing"
     \/ stage = "disposing" /\ InRequest \subseteq hungUp /\ stage' = "ending"
  /\ UNCHANGED <<cause, listening, busy, ran, digestVars, clientVars, exit, ghosts, alertVars>>

(* The three ways the close settles; each is followed by process.exit. *)
Leave(how) ==
  /\ stage' = how
  /\ exit' = IF cause = "crash" THEN "failure" ELSE "success"
  /\ UNCHANGED <<cause, listening, busy, ran, digestVars, clientVars, ghosts, alertVars>>

Closed == Running /\ stage = "ending" /\ Hooks \subseteq ran /\ Leave("closed")

\* Mutant: the error of a failed close is thrown on; its timer is already cleared.
CloseFailsQuietly ==
  /\ Running /\ (busy = "digest" \/ stage = "disposing")
  /\ stage' = "failed"
  /\ UNCHANGED <<cause, listening, busy, ran, digestVars, clientVars, exit, ghosts, alertVars>>

\* A hook rejects, or the server was never listening.
CloseFails == Running /\ (busy = "digest" \/ stage = "disposing") /\ Leave("failed")

\* SHUTDOWN_TIMEOUT_MS: whatever the close waits for.
TimerFires == Running /\ stage \in Closing /\ Leave("expired")

ClientStep(u) == \/ Open(u) \/ IntoCache(u) \/ IntoAttempt(u) \/ OpenFails(u)
                 \/ SignIn(u) \/ Claim(u) \/ SignInFails(u)

Next ==
  \/ \E u \in Users : ClientStep(u)
  \/ \E u \in Requests : HangUp(u)
  \/ \E trigger \in {"manual", "scheduled"} : StartRun(trigger)
  \/ RunEnds \/ AlertStep \/ DrainTimesOut
  \/ \E s \in Signals : Signal(s) \/ SignalAgain(s)
  \/ UncaughtException \/ BeginClose
  \/ \E h \in Hooks : BeginHook(h)
  \/ HookEnds \/ Proceed \/ Closed \/ CloseFails \/ TimerFires

\* Nothing but the handler's own code and the timer is sure to go on: a hook, a
\* request or a delivery may hang.
Spec == Init /\ [][Next]_vars /\ WF_vars(BeginClose) /\ WF_vars(TimerFires)

-------------------------------------------------------------------------------
\* "Telegram clients are released before Redis goes away" (redis.module.ts:15):
\* when Redis is closed every client cached when the close began has been released,
\* and no caller still waits for an answer that needs it: the handlers at work by
\* then are those whose caller hung up before (the server waits for connections,
\* not for handlers).  What such a handler, a login claimed or a session restored
\* behind the hooks puts into the cache is released by nobody.
RedisGoesLast ==
  HookBegun("redis") => InRequest \subseteq hungUp /\ \A u \in held : client[u] = "released"

\* The comment of process-handlers.ts:18, "the uncaught exception is queued before
\* closing, so shutdown flushes it", holds but for a full queue: it drops the alert
\* like any other (alert.service.ts:89), and the crash is then told by no alert.
\* No shutdown refuses it; taken, it has been sent or given up when the process
\* ends, unless the drain or the close times out.
CrashIsReported ==
  cause = "crash" =>
    /\ told \in {"taken", "dropped"}
    /\ told = "dropped" /\ stage = "handling" => Len(queue) >= QueueMax
    /\ told = "taken" /\ stage = "closed" /\ ~cut =>
         Crash \notin {queue[i].alert : i \in DOMAIN queue}
                        \cup {inFlight[i].payload.alert : i \in DOMAIN inFlight}

\* "No tick fires while the application shuts down" and the run in progress is
\* told to stop: behind these hooks a run at work has been aborted, or was
\* requested over HTTP before the server stopped, never by the schedule.
RunsAreToldToStop ==
  HookBegun("digest") /\ run # "none" /\ ~aborted => run = "manual"

\* To the alert queue a shutdown is one of its own: it is closed once, drained by
\* its own hook, and nothing else touches what it holds.
AlertSpec == Alerts!Init /\ [][Alerts!Next]_alertVars

\* "It runs once and always terminates, even when closing hangs"
\* (process-handlers.ts:44): whether the close is done, fails or hangs in a hook or
\* in a request, the process ends.
CloseTerminates == stage # "serving" ~> exit # "none"
===============================================================================
