------------------------------- MODULE SessionStore ---------------------------
(***************************************************************************)
(* The owner of every Telegram client (telegram/session-store.ts): the     *)
(* cache of live clients, the restores and logins under way, the requests  *)
(* that use a session, and the stored records behind them                  *)
(* (telegram/session-repository.ts).  Redis, Telegram and the network are  *)
(* the environment: every call to them may fail, a connection may drop, a  *)
(* session may be revoked, a record may lapse, the process may restart.    *)
(* Whether a client is connected when the code looks is their choice too.  *)
(* A connect that its timeout abandons (with-timeout.ts) is not cancelled: *)
(* it may bring its client up later.                                       *)
(***************************************************************************)
EXTENDS SessionClientCache

CONSTANTS Requests, NoTask

Sessions == Keys   \* the cache is keyed by session string
Tasks == Callers   \* restores and logins that may overlap; they call the cache

ASSUME StoreAssumption == NoTask \notin Tasks

VARIABLES
  revived,   \* clients that a connect has brought up again after their release
  tasks,     \* the restores and logins under way
  restoring, \* the map of pending restores, by session
  requests,  \* the requests being served
  records,   \* the stored record of each session
  issued,    \* sessions whose string a login has returned
  revoked,   \* issued sessions Telegram no longer accepts
  unsaved    \* sessions of this process life whose record was never written

vars == <<cacheVars, revived, tasks, restoring, requests, records, issued, revoked, unsaved>>

TaskPc == {"none", "reading", "restoring", "failing", "rejected", "signing_in", "saving"}
Task == [pc : TaskPc, session : Sessions]
RequestPc == {"idle", "waiting", "resumed", "reconnecting", "using", "refused", "removing"}
Request == [pc : RequestPc, session : Sessions,
            client : Clients \cup {NoClient}, task : Tasks \cup {NoTask}]

TypeOK ==
  /\ CacheTypeOK
  /\ revived \subseteq Clients
  /\ tasks \in [Tasks -> Task]
  /\ restoring \in [Sessions -> Tasks \cup {NoTask}]
  /\ requests \in [Requests -> Request]
  /\ records \in [Sessions -> {"none", "stored", "unreadable"}]
  /\ issued \subseteq Sessions /\ revoked \subseteq issued /\ unsaved \subseteq issued

\* What a new process starts with: everything held in memory is gone.
AnySession == CHOOSE s \in Sessions : TRUE
NoEntries == [s \in Sessions |-> NoClient]
TaskOver == [pc |-> "none", session |-> AnySession]
NoRequest == [pc |-> "idle", session |-> AnySession, client |-> NoClient, task |-> NoTask]

Init ==
  /\ entries = NoEntries /\ order = <<>>
  /\ live = {} /\ leaving = {} /\ shared = {}
  /\ calls = [t \in Tasks |-> NoCall]
  /\ revived = {}
  /\ tasks = [t \in Tasks |-> TaskOver]
  /\ restoring = [s \in Sessions |-> NoTask]
  /\ requests = [r \in Requests |-> NoRequest]
  /\ records = [s \in Sessions |-> "none"]
  /\ issued = {} /\ revoked = {} /\ unsaved = {}

-------------------------------------------------------------------------------
Spare(c) == c \notin revived /\ \A r \in Requests : requests[r].client # c
Step(r, pc) == [requests EXCEPT ![r].pc = pc]
Answer(r) == [requests EXCEPT ![r] = NoRequest]

\* Mutant: the waiters are not woken.
SettleSilently(t, pc, c) ==
  /\ tasks' = [tasks EXCEPT ![t] = TaskOver]
  /\ restoring' = [restoring EXCEPT ![tasks[t].session] = NoTask]
  /\ UNCHANGED requests

\* The restore of s by t settles: the pending entry of s goes, and every
\* request that shares the promise gets its outcome.
Settle(t, pc, c) ==
  LET s == tasks[t].session
      outcome == IF pc = "idle" THEN NoRequest
                 ELSE [pc |-> pc, session |-> s, client |-> c, task |-> NoTask]
  IN /\ tasks' = [tasks EXCEPT ![t] = TaskOver]
     /\ restoring' = [restoring EXCEPT ![s] = NoTask]
     /\ requests' = [r \in Requests |-> IF requests[r].task = t THEN outcome ELSE requests[r]]

\* What follows `await clients.set`, once the client is stored.
Stored(t) ==
  IF calls'[t].pc # "idle"
  THEN UNCHANGED <<tasks, restoring, requests>>
  ELSE IF tasks[t].pc = "restoring"
  THEN Settle(t, "resumed", calls[t].client)
  ELSE /\ tasks' = [tasks EXCEPT ![t].pc = "saving"]
       /\ UNCHANGED <<restoring, requests>>

\* What a connect to c may do: c comes up, unless it fails; one that was given
\* up on may still succeed.  The store keeps no trace of a client it released.
MayComeUp(c) == revived' \in {revived, revived \cup ({c} \ live)}

-------------------------------------------------------------------------------
(* Logins: openLoginClient, the sign-in of auth.service.ts, adopt.  Every  *)
(* login yields a new string.  A second sign-in may read the same attempt. *)
OpenLogin(t, s, c) ==
  /\ tasks[t].pc = "none"
  /\ s \notin issued \cup shared /\ \A u \in Tasks : tasks[u].pc # "none" => tasks[u].session # s
  /\ Spare(c)
  /\ Open(t, s, c)
  /\ tasks' = [tasks EXCEPT ![t] = [pc |-> "signing_in", session |-> s]]
  /\ UNCHANGED <<revived, restoring, requests, records, issued, revoked, unsaved>>

JoinLogin(t, u) ==
  /\ tasks[t].pc = "signing_in" /\ calls[t].client \in live
  /\ tasks[u].pc = "none"
  /\ Share(t, u)
  /\ tasks' = [tasks EXCEPT ![u] = tasks[t]]
  /\ UNCHANGED <<revived, restoring, requests, records, issued, revoked, unsaved>>

\* Mutant: the client of a failed login is not released.
LoginFailsUnreleased(t) ==
  /\ tasks[t].pc = "signing_in" /\ calls[t].pc = "holding"
  /\ calls' = [calls EXCEPT ![t].pc = "dropping"]
  /\ UNCHANGED <<entries, order, live, leaving, shared, revived,
                 tasks, restoring, requests, records, issued, revoked, unsaved>>

\* The release is called whoever else has the client: the one a sign-in of the
\* same attempt has had cached meanwhile is released too.
LoginFails(t) ==
  /\ tasks[t].pc = "signing_in"
  /\ GiveUp(t)
  /\ UNCHANGED <<revived, tasks, restoring, requests, records, issued, revoked, unsaved>>

LoginReleased(t) ==
  /\ tasks[t].pc = "signing_in"
  /\ GaveUp(t)
  /\ MayComeUp(calls[t].client)
  /\ tasks' = [tasks EXCEPT ![t] = TaskOver]
  /\ UNCHANGED <<restoring, requests, records, issued, revoked, unsaved>>

\* Telegram has accepted the login on an open connection.
Adopt(t) ==
  /\ tasks[t].pc = "signing_in" /\ calls[t].client \in live \cup leaving \cup revived
  /\ SetCall(t)
  /\ Stored(t)
  /\ UNCHANGED <<revived, records, issued, revoked, unsaved>>

\* The record is written or Redis fails; either way the login returns.
Save(t) ==
  LET s == tasks[t].session
  IN /\ tasks[t].pc = "saving"
     /\ \/ records' = [records EXCEPT ![s] = "stored"] /\ UNCHANGED unsaved
        \/ unsaved' = unsaved \cup {s} /\ UNCHANGED records
     /\ tasks' = [tasks EXCEPT ![t] = TaskOver]
     /\ issued' = issued \cup {s}
     /\ UNCHANGED <<cacheVars, revived, restoring, requests, revoked>>

-------------------------------------------------------------------------------
(* Restores: restore, started by restoreOnce. *)
\* Mutant: a Redis outage reported as an unknown session.
RedisFailsAsUnknown(t) ==
  /\ tasks[t].pc = "reading"
  /\ Settle(t, "refused", NoClient)
  /\ UNCHANGED <<cacheVars, revived, records, issued, revoked, unsaved>>

RedisFails(t) ==
  /\ tasks[t].pc = "reading"
  /\ Settle(t, "idle", NoClient)
  /\ UNCHANGED <<cacheVars, revived, records, issued, revoked, unsaved>>

\* No record, or one that no longer decrypts (it is deleted): a 401.
RestoreUnknown(t) ==
  /\ tasks[t].pc = "reading"
  /\ records[tasks[t].session] # "stored"
  /\ records' = [records EXCEPT ![tasks[t].session] = "none"]
  /\ Settle(t, "refused", NoClient)
  /\ UNCHANGED <<cacheVars, revived, issued, revoked, unsaved>>

RestoreKnown(t, c) ==
  /\ tasks[t].pc = "reading"
  /\ records[tasks[t].session] = "stored"
  /\ Spare(c)
  /\ Open(t, tasks[t].session, c)
  /\ tasks' = [tasks EXCEPT ![t].pc = "restoring"]
  /\ UNCHANGED <<revived, restoring, requests, records, issued, revoked, unsaved>>

\* The connect fails, is rejected by Telegram, or times out and goes on alone.
RestoreFails(t) ==
  /\ tasks[t].pc = "restoring"
  /\ GiveUp(t)
  /\ \/ tasks' = [tasks EXCEPT ![t].pc = "failing"]
     \/ tasks[t].session \in revoked /\ tasks' = [tasks EXCEPT ![t].pc = "rejected"]
  /\ UNCHANGED <<revived, restoring, requests, records, issued, revoked, unsaved>>

\* The release is over: the error goes to everyone who waits.
RestoreReleased(t) ==
  /\ tasks[t].pc \in {"failing", "rejected"}
  /\ GaveUp(t)
  /\ MayComeUp(calls[t].client)
  /\ Settle(t, IF tasks[t].pc = "rejected" THEN "refused" ELSE "idle", NoClient)
  /\ UNCHANGED <<records, issued, revoked, unsaved>>

RestoreConnects(t) ==
  /\ tasks[t].pc = "restoring"
  /\ SetCall(t)
  /\ Stored(t)
  /\ UNCHANGED <<revived, records, issued, revoked, unsaved>>

\* The release that `set` awaited is over, for a restore or a login.
StoreResumes(t) ==
  /\ SetResume(t)
  /\ Stored(t)
  /\ UNCHANGED <<revived, records, issued, revoked, unsaved>>

-------------------------------------------------------------------------------
(* Requests: getConnected, the call to Telegram, evictIfSessionInvalid. *)
Use == {"using", "reconnecting"}   \* `client.connected`, or not

Hit(r, s) ==
  /\ requests[r].pc = "idle" /\ s \in issued
  /\ Get(s)
  /\ \E pc \in Use : requests' = [requests EXCEPT ![r] =
       [pc |-> pc, session |-> s, client |-> entries[s], task |-> NoTask]]
  /\ UNCHANGED <<revived, tasks, restoring, records, issued, revoked, unsaved>>

\* Mutant: every miss starts a restore of its own.
MissAlone(r, s, t) ==
  /\ requests[r].pc = "idle" /\ s \in issued
  /\ entries[s] = NoClient /\ tasks[t].pc = "none"
  /\ tasks' = [tasks EXCEPT ![t] = [pc |-> "reading", session |-> s]]
  /\ restoring' = [restoring EXCEPT ![s] = t]
  /\ requests' = [requests EXCEPT ![r] =
       [pc |-> "waiting", session |-> s, client |-> NoClient, task |-> t]]
  /\ UNCHANGED <<cacheVars, revived, records, issued, revoked, unsaved>>

\* A miss joins the pending restore of the session, or starts one (as t).
Miss(r, s, t) ==
  /\ requests[r].pc = "idle" /\ s \in issued
  /\ entries[s] = NoClient
  /\ IF restoring[s] # NoTask
     THEN /\ t = restoring[s]
          /\ UNCHANGED <<tasks, restoring>>
     ELSE /\ tasks[t].pc = "none"
          /\ tasks' = [tasks EXCEPT ![t] = [pc |-> "reading", session |-> s]]
          /\ restoring' = [restoring EXCEPT ![s] = t]
  /\ requests' = [requests EXCEPT ![r] =
       [pc |-> "waiting", session |-> s, client |-> NoClient, task |-> t]]
  /\ UNCHANGED <<cacheVars, revived, records, issued, revoked, unsaved>>

\* A waiter runs again: its client may have left the cache meanwhile.
Resume(r) ==
  /\ requests[r].pc = "resumed"
  /\ \E pc \in Use : requests' = Step(r, pc)
  /\ UNCHANGED <<cacheVars, revived, tasks, restoring, records, issued, revoked, unsaved>>

\* connect() on the client it was handed, an evicted or released one included;
\* a connect that fails, is rejected or times out releases nothing.
Reconnect(r) ==
  /\ requests[r].pc = "reconnecting"
  /\ MayComeUp(requests[r].client)
  /\ \/ requests' = Step(r, "using") \/ requests' = Answer(r)
     \/ requests[r].session \in revoked /\ requests' = Step(r, "refused")
  /\ UNCHANGED <<cacheVars, tasks, restoring, records, issued, revoked, unsaved>>

\* Telegram answers, or fails in a way that is no verdict on the session.
Answered(r) ==
  /\ requests[r].pc = "using"
  /\ requests' = Answer(r)
  /\ UNCHANGED <<cacheVars, revived, tasks, restoring, records, issued, revoked, unsaved>>

Rejected(r) ==
  /\ requests[r].pc = "using"
  /\ requests[r].session \in revoked
  /\ requests' = Step(r, "refused")
  /\ UNCHANGED <<cacheVars, revived, tasks, restoring, records, issued, revoked, unsaved>>

\* evict, which awaits the release of the client it finds, if any.
EvictInvalid(r) ==
  LET s == requests[r].session
  IN /\ requests[r].pc = "refused"
     /\ Evict(s)
     /\ requests' = [requests EXCEPT ![r].pc = "removing", ![r].client = entries[s]]
     /\ UNCHANGED <<shared, calls, revived, tasks, restoring, records, issued, revoked, unsaved>>

RemoveRecord(r) ==
  /\ requests[r].pc = "removing" /\ requests[r].client \notin leaving
  /\ \/ records' = [records EXCEPT ![requests[r].session] = "none"]
     \/ UNCHANGED records
  /\ requests' = Answer(r)
  /\ UNCHANGED <<cacheVars, revived, tasks, restoring, issued, revoked, unsaved>>

-------------------------------------------------------------------------------
(* The idle sweep and `close`, and the environment. *)
Sweep ==
  /\ SweepIdle
  /\ UNCHANGED <<revived, tasks, restoring, requests, records, issued, revoked, unsaved>>

\* A destroy() has returned; a connect that overlapped it may have won.
Destroyed(c) ==
  /\ Released(c)
  /\ revived' \in {revived, revived \ {c}}
  /\ UNCHANGED <<tasks, restoring, requests, records, issued, revoked, unsaved>>

Drop(c) ==
  /\ c \in revived
  /\ revived' = revived \ {c}
  /\ UNCHANGED <<cacheVars, tasks, restoring, requests, records, issued, revoked, unsaved>>

Revoke(s) ==
  /\ s \in issued \ revoked
  /\ revoked' = revoked \cup {s}
  /\ UNCHANGED <<cacheVars, revived, tasks, restoring, requests, records, issued, unsaved>>

\* SESSION_STORE_TTL_S without a use: nothing in memory refers to the session.
Lapse(s) ==
  /\ records[s] # "none" /\ entries[s] = NoClient /\ restoring[s] = NoTask
  /\ \A r \in Requests : requests[r].pc # "idle" => requests[r].session # s
  /\ \A t \in Tasks : tasks[t].pc # "none" => tasks[t].session # s
  /\ records' = [records EXCEPT ![s] = "none"]
  /\ UNCHANGED <<cacheVars, revived, tasks, restoring, requests, issued, revoked, unsaved>>

\* A restart, possibly with another SESSION_ENCRYPTION_KEY.
Restart ==
  /\ entries' = NoEntries /\ order' = <<>>
  /\ live' = {} /\ leaving' = {} /\ shared' = {}
  /\ calls' = [t \in Tasks |-> NoCall]
  /\ revived' = {}
  /\ tasks' = [t \in Tasks |-> TaskOver]
  /\ restoring' = [s \in Sessions |-> NoTask]
  /\ requests' = [r \in Requests |-> NoRequest]
  /\ unsaved' = {}
  /\ \/ UNCHANGED records
     \/ records' = [s \in Sessions |-> IF records[s] = "none" THEN "none" ELSE "unreadable"]
  /\ UNCHANGED <<issued, revoked>>

Next ==
  \/ \E t \in Tasks, c \in Clients : RestoreKnown(t, c) \/ \E s \in Sessions : OpenLogin(t, s, c)
  \/ \E t, u \in Tasks : JoinLogin(t, u)
  \/ \E t \in Tasks : \/ LoginFails(t) \/ LoginReleased(t) \/ Adopt(t) \/ Save(t)
                      \/ RedisFails(t) \/ RestoreUnknown(t)
                      \/ RestoreFails(t) \/ RestoreReleased(t) \/ RestoreConnects(t) \/ StoreResumes(t)
  \/ \E r \in Requests, s \in Sessions : Hit(r, s) \/ \E t \in Tasks : Miss(r, s, t)
  \/ \E r \in Requests : \/ Resume(r) \/ Reconnect(r) \/ Answered(r) \/ Rejected(r)
                         \/ EvictInvalid(r) \/ RemoveRecord(r)
  \/ \E s \in Sessions : Revoke(s) \/ Lapse(s)
  \/ \E c \in Clients : Destroyed(c) \/ Drop(c)
  \/ Sweep
  \/ Restart

Spec == Init /\ [][Next]_vars

-------------------------------------------------------------------------------
\* A client of s: the cached one, or one a task has created for it.
ClientsOf(s) == {c \in Clients : \/ entries[s] = c
                                 \/ \E t \in Tasks : calls[t].client = c /\ calls[t].key = s}

\* "Sole owner of the Telegram client lifecycle: every client is connected and
\* released here" (session-store.ts:30): a client that leaves the cache, or the
\* restore or login that opened it, without going to the other is released,
\* whatever fails, is evicted or overlaps.  Two sign-ins that share an attempt
\* are the exception: the second may store its released client over the one a
\* restore has cached meanwhile, which `set` overwrites without releasing it.
NoClientIsLetGo ==
  [][\A s \in Sessions \ shared : ClientsOf(s) \cap live' \subseteq ClientsOf(s)']_vars

\* "One restore per session at a time, so concurrent misses share a single
\* client" (session-store.ts:37), however misses, restores, sign-ins and
\* evictions overlap: a session has one client that nobody has released.
\* Another may still be up, whose release is under way, or that a request or
\* an abandoned connect brought up again after it.
OneClientPerSession == \A s \in Sessions : Cardinality(ClientsOf(s) \cap live) <= 1

\* A waiting request shares a restore that is still under way for its session,
\* so it is woken: no pending entry is reused or settled without its waiters.
WaitersHaveARestore ==
  \A r \in Requests : requests[r].pc = "waiting" =>
    /\ tasks[requests[r].task].pc \in {"reading", "restoring", "failing", "rejected"}
    /\ tasks[requests[r].task].session = requests[r].session

\* A 401 is a verdict: the session has no usable record, or Telegram rejected
\* it.  A Redis outage, a failed connect or an eviction never becomes one, and a
\* login whose record could not be written ("A failed record keeps the login
\* usable", session-store.ts:67) is refused only once its client has left the
\* cache (a second sign-in of its attempt may put it back, and write the record).
RefusalIsAVerdict ==
  \A r \in Requests : requests[r].pc \in {"refused", "removing"} =>
    LET s == requests[r].session
    IN /\ s \in revoked \/ records[s] = "none" \/ s \in shared \cap unsaved
       /\ s \in unsaved \ (revoked \cup shared) => entries[s] = NoClient
===============================================================================
