# TLA+ models of tg-parser

tg-parser is a NestJS service that reads public Telegram channels through MTProto
(GramJS) on behalf of its callers, and that composes a daily digest of them with Grok
and sends it to a chat through the Bot API. This directory holds TLA+ models of the
parts of it whose correctness depends on the order of events, the TLC configurations
that check them on small instances, and TLAPS proofs of what matters most.

## 1. Inventory

| Part (source) | State it keeps | Operations | What is hard about it |
|---|---|---|---|
| Session client cache (`telegram/utils/session-client-cache.ts`) | a Map of live clients in recency order, a sweep timer | `get`, `set`, `evict`, `sweepIdle`, `close` | `set` awaits releases, so calls of it overlap at the ceiling |
| Session store (`telegram/session-store.ts`, `telegram.service.ts`) | that cache, the Map of pending restores | `openLoginClient`, `adopt`, `getConnected`, `evictIfSessionInvalid`, `release`, `close` | overlapping misses, logins, evictions and rejections of one session; every client must be released by somebody; Redis and Telegram fail |
| Session repository (`telegram/session-repository.ts`) | records and the digest mark in Redis | `save`, `isKnown`, `touch`, `remove`, `markDigest`, `loadDigest` | each operation is several Redis commands; records lapse; the encryption key changes |
| Login flow (`telegram/auth.service.ts`) | pending attempts by phone number, a sweep timer | `authenticate` (three steps), `sweepExpired`, `close` | calls for one phone overlap at every await; a signed-in client changes hands |
| Alert queue (`alerts/alert.service.ts`, `alert-sender.ts`, `utils/`) | the queue, requests in flight, windows of repeated alerts, the dropped count | `enqueue`, `pump`, `deliver` with retries, `onApplicationShutdown` | the drain on shutdown races deliveries, retries and its own timeout |
| Rate limit store (`shared/utils/rate-limit-store.ts`) | a Map of windows in start order | `consume` | the ceiling of windows, the edges of a window |
| Request guards (`shared/guards/`) | two rate limit stores | `canActivate` of three guards | their order; one number in many spellings |
| Digest run (`digest/digest.service.ts`, `post-collector.ts`, `digest.scheduler.ts`) | the running flag, the abort handle, the cron job; per run its position, flood budget and results | `start`, `runScheduled`, `execute`, `collect`, `reportFailure`, `onModuleDestroy` | a request, the schedule and a shutdown at any point; flood waits; a failure after part of the digest was sent |
| Channel reader (`telegram/channel.service.ts`) | none of its own; the history is Telegram's | `getChannelPosts`: cached peer, lookup, page walk, probe | the history changes between two pages; the cached peer may be stale; the ceiling |
| Channel peer cache (`telegram/channel-peer-cache.ts`) | peers by account and channel, in Redis or a bounded Map | `get`, `set`, `remove` | reads of one channel share an entry; a failing Redis must look like an empty cache |
| Summary, translation, Grok client (`digest/summary.service.ts`, `translation.service.ts`, `grok/grok.client.ts`, `utils/coverage.ts`, `utils/post-selection.ts`, `utils/text.ts`) | per run: topics, translations, batches | `limitPosts`, `translate`, `summarize`, `translateTheses`, `completeJson` | a model may answer anything; each of several requests may fail, after others were taken |
| Bot notifier (`digest/bot-notifier.ts`) | none | `send` with retries | Telegram may take a message whose answer is lost |
| Message formatting (`digest/utils/message-splitter.ts`, `digest-formatter.ts`, `html.ts`) | none | pure functions | the limit of a message may fall into an entity, a tag or an empty line |
| Process shutdown (`shared/utils/process-handlers.ts`, `main.ts`, the lifecycle hooks) | a latch, a timer, the signal handlers | `closeApplication`, the hooks in Nest's order | a second signal, a crash during the close, a hook or request that hangs, requests and a digest run between the hooks |
| Error mapping (`telegram/utils/telegram-errors.ts`) | none | what an error says of the session, the channel, the peer, the connection; the answer to the caller and the alert | four readers ask one error their own questions, and the answers must fit together |
| Redis connection, configuration, HTTP surface, boot alerts, alert sanitizer | what ioredis and Nest keep | | no order of their own |

What makes each part correct:

- Client cache: never more clients than the ceiling; nobody has released a cached client; a client
  that leaves the cache is released.
- Session store: a client goes from the restore or login that opened it into the cache or is
  released, and from the cache it goes only by a release; one client of a session that nobody has
  released; nobody waits for a restore that is not under way; a session is refused as unknown (401)
  only when Telegram or the repository said so. Two sign-ins of one attempt are the exception
  to the first two.
- Session repository: a removed session is not stored again, leaves no mark, and is not read for
  the digest; a removal touches its own mark only.
- Login flow: a client Telegram has accepted is handed over once and released by nobody else; a
  call changes its own attempt only; an abandoned attempt is released in the end.
- Alert queue: the ceilings hold; nothing waits while a slot is free; lost alerts are counted and
  told; a key is silent only after an alert of it; the drain ends, ends with everything done, and
  nothing starts after it.
- Rate limit store and guards: the quota holds in every window, a live counter is never dropped,
  Retry-After is kept, only callers with a key are counted, a number pays for served requests only.
- Digest run: one run at a time; every channel is read, unavailable or skipped for a reason that is
  told; an aborted run reads no further; every run ends and somebody hears of it.
- Digest content: every post that was kept is in the digest, whatever the model answers; what
  was left out is the oldest; untranslated texts are counted; no message comes before the one it
  follows.
- Channel reader: a read holds every post of its window once or says it is truncated; only a lookup
  makes a channel unavailable; no fault of the caller is an alert; a read ends.
- Message formatting: no message is empty or longer than Telegram takes, no entity is cut and no tag
  left open, and nothing that was written is lost.
- Process shutdown: the process ends whatever hangs; the clients cached when the close began go
  before Redis; the crash alert is lost to a full queue only; a run is told to stop.

How they interact:

- A request passes the guards, then the controller calls `TelegramService`, which calls
  `AuthService`, `ChannelService` or `SessionStore`. `AuthService` opens its clients through
  `SessionStore` and hands the signed-in one over (`adopt`). `SessionStore` is the only user of
  the client cache and of the repository.
- `DigestService` reads through `TelegramService` with the session marked in the repository,
  asks Grok for translations and topics, and sends through `BotNotifier`.
- Everything raises alerts into `AlertService`; it answers to nobody and is drained on shutdown.
- Node runs one callback at a time. All races are between awaits, so a step of a model is the
  code from one await to the next, and every call that is awaited for an outside service is a
  place where other actors move and where the call may fail.

## 2. Modules

| Module | Models | Checked as | Proofs |
|---|---|---|---|
| `SessionClientCache` | the client cache and overlapping `set` calls | part of `SessionStore`, which extends it, and abstract specification (`CacheSpec`) of that module | `SessionStore_proofs`, part 1 |
| `SessionStore` | extends the cache: restores, logins, requests, evictions, with Redis, Telegram and restarts around them | `MCSessionStore` | `SessionStore_proofs`, parts 2 and 3 |
| `SessionRepository` | the Redis commands of the repository, command by command | `MCSessionRepository` (two configurations) | `SessionRepository_proofs` |
| `AuthFlow` | the multi-step login | `MCAuthFlow` (two configurations) | `AuthFlow_proofs` |
| `AlertQueue` | the alert service with its deduplicator, sender, idle signal and failure log | `MCAlertQueue`, and an instance in `ProcessShutdown`, which is shown to implement it (`AlertSpec`) | `AlertQueue_proofs` |
| `ProcessShutdown` | signals, exceptions, the one close, the hooks of all modules, around requests, a digest run and the alert queue | `MCProcessShutdown` | `ProcessShutdown_proofs` |
| `RateLimitStore` | one store of windows over a clock | part of `RequestGuards`, which extends it for callers and instantiates it for numbers | `RequestGuards_proofs` |
| `RequestGuards` | the three guards in order | `MCRequestGuards` | `RequestGuards_proofs` |
| `DigestRun` | a run from the trigger to the last message, the scheduler and the shutdown hook | `MCDigestRun` (two configurations) | `Digest_proofs`, parts 1 and 4 |
| `DigestDelivery` | what both digest modules promise of the messages (abstract) | no run: refinement proved from `DigestRun` and from `DigestContent`, which instantiate it | `Digest_proofs`, part 4 |
| `ChannelPeerCache` | the peers, in Redis or in a bounded map | part of `ChannelRead`, which extends it | `ChannelRead_proofs` |
| `TelegramErrors` | what an error means, what is answered and alerted (no state) | part of `ChannelRead` | lemmas in `ChannelRead_proofs` |
| `ChannelRead` | one read of a channel over the peer cache, with its failures and the eviction of a rejected session | `MCChannelRead` | `ChannelRead_proofs` |
| `MessageSplitter` | blocks to messages (no state) | part of `DigestContent` | `Digest_proofs`, part 3 |
| `DigestContent` | what becomes of the posts of one run, request by request, down to the messages in the chat | `MCDigestContent` | `Digest_proofs`, parts 2, 3 and 4 |

An operator named in a comment as a mutant is a plausible wrong form of the definition that
follows it. It is not part of any specification; it is there to show that the property it is
paired with in `PROJECT.json` fails when the code is wrong in that way.

### SessionClientCache and SessionStore

`entries` and `order` are the Map (its values, and its keys in insertion order). `live` is the
set of clients created and not released. An eviction deletes the entry and calls `destroy()` in one
step, which puts the client into `leaving`; the release ends with `Released`, and whatever awaits it
(a `set`, an eviction, a failed login) goes on only then, while every other call runs. What a caller
of the cache does is a record of `calls`: `holding` while it has the client but has not called
`set`, `releasing` while `set` awaits the release of an evicted entry, `dropping` while it awaits that
of its own client. `MakeRoomOrStore` is one turn of the `while` of `set`: it evicts and awaits, or
stores. `Share` lets a second caller take the client of a first: both will store it or give it up,
and `shared` remembers the key. The TTL of an entry is left open: `SweepIdle` may evict any prefix of
the recency order, which is what the timestamps amount to.

`SessionStore` adds `tasks` (a restore or a login, by what it awaits), `restoring` (the Map of
pending restores), `requests` (by what each awaits), and the environment: `revived`, `records`,
`issued`, `revoked`, `unsaved`. `Miss` is `getConnected` with `restoreOnce` up to the first await:
it joins the pending restore or starts one. `Settle` is the `finally` of `restoreOnce` and wakes
the waiters in the same step. `EvictInvalid` and `RemoveRecord` are the halves of
`evictIfSessionInvalid`. `JoinLogin` is a second sign-in that reads the attempt of the first;
`LoginFails` is `release`, which `AuthService.dropAuthState` calls also when the other sign-in has had
the client cached. `Reconnect` calls `connect()` on whatever client the request was handed:
one that was evicted or released comes up again, uncached, and is then in `revived`; so may one
whose `connect` was given up by its timeout (`MayComeUp`). Whether a client that nobody has released
is connected when a request looks is left open. `Drop`, `Revoke`, `Lapse` and `Restart` belong
to the environment.

The cache alone would let a client go if two overlapping `set` calls used one key.
`NoClientIsLetGo` shows that `SessionStore` never makes them but for two sign-ins of one attempt.

### SessionRepository

`calls` holds each operation at its next Redis command; every command is a step and may fail.
`record` tells whether a stored value can still be decrypted (`"foreign"` after a change of the
key). `Lapse` is the expiry of a record, `Restart` a new process, possibly with another key or
without Redis. `removed` and `forgotten` are history variables read by properties only.

### AuthFlow

`states` is the Map of pending attempts; an attempt is named by the client it owns. `calls` are
the `authenticate` requests, at the await they are in. `Complete` is the claim of the attempt
before `adopt`. `Retire` is what `SessionStore` does with an adopted client later. Names, identities
and alerts are left out: no decision depends on them.

### AlertQueue

`queue` and `inFlight` are the array and the count of the code, with the attempt each delivery is
at. A payload is its key and the count of dropped alerts it carries (`alert.service.ts:117` hands
the counter over to it). `windows`, `lapsed` and `suppressed` are the deduplicator; `unlogged` and
`logged` the throttle of the failure log. `Accept` is `enqueue` with its `pump`; `Finish` is the
`finally` of `deliver`. `hook` follows `onApplicationShutdown`. `lost`, `told` and `forfeited` are
the books `DropsAreReported` balances: a lost alert is in the counter, on its way, told, or went
down with a delivery that was given up or with the queue the hook emptied.

### ProcessShutdown

`stage` is how far `closeApplication` is: a handler that runs to its await (`handling`), the three
phases of `app.close()` (`destroying`, `disposing`, `ending`), and the three ways it settles, each
followed by `process.exit`. `listening` are the signals that still have a handler: handlers are
registered with `once`, so the same signal a second time has its default action (`SignalAgain`).
`busy` and `ran` are the hooks. Their order inside a phase belongs to the framework and is left
open, but for the two calls of `TelegramService.onModuleDestroy`, which are in one function.
`user` and `client` say what each request, and the run, does with a Telegram client: being opened,
left with a pending login, cached, released. `HangUp` is a caller who goes: his handler goes on, and
the server, which closes when no connection is open (one that is only kept alive is closed at
once), no longer waits for him (`Proceed`). The alert queue is an instance of `AlertQueue` over the
variables of this module; every action either is one of its actions or leaves it alone. `told`,
`cut` and `held` are history variables of the properties.

### RateLimitStore and RequestGuards

Every outcome of `consume` is an action: a window started, a hit counted, a refusal by the quota,
a refusal because the map is full. `RateTick` moves the clock by one. The insertion order of the
Map is a relation: `order` has the pair of two windows when the first was inserted before the
second, and `Oldest` is the one before all others. In `RequestGuards` the extended variables are
the store of callers and `Phone` is an instance of the module for the store of numbers; a request
is one step because the guards are synchronous. The keys a request may present are the configured
ones (`ApiKeys`) and any other, none at all included (`OtherKeys`). `admitted` is a history variable of `NumberQuota`
and `QuotasAreSpentByTheirOwners`: the auth requests of the last window, each an instant and a place among those of that instant.

### DigestRun

One record of variables per run (`pc`, `at`, `floodWaitedS`, `read`, `unavailable`, `size`, `sent`,
`alerts`, `noticed`), and the service's fields `isRunning` and `runAbort`. `ReadUnlessCancelled` is
the check of the signal that precedes a read. `OnModuleDestroy` may come at any point; so may
`Restart`, which loses what is under way. A start while a run is in progress changes nothing (409
or a skipped tick) and is not an action.

### ChannelRead

`history` says what each message id is: a post, a service message, an undated item, or nothing.
Ids grow with dates, so a window is a lowest id. `Page` is what `getMessages` answers, newest
message first (`NewestFirst`). `read`
holds the local variables of the read in progress and, once it is over, what its caller was told.
`current` is the peer Telegram accepts. The cache is the one of `ChannelPeerCache`: `OtherRead` is
a cache call of any other read, of this key or of another one, so entries are set, dropped and
pushed out of the bounded map under the read. `steady` holds the posts of the window that have been
there since the walk began; only such posts can be promised.

An error is a record of what the code looks at (`TelegramErrors`): the status of an exception of the
service itself, or the code and the seconds of an RPC error, or the signs in any other message.
`ErrorAssumption` says what GramJS does: only a lookup and a refused peer speak of a channel, with
one of the codes the code knows. `Throw` is the `catch` of `getChannelPosts`; for an error that
rejects the session it awaits `evictIfSessionInvalid` first (`EvictionReturns`): what that does
to the cached client, the record and a restore under way is `SessionStore`'s, and no property
here speaks of it. When Redis fails there (`EvictionFails`), the 503 of the repository leaves the
`catch` before `failWith` and is not alerted.

### DigestContent

The state is that of one call chain: `kept`, the batches left, the posts translated, `topics`, and
the messages the chat has got; `stage` is the request that is awaited. Its specification is
`ContentSpec`, so that one module can speak of it and of `DigestRun`. A batch is the set of its posts,
because the answer names them in any order; `BatchBySize` fills the batches in the order of the
posts, as the code does. What the code sorts is written by rank (`InOrder`, `LimitPosts`): the k-th
post is the one with k - 1 before it. `Answers` and the parameters of `Placed` and `Translated` let the
model answer with any references, unknown and repeated ones included. `GrokRetry` is the retry
loop of `completeJson`; a failure that is not retryable and one that has no retry left are the
same step (`TranslationFails`, `SummaryFails`, `PlacingFails`), so the summary's timeout, which is
never retried, is covered. `RetryMessage` covers a refusal as well as a timeout. A request the notifier has given up is
not taken back: it is in `late` until Telegram takes it (`TakenLate`), at once, after its retry, after
later messages, when the digest is long delivered, or never. `Answers` are any number of topics up
to `MaxTopics`, each with references to any posts; a follow-up adds to one topic, of a number that
exists or not, and one new topic (`NewTopics`). `messages` is what the notifier is given: the blocks of the topics and of the
footer through `SplitMessages`. A text is a sequence of characters in which an HTML tag counts as one
and an entity is an `&`, what it names, and a `;`, which is what the splitter tells apart. The
lines of a topic are given as `topicBlock` writes them, with bullets and escaped: `Theses` are what a
model may answer, `Texts` what a post reads on its own. Their wording is free but for
`TextAssumption`: an escaped line has no tag, and no `&` but the start of an entity. `Labels` and
`CollectorLines` stand for whole words, with no such character in them.

### DigestDelivery

`DigestRun` knows how many messages a digest has and nothing of what is in them; `DigestContent` makes
them and knows nothing of channels, aborts or restarts. `DigestDelivery` is what they have to agree on: a
digest is made before the first message goes out, it has at least one, each message is counted
once, and the last one makes it a delivered digest; otherwise it stops. In `DigestRun` there is one
such delivery per run (`Delivery(r)`, with `Phase`), in `DigestContent` one (`Content`, with
`ContentPhase` and `ContentSent`, since `round` counts messages only while they are sent).

## 3. Runs

| Run | Result | What it shows |
|---|---|---|
| `session_store` | pass | one client of a session that nobody has released, none let go without a release, no waiter forgotten, no 401 without a verdict (a login whose record could not be saved is refused only once its client has left the cache); the ceiling, and nobody has released a cached client, with the exceptions two sign-ins of one attempt make; the store implements `CacheSpec` |
| `session_repository` | pass | a removed session is not stored again, keeps no mark, and is never handed to the digest |
| `session_repository_mark` | violation | see finding 1 |
| `auth_flow` | pass | a claimed client survives every other call, the sweep and `close`; a sign-in touches its own attempt only; an expired attempt goes |
| `auth_flow_abandoned` | violation | see finding 2 |
| `alert_queue` | pass | ceilings, work conservation, every lost alert on the books, no silence without an alert, a drain that is complete when it ends early, ends by itself, and starts nothing afterwards |
| `process_shutdown` | pass | Redis goes after the clients cached when the close began and every request whose caller still waits, the crash alert is dropped by a full queue only and otherwise sent unless the drain or the close times out, a run behind the hooks was aborted or requested over HTTP, the close is a shutdown of `AlertQueue`, the process ends |
| `request_guards` | pass | a full store protects live counters and tells an honest Retry-After; a number is bounded over callers and spellings; only configured callers are counted, and a number counts the requests for it that were served |
| `digest_run` | pass | one run at a time with its handle, every channel accounted for, every outcome told, an aborted collection stops, every run ends |
| `digest_run_abort` | violation | see finding 3 |
| `channel_read` | pass | no post of the window is missed or doubled, a 404 follows a lookup of this read, no fault of the caller is alerted, the map of peers is bounded, every read ends |
| `digest_content` | pass | every kept post with text is in the digest whatever the model answers, only the oldest are left out, untranslated texts are counted, no message is too long or cuts an entity; whenever requests that were given up are taken, no message is in the chat before the one it follows, and none more often than it was tried |

Findings, each a sentence of the code that the code does not keep:

1. `session-repository.ts:58`: `remove` forgets the mark *when it points at this session*. It reads
   the mark and deletes it in two commands; a mark set for another session in between is deleted.
2. `auth.service.ts:206`: `storeAuthState` releases *first* what a concurrent request stored. It
   releases what it read before the await and overwrites what is stored after it. Of two
   overlapping step 1 calls of a phone, one has read the pending attempt and awaits its release here;
   the other drops that attempt from the map (`dropAuthState`), opens its own client and, finding
   nothing pending, stores it; the first resumes and overwrites it. That client stays connected
   with nobody to release it.
3. `digest.service.ts:83`: a run in progress *ends without sending anything* on shutdown. The signal
   is looked at while channels are read only.

Met on the way, and stated by the properties rather than by a run of their own:

- `session-store.ts:66-67` calls an unsaved login usable *until the next restart*. It is usable until
  its client leaves the cache, by the ceiling or the idle sweep (`RefusalIsAVerdict`).
- `redis.module.ts:14-15`, *Telegram clients are released before Redis goes away*, holds for the clients
  cached when the close began: a login claimed or a session restored behind `SessionStore.close`
  is cached and released by nobody (`RedisGoesLast`). The server's close waits for connections, so a
  handler whose caller has hung up may still open clients and use Redis when Redis goes.
- A tick between the hooks of two modules starts a run that is then aborted; one requested over HTTP
  after the hooks is not (`RunsAreToldToStop`).
- `process-handlers.ts:17-18` says of the uncaught exception that it is *queued before closing, so
  shutdown flushes it*. A full queue drops it (`alert.service.ts:89`), and no alert then tells of the
  crash (`CrashIsReported` says that this is the only way).
- `bot-notifier.ts:41` sends every message *in order*. A request that timed out may be taken after
  its retry and after the next message: the chat then has 1, 2, 1 (`ChatIsInOrder`).
- `session-store.ts:30`, *every client is connected and released here*: a request that waited, or
  looked, before its client was evicted reconnects it (`session-store.ts:93-96`), and nobody
  releases what comes up then; the same goes for a `connect` that wins after its timeout. A restore
  may also open a client while the release of the evicted one is under way, so two may be up on
  one key for a while (`OneClientPerSession` counts those nobody has released).
- `session-client-cache.ts:20-21`: *every entry leaves the cache through evict, which always releases
  the client*. Of two sign-ins that share an attempt and are both accepted, the second may await
  room in `set` while its client is evicted and a restore caches another; it then overwrites that
  one by `touch`, and nobody releases it (`shared` in `NoClientIsLetGo`).
- The Redis failure of `evictIfSessionInvalid` replaces the answer to the read and is not alerted
  (`EvictionFails`).

### Bounds, and why they are enough

- `session_store`: two sessions over a cache of one entry, two requests, two tasks, three clients.
  One entry makes every login and restore evict; two tasks overlap inside `set`, and two sign-ins
  share an attempt; three clients allow a cached one, one that is leaving or up again in the hands of
  a request, and a new one. Requests, faults and a shared attempt concern one session (`Watched`), of
  which the other wants the room, and one client at a time is up again after its release. Clients,
  requests and tasks are interchangeable (symmetry); the run has no liveness property. Without the
  bounds of `Bounded` the run does not end in minutes; the proofs have none of them.
- `session_repository`: three operations over two sessions: one removal, one that overlaps it,
  and a third (an `isKnown` or `markDigest`) between the two.
- `auth_flow`: two calls, one phone, three clients: the pending one and one of each call. Two phones
  do not interact (`states` is read and written at one phone), except in the sweep.
- `alert_queue`: a queue of two, two slots, one retry, two keys of which one is remembered, six
  alerts: enough to fill slots and queue, drop two, forget a key and raise it again.
- `request_guards`: three callers and a stranger for two windows, so one caller is refused for want of
  room; times up to seven cover three windows of the callers and two of the numbers.
- `digest_run`: two runs, two channels, waits of one and two against a limit of one and a budget of
  one: a wait allowed, a wait too long, a budget used up. `digest_run_abort` has a larger budget.
- `channel_read`: four ids, pages of two, a ceiling of three: a full page, a page cut to the ceiling,
  and the probe; windows that hold everything and half. A history holds at most one message that
  is no post: each kind is met in every place. One peer value is enough, since it goes stale and
  comes back by `PeerChanges`. Two keys over a map of one entry make every `set` of one evict the
  other; in Redis keys do not meet, so the second one is followed in the map only (`Bounded`). One error of each kind the code tells apart, among them a lookup failure whose message
  also looks like a lost connection. The surroundings move only while a call of the read depends
  on them (`IsReading`): not before it has a client, nor after its error.
- `digest_content`: three posts of which two fit, dates with and without ties, two batches (sizes 1, 2
  and 1 for a budget of 2), one retry per request, two follow-ups of the summary as in the code,
  three topics at most. Requests that were given up are followed in chats of up to five messages.
  Messages of ten characters: the limit falls into an entity, near an empty line, and into a line of
  its own. Once the notifier has the messages only their number matters to what follows, so a VIEW
  drops the rest of the state; the properties of the texts are checked in the states before.
- `process_shutdown`: one request, one run, one signal, a queue of one alert and one slot without
  retries. The request can be in any stage of a login or restore when the close begins; three alerts
  fill the slot and the queue and drop one. A second signal would behave as the first does after an
  exception: its handler finds the latch taken. The windows of the queue are `alert_queue`'s matter:
  here the crash, raised once, keeps its window, and no failure waits for a log line (`Bounded`). More
  requests are covered by the proofs.

`CHECK_DEADLOCK FALSE` is set for `alert_queue`, `process_shutdown` and `digest_content`, whose systems
stop: after the hook has ended or the bound of alerts is reached, when the process is gone, and
when the digest is out.

### Fairness

- `AuthFlow`: the sweep is a `setInterval` of the process; nothing else is fair, so a caller may never
  come back and the attempt still goes.
- `AlertQueue`: a delivery always makes a step, because its request has a timeout and its backoff a
  timer; the idle signal's waiter runs. The drain's own timer has no fairness, so `DrainEnds`
  shows that the drain does not need it.
- `ProcessShutdown`: only the handler's own code (`BeginClose`) and the timer of the close
  (`TimerFires`) are fair. Hooks, requests and deliveries may hang for ever.
- `DigestRun` (`FairSpec`): a run makes steps: reads, Grok and bot calls have timeouts, the flood
  wait is a timer. Triggers, `OnModuleDestroy` and `Restart` are not fair.
- `ChannelRead`: the read makes steps, since each call is wrapped in `withTimeout`; the cache and the
  channel are not fair and may change for ever.

## 4. Proofs

Every theorem holds for all values of the constants that satisfy the named assumptions
(`CacheAssumption`, `StoreAssumption`, `RepositoryAssumption`, `AuthAssumption`, `AlertAssumption`,
`RateAssumption`, `GuardAssumption`, `DigestAssumption`, `ContentAssumption`, `SplitterAssumption`,
`TextAssumption`, `ShutdownAssumption`, `PeerCacheAssumption`, `ChannelAssumption`,
`ErrorAssumption`): ceilings and
windows are positive, budgets and retries are natural numbers, the null values are not members of
the sets they extend, and what a bounded map or a digest ranges over is finite. `TextAssumption` is what
`escapeHtml` leaves of a text (an `&` begins an entity of at most five characters, far less than the
4096 of `BOT_MESSAGE_MAX_CHARS`), and that `DIGEST_LINKS_PER_LINE` links fit into a message, so that
a line with tags in it is never the line that is cut. TLC evaluates each of them in the run of its module. Each theorem is proved by an invariant that holds initially and
is kept by every action, one lemma or step per action.

Every invariant and every action property a passing run checks is a theorem. What is left to TLC is
liveness.

### Session cache and store (`SessionStore_proofs`)

- **Cache.** `CacheInv == OrderInv /\ HolderInv`. The ceiling is not inductive on its own: the code
  compares `Len(order)`, so `OrderInv` says that the order lists each cached key once. That nobody has
  released a cached client needs `HolderInv`: a client that a `set` call is about to store is live,
  cached nowhere, and in no second hand, unless its key is shared. Result: `CacheNeverExceedsCeiling`,
  `CacheServesLiveClients`, `CacheOrderConsistent`, `CacheTypeCorrect`.
- **The store is a user of the cache.** `StoreImplementsCache`: `Spec => CacheSpec`. Every step of a
  task is a step of the cache or leaves it alone, an eviction is `EvictKey` or finds nothing, the
  release of a cached client by a second sign-in is `GiveUp`, a restart is `Forget`. It needs
  `StoreInv == CacheInv /\ TypeOK` and that a request about to use a client has one (`Handed`). The
  cache's theorems carry over (`StoreNeverExceedsCeiling`, `StoreServesLiveClients`).
- **The life of a session.** `LifeInv == TaskInv /\ ClientInv /\ WaiterInv /\ RecordInv` proves
  `SessionsHaveOneClient`, `WaitersShareARestore` and `RefusalsAreVerdicts` together, because none of them
  is inductive without the others, and the same induction gives the action property of
  `ClientsAreNotLetGo` (`KeepsClients`). A client is let go when a cache entry is overwritten, so
  `ClientInv` says where the clients of a session are: one under restore has no live client in the
  cache and none with a sign-in, and a sign-in that still has a live client has stored that one or
  nobody has stored any. That rests on `TaskInv`, one task per session but for a shared attempt,
  which holds because `restoring` is looked at and written in one step and a new login has a new
  session. A request can only ask for a session some login has returned (`WaiterInv`), and a session
  with neither entry nor restore nor record is refused; `RecordInv` says that a login without a record
  is never under restore, so the 401 for it means that its client has left the cache.

### Login flow (`AuthFlow_proofs`)

`AuthInv == TypeOK /\ PlaceInv /\ PendingAttemptIsOpen`. `PlaceInv` gives every client one place: with
the call that opened it, as the attempt of one phone, or claimed for the store. Sharing is allowed
in one way only, that two sign-ins of one phone hold its attempt, and `ClaimedClientsSurvive` shows
exactly that exception: a claimed client is destroyed by the store or by such a sign-in, never by
a step 1, the sweep or `close`. `SignInsTouchTheirOwn` is the same for a sign-in that fails.
`PendingAttemptsAreOpen` holds up to the await in `storeAuthState`, between the release of the old
client and the write of the new one (finding 2 is what else may happen there).

### Session repository (`SessionRepository_proofs`)

`RemovedSessionsLeaveNoTrace`, by `RemovalInv`: which operation may be at which command, that a
removed session had been handed out, and that a removal on its way to deleting the record has
already seen to the mark. `RemovedSessionsAreNotRead` adds that the one step that answers with a
session has read its record in that step (`AnswerInv` says what an answer is and that nothing is
removed without Redis). `RepositoryTypeCorrect` is its types.

### Rate limit and guards (`RequestGuards_proofs`)

- **Store.** `RateLimitSizeBound`, `RateLimitLiveCounterSurvives`, by `CounterInv` (types and the
  bound); expired windows are dropped before anything is counted. `RateLimitRetryIsHonest` needs
  `InsertionInv`: the insertion order is a strict total order of the tracked subjects along which
  windows begin no earlier, so the first entry is the next to leave. Reinserting a subject
  without a new window would break it. `RateLimitTypeCorrect` rests on `ConsumeDecides`: a full store
  has a live counter, so that what a new subject is told is a time.
- **Guards.** `GuardsUseTheStores`: every behaviour is one of each store. `NumbersHaveAQuota`: fewer
  than twice the quota for a number pass in any window, which is what a fixed window can promise,
  since it may be spent at its end and again at the start of the next. `WindowInv` is the count
  behind that: during a window the requests since its start are its hits, and those before it,
  younger than a window, lack the one that opened theirs. `AdmittedInv` keeps the history finite
  and its members apart. `OwnersSpendTheirQuotas` takes the numbers from the same invariant; that no stranger
  is tracked follows from what a `consume` of one key adds to the others, which is nothing.

### Alert queue and shutdown (`AlertQueue_proofs`, `ProcessShutdown_proofs`)

- **Queue.** `AlertBounds`, `AlertWorkConserving` by `QueueInv`: the bounds and work conservation hold
  together, since `pump` fills what `Finish` frees. `AlertDrainComplete` by `DrainInv`: once the hook
  waits, nothing is accepted. `AlertNothingStartsAfterTheHook` by `EndedInv`: after the hook the
  queue is empty and stays so, and a backoff sees the abort. `AlertSilenceFollowsAnAlert` by
  `SilenceInv`: the windows that overflow drops are the oldest, and only a queued alert opens one.
  `AlertDropsAreReported` by `BooksInv`: the books balance in every step. The lemmas on `Carried` say how
  the sum over a sequence changes when it is split, joined and shortened, which `pump`, `Finish` and
  the emptied queue do to it. `AlertTypeCorrect` by `QueueInv` and `RestInv` (the windows, the
  counters and the hook): closing a window resets what was counted in it.
- **Shutdown.** `ShutdownUsesTheQueue`: every step is a step of the queue or leaves it alone, so the
  theorems of the queue hold in the shutdown. `ShutdownRedisGoesLast` by `ShutdownInv`: where the
  close stands tells which hooks have begun, a client cached when it began is cached until
  `SessionStore.close` and released from then on, and once the server has closed no caller comes
  back: a handler at work is one whose caller hung up. `ShutdownStopsTheRun` by `RunInv`.
  `ShutdownReportsTheCrash` by `CrashInv`: the alert of a crash is raised before the hooks that refuse it,
  so only a full queue drops it, and the close ends only behind the alert hook, which ends with nothing left unless it was cut.
  `ShutdownTypeCorrect` is the types of the process; those of its queue are the queue's own.

### Channel read (`ChannelRead_proofs`)

- **Verdicts.** `ReadVerdictsAreEarned` by `ReadInv`: a walk over a peer that is not from the cache
  follows one lookup; a read still at work has no verdict; one that awaits the eviction of its session
  will answer 401 or 503. It rests on two lemmas about the mapping for every error: the answer is
  401 exactly for the errors that evict (`RefusalMeansEviction`), and what does not speak of a
  channel is never a 404 (`OnlyChannelsAreMissing`).
- **Peers.** `CachedPeersAreBounded` by `CacheInv` (one entry per key, or the ceiling would drop too little).
- **Window.** `ReadsCoverTheWindow` by `WalkInv`: what the walk has found is descending and not below its
  offset (`FoundInOrder`), no post that has been there since the walk began is missing above the
  offset (`WalkIsAhead`), and the way a read ends says what it has established (`EndIsCovered`). The
  work is in the pages: a page is the highest messages below the offset, so what it leaves out is
  below its last id, and a page that is short or holds no post of the window leaves none of the
  window out. History changes between any two pages; only the posts in `steady` are promised.

### Digest (`Digest_proofs`)

- **Run.** `DigestFlagTracksTheRun` by `FlagInv` (at most the run of the handle is active);
  `DigestAbortEndsCollection` with `ShapeInv` and `FreshInv` (a run that has not started is not
  aborted); `DigestOutcomeIsTold` by `OutcomeInv == TypeOK /\ \A r \in Runs : RunInv(r)`: read and
  unavailable channels are together those before the position of the run, and alerts and notices
  agree with where it is.
- **Content.** `DigestsAreHonest` by `KeptInv`, `TopicInv` and `GapInv`. `TopicInv`: topics name posts of the
  digest only, a fallback block exactly one, and from the end of the summary on no post is without
  a topic. `GapInv`: `untranslated` is the number of the texts asked for that have no translation;
  the code subtracts what each answer brings, which is right only because no text waits in two
  batches and none that is translated waits at all (`BatchInv`). The lemmas say what `limitPosts`,
  `dropUnknownRefs`, `applyCoverage`, the fallback and `batchBySize` return, for any number of
  posts: `LimitIs` that as many as fit are kept, all newer than the rest, `BatchesAre` that the batches are a
  partition of what was asked for.
- **Chat.** `MessagesArriveInOrder` by `PaceInv` (`round` and `attempt` are reused by three loops and are
  zero when the notifier starts) and `ChatInv`: the chat holds the messages before the one under
  way (`IsChat`), and of each message the copies and the requests that may still be taken are together
  no more than its attempts (`RequestsIn`). A request taken late repeats a message that was or is
  under way, so whatever precedes that one is in the chat before it (`OrderFollows`); `SentKeeps`,
  `LeavingKeeps` and `TakingKeeps` are what an answer, a request given up and one taken late do.

- **Messages.** `MessagesCanBeSent`: `TopicInv` alone implies `MessagesFit`. The splitter is written with
  recursive functions over what it reads. The library's induction theorems cannot be instantiated by
  the provers, so the induction is done with sets: a set that has 0, and each n whose predecessor it
  has, has every number up to a bound (`UpTo`, by its least member outside), and likewise for
  sequences (`SeqInduct`); `Recursion` says that a recursive function up to a bound exists. On that
  rest what `FlattenSeq`, `Join` and `Lines` compute (`FlattenAppend`, `JoinMore`, `LinesConcat`:
  splitting a joined text finds the lines of its parts) and the loops of the splitter.
  `EndOfPartIs`: a part of an oversized line is not empty and ends in no entity; `CutLineIs`: its parts
  can be sent and have its letters. `PackIs`: of pieces within the limit it makes messages that can be sent,
  have the letters of the pieces in order, and hold every piece that is not empty. What can be sent is
  closed under joining, because whole lines are (`WholeConcat`, `WholeIsClosed`), and a line with a
  tag is never cut, because it is short (`TaggedIs`, `LinkLineIsGood`, by `TextAssumption`).

- **Delivery.** `RunsDeliver` and `ContentIsDelivered`: both modules implement `DigestDelivery`. A run does,
  because of all its steps only `Prepare`, `Deliver` and `DeliverLast` touch the messages, and every
  other end is a `Stop`. The content does by `SentInv` (a message is left to send while any is being sent) and
  because there is always a message: the letters of the messages are those of the blocks, and the
  header has letters whatever the topics are (`BlocksHaveLetters`, `ThereAreMessages`). That is the
  assumption under which `DigestRun` takes a size of at least one.

### What stays with TLC

- Liveness, which needs fairness and `ENABLED`: `ExpiredAttemptsGo`, `DrainEnds`, `CloseTerminates`,
  `EveryRunEnds`, `EveryReadEnds`.

A `TypeOK` that is in no configuration is a theorem (`CacheTypeCorrect`, `StoreTypeCorrect`, `RepositoryTypeCorrect`,
`AuthTypeCorrect`, `AlertTypeCorrect`, `RateLimitTypeCorrect`, `DigestTypeCorrect`, `ShutdownTypeCorrect`).

## 5. Not modelled

- The wording of messages, prompts and log lines, escaping, and surrogate pairs, which `cutLine` may
  cut in two.
- A clock that steps back (`Date.now`): windows of `RateLimitStore` would last longer.
- The reconnection of Redis (`redis-client.ts`): its commands fail or not, in `SessionRepository` and
  `ChannelPeerCache`; its two alerts are any alert of `AlertQueue`.
- Configuration, HTTP validation, boot alerts, sanitizing of alerts: tables and strings read once or
  rewritten in place, with no state and no order of events.
- GramJS, ioredis and Nest are external; they appear as the outcomes the code tells apart.

## 6. Plan

1. `SessionRepository` as the implementation of the one-step records of `SessionStore`, with its
   refinement proved. (`DigestRun` and `DigestContent` have theirs: `DigestDelivery`.)
2. A composition of `AuthFlow` with `SessionStore`, in which `Retire`, `adopt` and `JoinLogin` are one
   another's actions; today `SessionStore` has two sign-ins of one attempt by itself.
