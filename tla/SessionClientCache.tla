-------------------------- MODULE SessionClientCache --------------------------
(***************************************************************************)
(* The bounded cache of live Telegram clients, keyed by session string     *)
(* (telegram/utils/session-client-cache.ts).  The Map's insertion order is *)
(* its recency order.  Everything between two awaits is one step: an       *)
(* eviction deletes the entry, and the release of its client goes on       *)
(* (`leaving`) while other calls run.  Two destroy calls of one client     *)
(* that overlap are one release.  The identity of a client nobody refers   *)
(* to any more may stand for a client created later.                       *)
(***************************************************************************)
EXTENDS Integers, SequencesExt

CONSTANTS Keys, Clients, Callers, MaxEntries, NoClient

ASSUME CacheAssumption == /\ MaxEntries \in Nat \ {0}
                          /\ NoClient \notin Clients
                          /\ IsFiniteSet(Keys) /\ Keys # {}

VARIABLES
  entries,  \* the cached client of each key, or NoClient
  order,    \* the cached keys, least recently used first
  live,     \* clients created and not yet released
  leaving,  \* clients whose destroy() is under way
  shared,   \* keys whose client two callers have held at once
  calls     \* what each caller holds: a client to be stored, or a pending `set`

cacheVars == <<entries, order, live, leaving, shared, calls>>

Cached == {k \in Keys : entries[k] # NoClient}
CallPc == {"idle", "holding", "releasing", "dropping"}
Call == [pc : CallPc, key : Keys, client : Clients \cup {NoClient},
         awaits : Clients \cup {NoClient}]   \* the client whose release is awaited
NoCall == [pc |-> "idle", key |-> CHOOSE k \in Keys : TRUE, client |-> NoClient, awaits |-> NoClient]
Over(t) == calls' = [calls EXCEPT ![t] = NoCall]

CacheTypeOK ==
  /\ entries \in [Keys -> Clients \cup {NoClient}]
  /\ order \in Seq(Keys)
  /\ live \subseteq Clients /\ leaving \subseteq Clients /\ shared \subseteq Keys
  /\ calls \in [Callers -> Call]

CacheInit ==
  /\ entries = [k \in Keys |-> NoClient]
  /\ order = <<>>
  /\ live = {} /\ leaving = {} /\ shared = {}
  /\ calls = [t \in Callers |-> NoCall]

-------------------------------------------------------------------------------
Position(k) == CHOOSE i \in DOMAIN order : order[i] = k
Without(k) == IF k \in Cached THEN RemoveAt(order, Position(k)) ELSE order

Touch(k, c) ==
  /\ entries' = [entries EXCEPT ![k] = c]
  /\ order' = Append(Without(k), k)

\* releaseQuietly: destroy() is called; what follows it waits for Released.
Release(cs) == live' = live \ cs /\ leaving' = leaving \cup cs

Evict(k) ==
  /\ entries' = [entries EXCEPT ![k] = NoClient]
  /\ order' = Without(k)
  /\ Release({entries[k]} \ {NoClient})

\* Mutant: the clients are released and their entries stay.
EvictOldestKeepEntries(n) ==
  /\ Release({entries[order[i]] : i \in 1..n})
  /\ UNCHANGED <<entries, order>>

\* The n least recently used entries: the size ceiling takes one, the idle
\* sweep those unused for the TTL (always the oldest ones), `close` all.
EvictOldest(n) ==
  LET oldest == {order[i] : i \in 1..n}
  IN /\ entries' = [k \in Keys |-> IF k \in oldest THEN NoClient ELSE entries[k]]
     /\ order' = SubSeq(order, n + 1, Len(order))
     /\ Release({entries[k] : k \in oldest})

Full(k) == k \notin Cached /\ Len(order) >= MaxEntries
Await(t, c) == calls' = [calls EXCEPT ![t].pc = "releasing", ![t].awaits = c]

StoreNow(t) ==
  /\ Touch(calls[t].key, calls[t].client)
  /\ Over(t)
  /\ UNCHANGED <<live, leaving>>

\* Mutant: an `if` in place of the `while`.
MakeRoomOnce(t) ==
  IF Full(calls[t].key) /\ calls[t].pc = "holding"
  THEN EvictOldest(1) /\ Await(t, entries[order[1]])
  ELSE StoreNow(t)

\* One turn of the `while` of `set`, and the final touch when it ends.
MakeRoomOrStore(t) ==
  IF Full(calls[t].key)
  THEN EvictOldest(1) /\ Await(t, entries[order[1]])
  ELSE StoreNow(t)

-------------------------------------------------------------------------------
Get(k) ==
  /\ k \in Cached
  /\ Touch(k, entries[k])
  /\ UNCHANGED <<live, leaving, shared, calls>>

\* Nothing refers to c: it may stand for a client that is created now.
Fresh(c) == /\ c \notin live \cup leaving
            /\ \A k \in Keys : entries[k] # c
            /\ \A t \in Callers : calls[t].client # c /\ calls[t].awaits # c

\* A caller creates a client of its own for k; it may give it up (destroy it).
Open(t, k, c) ==
  /\ calls[t].pc = "idle"
  /\ Fresh(c)
  /\ live' = live \cup {c}
  /\ calls' = [calls EXCEPT ![t] =
       [pc |-> "holding", key |-> k, client |-> c, awaits |-> NoClient]]
  /\ UNCHANGED <<entries, order, leaving, shared>>

\* Another caller takes the client t holds: each will store it or give it up.
Share(t, u) ==
  /\ calls[t].pc = "holding" /\ calls[u].pc = "idle"
  /\ calls' = [calls EXCEPT ![u] = calls[t]]
  /\ shared' = shared \cup {calls[t].key}
  /\ UNCHANGED <<entries, order, live, leaving>>

GiveUp(t) ==
  /\ calls[t].pc = "holding"
  /\ Release({calls[t].client})
  /\ calls' = [calls EXCEPT ![t].pc = "dropping"]
  /\ UNCHANGED <<entries, order, shared>>

GaveUp(t) ==
  /\ calls[t].pc = "dropping" /\ calls[t].client \notin leaving
  /\ Over(t)
  /\ UNCHANGED <<entries, order, live, leaving, shared>>

SetCall(t) ==
  LET k == calls[t].key
  IN /\ calls[t].pc = "holding"
     /\ IF entries[k] \notin {NoClient, calls[t].client}
        THEN Evict(k) /\ Await(t, entries[k])
        ELSE MakeRoomOrStore(t)
     /\ UNCHANGED shared

SetResume(t) ==
  /\ calls[t].pc = "releasing" /\ calls[t].awaits \notin leaving
  /\ MakeRoomOrStore(t)
  /\ UNCHANGED shared

EvictKey(k) ==
  /\ k \in Cached
  /\ Evict(k)
  /\ UNCHANGED <<shared, calls>>

SweepIdle ==
  /\ \E n \in 1..Len(order) : EvictOldest(n)
  /\ UNCHANGED <<shared, calls>>

\* The destroy() of c has returned: whoever awaits it may go on.
Released(c) ==
  /\ c \in leaving
  /\ leaving' = leaving \ {c}
  /\ UNCHANGED <<entries, order, live, shared, calls>>

\* The process restarts: everything above is in its memory.
Forget ==
  /\ entries' = [k \in Keys |-> NoClient]
  /\ order' = <<>>
  /\ live' = {} /\ leaving' = {} /\ shared' = {}
  /\ calls' = [t \in Callers |-> NoCall]

CacheNext ==
  \/ \E k \in Keys : Get(k) \/ EvictKey(k)
  \/ \E t \in Callers : SetCall(t) \/ SetResume(t) \/ GiveUp(t) \/ GaveUp(t)
  \/ \E t, u \in Callers : Share(t, u)
  \/ \E t \in Callers, k \in Keys, c \in Clients : Open(t, k, c)
  \/ \E c \in Clients : Released(c)
  \/ SweepIdle
  \/ Forget

CacheSpec == CacheInit /\ [][CacheNext]_cacheVars

-------------------------------------------------------------------------------
\* The recency list holds each cached key exactly once, so the eviction
\* candidate of the size ceiling is always an entry of the cache.
OrderMatchesEntries == IsInjective(order) /\ ToSet(order) = Cached

\* However many `set` calls await a release at once, the cache never holds
\* more than MaxEntries clients (session-client-cache.ts:56).
SizeBound == Cardinality(Cached) <= MaxEntries

\* No client is cached twice, and a cached client has not been released, by an
\* eviction or by whoever opened it: only a client that two sign-ins of one
\* attempt have shared may be released by one of them while it is cached
\* (auth.service.ts:221-224), or be cached by one after its release.
CachedClientsAreLive ==
  /\ \A k \in Cached : entries[k] \in live \/ k \in shared
  /\ \A k, j \in Cached : entries[k] = entries[j] => k = j
===============================================================================
