-------------------------- MODULE SessionStore_proofs -------------------------
(***************************************************************************)
(* The cache of session clients and the store that uses it, for any number *)
(* of sessions, requests, tasks and clients.  Three parts, each resting on *)
(* the one before:                                                         *)
(*  - the cache alone: its ceiling, its recency order and the liveness of  *)
(*    the clients it serves, whoever calls it (CacheInv);                  *)
(*  - the store is one of the users the cache allows for, so that what is  *)
(*    proved of the cache holds of the store (StoreInv);                   *)
(*  - the life of a session: what becomes of a client, who waits for a     *)
(*    restore, and what a refusal rests on (LifeInv).                      *)
(***************************************************************************)
EXTENDS SessionStore, SequenceTheorems, FiniteSetTheorems, TLAPS

(* 1. The cache. *)

\* Everything the steps keep: the types, the recency order, its length, and
\* that a client is of one key, and of one holder unless two callers share it.
OrderInv ==
  /\ entries \in [Keys -> Clients \cup {NoClient}]
  /\ order \in Seq(Keys)
  /\ OrderMatchesEntries
  /\ Len(order) <= MaxEntries

Held(t) == calls[t].pc # "idle"
Storing(t) == calls[t].pc \in {"holding", "releasing"}

HolderInv ==
  /\ live \subseteq Clients /\ leaving \subseteq Clients /\ shared \subseteq Keys
  /\ calls \in [Callers -> Call]
  /\ CachedClientsAreLive
  /\ \A t \in Callers : Held(t) => calls[t].client \in Clients
  /\ \A t \in Callers : Storing(t) => calls[t].client \in live \/ calls[t].key \in shared
  /\ \A t \in Callers, k \in Cached : Held(t) /\ calls[t].client = entries[k] =>
       k = calls[t].key /\ k \in shared
  /\ \A t, u \in Callers : Held(t) /\ Held(u) /\ calls[t].client = calls[u].client =>
       calls[t].key = calls[u].key /\ (t = u \/ calls[t].key \in shared)

CacheInv == OrderInv /\ HolderInv

-------------------------------------------------------------------------------
\* Taking a key out of the recency order removes that key and nothing else.
LEMMA WithoutKey ==
  ASSUME OrderInv, NEW k \in Keys
  PROVE  /\ Without(k) \in Seq(Keys)
         /\ IsInjective(Without(k))
         /\ ToSet(Without(k)) = Cached \ {k}
         /\ Len(Without(k)) = IF k \in Cached THEN Len(order) - 1 ELSE Len(order)
<1> DEFINE p == Position(k)
           n == Len(order)
           w == Without(k)
<1>1. /\ order \in Seq(Keys) /\ n \in Nat /\ DOMAIN order = 1..n
      /\ \A i, j \in 1..n : order[i] = order[j] => i = j
      /\ \A i \in 1..n : order[i] \in Cached /\ order[i] \in Keys
      /\ \A j \in Cached : \E i \in 1..n : order[i] = j
  BY DEF OrderInv, OrderMatchesEntries, IsInjective, ToSet
<1>2. CASE k \notin Cached
  BY <1>1, <1>2 DEF Without, OrderInv, OrderMatchesEntries
<1>3. CASE k \in Cached
  <2>1. p \in 1..n /\ order[p] = k
    BY <1>1, <1>3 DEF Position
  <2> HIDE DEF p, n
  <2> DEFINE a == SubSeq(order, 1, p - 1)
             b == SubSeq(order, p + 1, n)
  <2>2. a \in Seq(Keys) /\ Len(a) = p - 1 /\ \A i \in 1..(p - 1) : a[i] = order[i]
    BY <1>1, <2>1, SubSeqProperties
  <2>3. b \in Seq(Keys) /\ Len(b) = n - p /\ \A i \in 1..(n - p) : b[i] = order[p + i]
    BY <1>1, <2>1, SubSeqProperties
  <2>4. w = a \o b
    BY <1>3 DEF Without, RemoveAt, p, n
  <2> HIDE DEF a, b, w
  <2>5. /\ w \in Seq(Keys) /\ Len(w) = n - 1
        /\ \A i \in 1..(n - 1) : w[i] = IF i < p THEN order[i] ELSE order[i + 1]
    <3>1. /\ w \in Seq(Keys) /\ Len(w) = (p - 1) + (n - p)
          /\ \A i \in 1..((p - 1) + (n - p)) : w[i] = IF i <= p - 1 THEN a[i] ELSE b[i - (p - 1)]
      BY <2>2, <2>3, <2>4, ConcatProperties
    <3>2. (p - 1) + (n - p) = n - 1
      BY <1>1, <2>1
    <3>3. ASSUME NEW i \in 1..(n - 1) PROVE w[i] = IF i < p THEN order[i] ELSE order[i + 1]
      <4>1. CASE i < p
        <5>1. i \in 1..(p - 1) /\ i <= p - 1 /\ i \in 1..((p - 1) + (n - p))
          BY <1>1, <2>1, <3>2, <3>3, <4>1
        <5>2. w[i] = a[i]
          BY <3>1, <5>1
        <5>3. a[i] = order[i]
          BY <2>2, <5>1
        <5> QED
          BY <1>1, <2>1, <3>3, <4>1, <5>2, <5>3
      <4>2. CASE i >= p
        <5>1. i - (p - 1) \in 1..(n - p) /\ p + (i - (p - 1)) = i + 1 /\ ~(i <= p - 1)
          BY <1>1, <2>1, <3>3, <4>2
        <5>2. w[i] = b[i - (p - 1)]
          BY <3>1, <3>2, <3>3, <5>1
        <5>3. b[i - (p - 1)] = order[i + 1]
          BY <2>3, <5>1
        <5> QED
          BY <1>1, <2>1, <3>3, <4>2, <5>2, <5>3
      <4> QED
        BY <1>1, <2>1, <4>1, <4>2
    <3> QED
      BY <3>1, <3>2, <3>3
  <2>6. IsInjective(w)
    <3>1. \A x, y \in 1..n : order[x] = order[y] => x = y
      BY <1>1 DEF IsInjective
    <3>2. ASSUME NEW i \in 1..(n - 1), NEW j \in 1..(n - 1), w[i] = w[j] PROVE i = j
      <4> DEFINE from(x) == IF x < p THEN x ELSE x + 1
      <4>1. from(i) \in 1..n /\ from(j) \in 1..n
        BY <1>1, <2>1
      <4>2. w[i] = order[from(i)] /\ w[j] = order[from(j)]
        BY <2>5
      <4>3. from(i) = from(j)
        BY <3>1, <3>2, <4>1, <4>2
      <4> QED
        BY <1>1, <2>1, <4>3
    <3>3. DOMAIN w = 1..(n - 1)
      BY <2>5
    <3> QED
      BY <3>2, <3>3 DEF IsInjective
  <2>7. ToSet(w) = Cached \ {k}
    <3>1. DOMAIN w = 1..(n - 1)
      BY <2>5
    <3>2. ASSUME NEW i \in 1..(n - 1) PROVE w[i] \in Cached \ {k}
      BY <1>1, <2>1, <2>5, <3>2
    <3>3. ASSUME NEW j \in Cached \ {k} PROVE \E i \in 1..(n - 1) : w[i] = j
      <4>1. PICK i \in 1..n : order[i] = j
        BY <1>1
      <4>2. i # p
        BY <2>1, <4>1
      <4>3. CASE i < p
        BY <1>1, <2>1, <2>5, <4>1, <4>3
      <4>4. CASE i > p
        <5>1. i - 1 \in 1..(n - 1) /\ ~(i - 1 < p) /\ (i - 1) + 1 = i
          BY <1>1, <2>1, <4>1, <4>4
        <5> QED
          BY <2>5, <4>1, <5>1
      <4> QED
        BY <1>1, <2>1, <4>2, <4>3, <4>4
    <3> QED
      BY <3>1, <3>2, <3>3 DEF ToSet
  <2> QED
    BY <1>3, <2>5, <2>6, <2>7 DEF w, n
<1> QED
  BY <1>2, <1>3

\* Storing or using a key makes it the newest; the order grows by at most one.
LEMMA TouchKeeps ==
  ASSUME OrderInv, NEW k \in Keys, NEW c \in Clients, Touch(k, c), ~Full(k)
  PROVE  OrderInv'
<1> DEFINE w == Without(k)
<1>1. /\ w \in Seq(Keys) /\ IsInjective(w) /\ ToSet(w) = Cached \ {k}
      /\ Len(w) = IF k \in Cached THEN Len(order) - 1 ELSE Len(order)
  BY WithoutKey
<1>2. order' = Append(w, k) /\ entries' = [entries EXCEPT ![k] = c]
  BY DEF Touch
<1> HIDE DEF w
<1>3. /\ order' \in Seq(Keys) /\ Len(order') = Len(w) + 1 /\ Len(w) \in Nat
      /\ \A i \in 1..Len(w) : order'[i] = w[i]
      /\ order'[Len(w) + 1] = k
  BY <1>1, <1>2, AppendProperties
<1>4. Cached' = Cached \cup {k}
  BY <1>2, CacheAssumption DEF Cached, OrderInv
<1>5. k \notin ToSet(w)
  BY <1>1
<1>6. DOMAIN w = 1..Len(w) /\ DOMAIN order' = 1..(Len(w) + 1)
  BY <1>1, <1>3
<1>7. IsInjective(order')
  BY <1>1, <1>3, <1>5, <1>6 DEF IsInjective, ToSet
<1>8. ToSet(order') = ToSet(w) \cup {k}
  BY <1>3, <1>6 DEF ToSet
<1>9. Len(order') <= MaxEntries
  BY <1>1, <1>3, CacheAssumption DEF OrderInv, Full
<1> QED
  BY <1>1, <1>2, <1>3, <1>4, <1>7, <1>8, <1>9 DEF OrderInv, OrderMatchesEntries

LEMMA EvictKeeps ==
  ASSUME OrderInv, NEW k \in Keys, Evict(k)
  PROVE  OrderInv' /\ Cached' = Cached \ {k}
<1>1. /\ Without(k) \in Seq(Keys) /\ IsInjective(Without(k)) /\ ToSet(Without(k)) = Cached \ {k}
      /\ Len(Without(k)) <= Len(order)
  BY WithoutKey DEF OrderInv
<1>2. Cached' = Cached \ {k}
  BY DEF Evict, Cached, OrderInv
<1> QED
  BY <1>1, <1>2, CacheAssumption DEF Evict, OrderInv, OrderMatchesEntries

\* Evicting the oldest entries leaves the tail of the order.
LEMMA EvictOldestKeeps ==
  ASSUME OrderInv, NEW n \in 1..Len(order), EvictOldest(n)
  PROVE  /\ OrderInv'
         /\ Cached' = Cached \ {order[i] : i \in 1..n}
         /\ {order[i] : i \in 1..n} \subseteq Cached
<1> DEFINE m == Len(order)
           s == SubSeq(order, n + 1, m)
           oldest == {order[i] : i \in 1..n}
<1>1. /\ order \in Seq(Keys) /\ m \in Nat /\ DOMAIN order = 1..m /\ n \in 1..m
      /\ \A i, j \in 1..m : order[i] = order[j] => i = j
      /\ \A i \in 1..m : order[i] \in Keys
      /\ Cached = {order[i] : i \in 1..m}
  BY DEF OrderInv, OrderMatchesEntries, IsInjective, ToSet
<1>2. s \in Seq(Keys) /\ Len(s) = m - n /\ \A i \in 1..(m - n) : s[i] = order[n + i]
  <2>1. n \in Nat /\ m \in Nat /\ n <= m
    BY <1>1
  <2> HIDE DEF m
  <2> DEFINE first == n + 1
  <2>2. first \in Int /\ m \in Int /\ \A i \in first..m : order[i] \in Keys
    BY <1>1, <2>1
  <2>3. /\ s \in Seq(Keys)
        /\ Len(s) = IF first <= m THEN m - first + 1 ELSE 0
        /\ \A i \in 1..(m - first + 1) : s[i] = order[first + i - 1]
    <3> s = SubSeq(order, first, m)
      OBVIOUS
    <3> HIDE DEF s, first
    <3> QED
      BY <2>2, SubSeqProperties
  <2>4. m - (n + 1) + 1 = m - n /\ (m - n = 0 \/ n + 1 <= m)
    BY <2>1
  <2>5. \A i \in 1..(m - n) : (n + 1) + i - 1 = n + i
    BY <2>1
  <2> QED
    BY <2>1, <2>3, <2>4, <2>5
<1>3. order' = s /\ entries' = [k \in Keys |-> IF k \in oldest THEN NoClient ELSE entries[k]]
  BY DEF EvictOldest
<1> HIDE DEF m, s
<1>4. Cached' = Cached \ oldest
  BY <1>3 DEF Cached
<1>5. DOMAIN s = 1..(m - n)
  BY <1>1, <1>2
<1>6. IsInjective(s)
  BY <1>1, <1>2, <1>5 DEF IsInjective
<1>7. ToSet(s) = Cached \ oldest
  <2>1. ASSUME NEW i \in 1..(m - n) PROVE s[i] \in Cached \ oldest
    BY <1>1, <1>2, <2>1
  <2>2. ASSUME NEW k \in Cached \ oldest PROVE \E i \in 1..(m - n) : s[i] = k
    <3>1. PICK j \in 1..m : order[j] = k
      BY <1>1
    <3>2. j > n
      BY <1>1, <3>1
    <3>3. j - n \in 1..(m - n) /\ n + (j - n) = j
      BY <1>1, <3>1, <3>2
    <3> QED
      BY <1>2, <3>1, <3>3
  <2> QED
    BY <1>5, <2>1, <2>2 DEF ToSet
<1>8. Len(s) <= MaxEntries
  BY <1>1, <1>2, CacheAssumption DEF OrderInv, m
<1>9. entries' \in [Keys -> Clients \cup {NoClient}]
  BY <1>3 DEF OrderInv
<1>10. oldest \subseteq Cached
  BY <1>1
<1> QED
  BY <1>2, <1>3, <1>4, <1>6, <1>7, <1>8, <1>9, <1>10 DEF OrderInv, OrderMatchesEntries

-------------------------------------------------------------------------------
LEMMA NoCallRests ==
  NoCall \in Call /\ NoCall.pc = "idle" /\ NoCall.client = NoClient
<1>1. (CHOOSE k \in Keys : TRUE) \in Keys
  BY CacheAssumption
<1> QED
  BY <1>1 DEF NoCall, Call, CallPc

\* Entries that leave the cache take their clients out of `live`, and nobody
\* else's: the callers keep what they hold.
LEMMA EvictionKeepsHolders ==
  ASSUME HolderInv, NEW gone \in SUBSET Cached,
         \A k \in Cached : entries[k] \in Clients,
         Cached' = Cached \ gone, \A j \in Cached' : entries'[j] = entries[j],
         live' = live \ {entries[k] : k \in gone},
         leaving' = leaving \cup {entries[k] : k \in gone},
         shared' = shared, calls' \in [Callers -> Call],
         \A t \in Callers :
           /\ calls'[t].client = calls[t].client /\ calls'[t].key = calls[t].key
           /\ Held(t)' => Held(t)
           /\ Storing(t)' => Storing(t)
  PROVE  HolderInv'
<1>1. live' \subseteq Clients /\ leaving' \subseteq Clients
  BY DEF HolderInv
<1>2. CachedClientsAreLive'
  BY DEF HolderInv, CachedClientsAreLive
<1>3. \A t \in Callers : Storing(t)' => calls'[t].client \in live' \/ calls'[t].key \in shared'
  <2> SUFFICES ASSUME NEW t \in Callers, Storing(t)', calls[t].key \notin shared
               PROVE  calls[t].client \in live'
    OBVIOUS
  <2>1. calls[t].client \in live /\ Held(t)
    BY DEF HolderInv, Storing, Held
  <2>2. \A k \in gone : entries[k] # calls[t].client
    BY <2>1 DEF HolderInv
  <2> QED
    BY <2>1, <2>2
<1>4. \A t \in Callers, k \in Cached' : Held(t)' /\ calls'[t].client = entries'[k] =>
        k = calls'[t].key /\ k \in shared'
  BY DEF HolderInv
<1>5. \A t, u \in Callers : Held(t)' /\ Held(u)' /\ calls'[t].client = calls'[u].client =>
        calls'[t].key = calls'[u].key /\ (t = u \/ calls'[t].key \in shared')
  BY DEF HolderInv
<1>6. \A t \in Callers : Held(t)' => calls'[t].client \in Clients
  BY DEF HolderInv
<1> QED
  BY <1>1, <1>2, <1>3, <1>4, <1>5, <1>6 DEF HolderInv

\* A caller that waits for a release goes on holding what it held.
LEMMA AwaitKeeps ==
  ASSUME HolderInv, NEW t \in Callers, NEW c \in Clients, Storing(t), Await(t, c)
  PROVE  /\ calls' \in [Callers -> Call]
         /\ calls'[t].pc = "releasing"
         /\ \A u \in Callers \ {t} : calls'[u] = calls[u]
         /\ \A u \in Callers :
              /\ calls'[u].client = calls[u].client /\ calls'[u].key = calls[u].key
              /\ Held(u)' => Held(u)
              /\ Storing(u)' => Storing(u)
<1>1. calls' = [calls EXCEPT ![t].pc = "releasing", ![t].awaits = c] /\ calls \in [Callers -> Call]
  BY DEF Await, HolderInv
<1>2. calls[t] \in Call
  BY <1>1
<1>3. /\ calls'[t] \in Call /\ calls'[t].pc = "releasing"
      /\ calls'[t].client = calls[t].client /\ calls'[t].key = calls[t].key
  <2>1. calls'[t] = [pc |-> "releasing", key |-> calls[t].key, client |-> calls[t].client, awaits |-> c]
    BY <1>1, <1>2 DEF Call
  <2> QED
    BY <1>2, <2>1 DEF Call, CallPc
<1>4. \A u \in Callers \ {t} : calls'[u] = calls[u]
  BY <1>1
<1>5. calls' \in [Callers -> Call]
  BY <1>1, <1>3, <1>4
<1> QED
  BY <1>3, <1>4, <1>5 DEF Held, Storing

LEMMA EvictOldestHolders ==
  ASSUME CacheInv, NEW n \in 1..Len(order), EvictOldest(n),
         shared' = shared, calls' \in [Callers -> Call],
         \A t \in Callers :
           /\ calls'[t].client = calls[t].client /\ calls'[t].key = calls[t].key
           /\ Held(t)' => Held(t)
           /\ Storing(t)' => Storing(t)
  PROVE  CacheInv'
<1> DEFINE oldest == {order[i] : i \in 1..n}
<1>1. OrderInv' /\ Cached' = Cached \ oldest /\ oldest \subseteq Cached
  BY EvictOldestKeeps DEF CacheInv
<1>2. /\ live' = live \ {entries[k] : k \in oldest}
      /\ leaving' = leaving \cup {entries[k] : k \in oldest}
      /\ \A j \in Cached' : entries'[j] = entries[j]
  BY <1>1 DEF EvictOldest, Release, Cached
<1>3. \A k \in Cached : entries[k] \in Clients
  BY DEF CacheInv, OrderInv, Cached
<1> HIDE DEF oldest
<1>4. HolderInv'
  BY <1>1, <1>2, <1>3, EvictionKeepsHolders DEF CacheInv
<1> QED
  BY <1>1, <1>4 DEF CacheInv

LEMMA EvictHolders ==
  ASSUME CacheInv, NEW k \in Keys, k \in Cached, Evict(k),
         shared' = shared, calls' \in [Callers -> Call],
         \A t \in Callers :
           /\ calls'[t].client = calls[t].client /\ calls'[t].key = calls[t].key
           /\ Held(t)' => Held(t)
           /\ Storing(t)' => Storing(t)
  PROVE  CacheInv'
<1>1. OrderInv' /\ Cached' = Cached \ {k}
  BY EvictKeeps DEF CacheInv
<1>2. entries[k] # NoClient /\ \A j \in Cached : entries[j] \in Clients
  BY DEF CacheInv, OrderInv, Cached
<1>3. /\ live' = live \ {entries[j] : j \in {k}}
      /\ leaving' = leaving \cup {entries[j] : j \in {k}}
      /\ \A j \in Cached' : entries'[j] = entries[j]
  BY <1>1, <1>2 DEF Evict, Release, CacheInv, OrderInv, Cached
<1>4. HolderInv'
  BY <1>1, <1>2, <1>3, EvictionKeepsHolders DEF CacheInv
<1> QED
  BY <1>1, <1>4 DEF CacheInv

\* The final touch of `set`.
LEMMA StoreNowKeeps ==
  ASSUME CacheInv, NEW t \in Callers, Storing(t), StoreNow(t), ~Full(calls[t].key), shared' = shared
  PROVE  CacheInv'
<1> DEFINE k == calls[t].key
           c == calls[t].client
<1>1. k \in Keys /\ c \in Clients /\ Held(t) /\ (c \in live \/ k \in shared)
  BY DEF CacheInv, HolderInv, Call, Held, Storing
<1>2. /\ Touch(k, c) /\ calls' = [calls EXCEPT ![t] = NoCall]
      /\ live' = live /\ leaving' = leaving
  BY DEF StoreNow, Over
<1>3. OrderInv'
  BY <1>1, <1>2, TouchKeeps DEF CacheInv
<1>4. entries' = [entries EXCEPT ![k] = c] /\ Cached' = Cached \cup {k}
  BY <1>1, <1>2, CacheAssumption DEF Touch, Cached, CacheInv, OrderInv
<1>5. entries'[k] = c /\ \A j \in Cached' \ {k} : j \in Cached /\ entries'[j] = entries[j]
  BY <1>1, <1>4 DEF CacheInv, OrderInv, Cached
<1>6. /\ calls' \in [Callers -> Call] /\ calls'[t].pc = "idle"
      /\ \A u \in Callers \ {t} : calls'[u] = calls[u]
  BY <1>2, NoCallRests DEF CacheInv, HolderInv
<1>7. CachedClientsAreLive'
  <2>1. \A j \in Cached' : entries'[j] \in live' \/ j \in shared'
    BY <1>1, <1>2, <1>5 DEF CacheInv, HolderInv, CachedClientsAreLive
  <2>2. \A j \in Cached' \ {k} : entries'[j] # c
    BY <1>1, <1>5 DEF CacheInv, HolderInv
  <2>3. \A j, i \in Cached' \ {k} : entries'[i] = entries'[j] => i = j
    BY <1>5 DEF CacheInv, HolderInv, CachedClientsAreLive
  <2> QED
    BY <1>5, <2>1, <2>2, <2>3 DEF CachedClientsAreLive
<1>8. \A u \in Callers : Held(u)' => u # t /\ Held(u) /\ calls'[u] = calls[u]
  BY <1>6 DEF Held
<1>9. \A u \in Callers, j \in Cached' : Held(u)' /\ calls'[u].client = entries'[j] =>
        j = calls'[u].key /\ j \in shared'
  <2> SUFFICES ASSUME NEW u \in Callers, NEW j \in Cached', Held(u)', calls'[u].client = entries'[j]
               PROVE  j = calls'[u].key /\ j \in shared'
    OBVIOUS
  <2>1. u # t /\ Held(u) /\ calls'[u] = calls[u]
    BY <1>8
  <2>2. CASE j = k
    BY <1>1, <1>5, <2>1, <2>2 DEF CacheInv, HolderInv
  <2>3. CASE j # k
    BY <1>5, <2>1, <2>3 DEF CacheInv, HolderInv
  <2> QED
    BY <2>2, <2>3
<1>10. \A u \in Callers : Storing(u)' => calls'[u].client \in live' \/ calls'[u].key \in shared'
  BY <1>2, <1>6 DEF CacheInv, HolderInv, Storing
<1>11. \A u, v \in Callers : Held(u)' /\ Held(v)' /\ calls'[u].client = calls'[v].client =>
        calls'[u].key = calls'[v].key /\ (u = v \/ calls'[u].key \in shared')
  BY <1>8 DEF CacheInv, HolderInv
<1>12. \A u \in Callers : Held(u)' => calls'[u].client \in Clients
  BY <1>8 DEF CacheInv, HolderInv
<1>13. HolderInv'
  BY <1>2, <1>6, <1>7, <1>9, <1>10, <1>11, <1>12 DEF CacheInv, HolderInv
<1> QED
  BY <1>3, <1>13 DEF CacheInv

\* One turn of the loop of `set`, by the caller t that holds its client.
LEMMA MakeRoomOrStoreKeeps ==
  ASSUME CacheInv, NEW t \in Callers, Storing(t), MakeRoomOrStore(t), shared' = shared
  PROVE  CacheInv'
<1>1. CASE Full(calls[t].key)
  <2>1. EvictOldest(1) /\ Await(t, entries[order[1]])
    BY <1>1 DEF MakeRoomOrStore
  <2>2. 1 \in 1..Len(order)
    BY <1>1, CacheAssumption DEF Full, CacheInv, OrderInv
  <2>3. order[1] \in Cached
    BY <2>2 DEF CacheInv, OrderInv, OrderMatchesEntries, ToSet
  <2>4. entries[order[1]] \in Clients
    BY <2>3 DEF CacheInv, OrderInv, Cached
  <2> QED
    BY <2>1, <2>2, <2>4, AwaitKeeps, EvictOldestHolders DEF CacheInv
<1>2. CASE ~Full(calls[t].key)
  BY <1>2, StoreNowKeeps DEF MakeRoomOrStore
<1> QED
  BY <1>1, <1>2

LEMMA CacheInvInit == CacheInit => CacheInv
<1> SUFFICES ASSUME CacheInit PROVE CacheInv
  OBVIOUS
<1>1. Cached = {}
  BY DEF CacheInit, Cached
<1>2. OrderInv
  BY <1>1, CacheAssumption DEF CacheInit, OrderInv, OrderMatchesEntries, IsInjective, ToSet
<1>3. calls \in [Callers -> Call] /\ \A t \in Callers : calls[t].pc = "idle"
  BY NoCallRests DEF CacheInit
<1>4. HolderInv
  BY <1>1, <1>3 DEF CacheInit, HolderInv, CachedClientsAreLive, Held, Storing
<1> QED
  BY <1>2, <1>4 DEF CacheInv

\* A new process starts like the first one.
LEMMA ForgetKeeps == Forget => CacheInv'
<1> SUFFICES ASSUME Forget PROVE CacheInv'
  OBVIOUS
<1>1. Cached' = {}
  BY DEF Forget, Cached
<1>2. OrderInv'
  BY <1>1, CacheAssumption DEF Forget, OrderInv, OrderMatchesEntries, IsInjective, ToSet
<1>3. calls' \in [Callers -> Call] /\ \A t \in Callers : calls'[t].pc = "idle"
  BY NoCallRests DEF Forget
<1>4. HolderInv'
  BY <1>1, <1>3 DEF Forget, HolderInv, CachedClientsAreLive, Held, Storing
<1> QED
  BY <1>2, <1>4 DEF CacheInv

\* Calls of the cache's users that leave its entries alone.
LEMMA HandsKeep ==
  ASSUME CacheInv, NEW t \in Callers,
         \/ GiveUp(t) \/ GaveUp(t)
         \/ \E u \in Callers : Share(t, u)
         \/ \E k \in Keys, c \in Clients : Open(t, k, c)
  PROVE  CacheInv'
<1>1. entries' = entries /\ order' = order
  BY DEF GiveUp, GaveUp, Share, Open
<1>2. OrderInv' /\ Cached' = Cached
  BY <1>1 DEF CacheInv, OrderInv, OrderMatchesEntries, Cached
<1>3. \A k \in Cached : entries[k] \in Clients
  BY DEF CacheInv, OrderInv, Cached
<1> USE DEF CacheInv
<1>4. CASE GiveUp(t)
  <2>1. /\ calls[t].pc = "holding" /\ live' = live \ {calls[t].client} /\ shared' = shared
        /\ leaving' = leaving \cup {calls[t].client}
        /\ calls' = [calls EXCEPT ![t].pc = "dropping"]
    BY <1>4 DEF GiveUp, Release
  <2>2. /\ calls' \in [Callers -> Call] /\ calls'[t].pc = "dropping"
        /\ \A u \in Callers : /\ calls'[u].client = calls[u].client /\ calls'[u].key = calls[u].key
                              /\ Held(u)' <=> Held(u)
                              /\ Storing(u)' => Storing(u) /\ u # t
    BY <2>1 DEF HolderInv, Call, CallPc, Held, Storing
  <2>3. Held(t) /\ calls[t].client \in Clients
    BY <2>1 DEF HolderInv, Held
  <2>4. CachedClientsAreLive'
    BY <1>1, <1>2, <2>1, <2>3 DEF HolderInv, CachedClientsAreLive
  <2>5. \A u \in Callers : Storing(u)' => calls'[u].client \in live' \/ calls'[u].key \in shared'
    <3> SUFFICES ASSUME NEW u \in Callers, Storing(u)', calls[u].key \notin shared
                 PROVE  calls[u].client \in live'
      BY <2>1, <2>2
    <3>1. u # t /\ Held(u) /\ calls[u].client \in live
      BY <2>2 DEF HolderInv, Storing, Held
    <3>2. calls[u].client # calls[t].client
      BY <2>3, <3>1 DEF HolderInv
    <3> QED
      BY <2>1, <3>1, <3>2
  <2>6. HolderInv'
    BY <1>1, <1>2, <2>1, <2>2, <2>3, <2>4, <2>5 DEF HolderInv
  <2> QED
    BY <1>2, <2>6
<1>5. CASE GaveUp(t)
  <2>1. calls' = [calls EXCEPT ![t] = NoCall] /\ UNCHANGED <<live, leaving, shared>>
    BY <1>5 DEF GaveUp, Over
  <2>2. /\ calls' \in [Callers -> Call] /\ calls'[t].pc = "idle"
        /\ \A u \in Callers \ {t} : calls'[u] = calls[u]
    BY <2>1, NoCallRests DEF HolderInv
  <2>3. HolderInv'
    BY <1>1, <1>2, <2>1, <2>2 DEF HolderInv, CachedClientsAreLive, Held, Storing
  <2> QED
    BY <1>2, <2>3
<1>6. ASSUME NEW u \in Callers, Share(t, u) PROVE CacheInv'
  <2>1. /\ calls[t].pc = "holding" /\ calls[u].pc = "idle" /\ calls' = [calls EXCEPT ![u] = calls[t]]
        /\ shared' = shared \cup {calls[t].key} /\ live' = live /\ leaving' = leaving
        /\ calls[t].key \in Keys
    BY <1>6 DEF Share, HolderInv, Call
  <2>2. /\ calls' \in [Callers -> Call] /\ calls'[u] = calls[t] /\ calls'[t] = calls[t]
        /\ \A v \in Callers \ {u} : calls'[v] = calls[v]
    BY <2>1 DEF HolderInv
  <2>3. CachedClientsAreLive' /\ shared' \subseteq Keys
    BY <1>1, <1>2, <2>1 DEF HolderInv, CachedClientsAreLive
  <2> DEFINE old(v) == IF v = u THEN t ELSE v
  <2>4. \A v \in Callers : /\ old(v) \in Callers /\ calls'[v] = calls[old(v)]
                           /\ (Held(v)' => Held(old(v))) /\ (Storing(v)' => Storing(old(v)))
    BY <2>2 DEF Held, Storing
  <2> HIDE DEF old
  <2>5. \A v, w \in Callers : Held(v)' /\ Held(w)' /\ calls'[v].client = calls'[w].client =>
          calls'[v].key = calls'[w].key /\ (v = w \/ calls'[v].key \in shared')
    <3> SUFFICES ASSUME NEW v \in Callers, NEW w \in Callers, Held(v)', Held(w)',
                        calls'[v].client = calls'[w].client
                 PROVE  calls'[v].key = calls'[w].key /\ (v = w \/ calls'[v].key \in shared')
      OBVIOUS
    <3>1. /\ calls'[v].key = calls'[w].key
          /\ old(v) = old(w) \/ calls'[v].key \in shared
      BY <2>4 DEF HolderInv
    <3>2. old(v) = old(w) => v = w \/ calls'[v] = calls[t]
      BY <2>4 DEF old
    <3> QED
      BY <2>1, <3>1, <3>2
  <2>6. \A v \in Callers, k \in Cached' : Held(v)' /\ calls'[v].client = entries'[k] =>
          k = calls'[v].key /\ k \in shared'
    BY <1>1, <1>2, <2>1, <2>4 DEF HolderInv
  <2>7. \A v \in Callers : /\ Held(v)' => calls'[v].client \in Clients
                           /\ Storing(v)' => calls'[v].client \in live' \/ calls'[v].key \in shared'
    BY <2>1, <2>4 DEF HolderInv
  <2>8. HolderInv'
    BY <2>1, <2>2, <2>3, <2>5, <2>6, <2>7 DEF HolderInv
  <2> QED
    BY <1>2, <2>8
<1>7. ASSUME NEW k \in Keys, NEW c \in Clients, Open(t, k, c) PROVE CacheInv'
  <2>1. /\ Fresh(c) /\ live' = live \cup {c} /\ leaving' = leaving /\ shared' = shared
        /\ calls' = [calls EXCEPT ![t] = [pc |-> "holding", key |-> k, client |-> c, awaits |-> NoClient]]
    BY <1>7 DEF Open
  <2>2. /\ calls' \in [Callers -> Call]
        /\ calls'[t].pc = "holding" /\ calls'[t].key = k /\ calls'[t].client = c
        /\ \A u \in Callers \ {t} : calls'[u] = calls[u]
    BY <2>1 DEF HolderInv, Call, CallPc
  <2>3. (\A j \in Cached : entries[j] # c) /\ (\A u \in Callers : calls[u].client # c)
    BY <2>1 DEF Fresh, Cached
  <2>4. CachedClientsAreLive'
    BY <1>1, <1>2, <2>1 DEF HolderInv, CachedClientsAreLive
  <2>5. \A v, w \in Callers : Held(v)' /\ Held(w)' /\ calls'[v].client = calls'[w].client =>
          calls'[v].key = calls'[w].key /\ (v = w \/ calls'[v].key \in shared')
    BY <2>1, <2>2, <2>3 DEF HolderInv, Held
  <2>6. \A v \in Callers, j \in Cached' : Held(v)' /\ calls'[v].client = entries'[j] =>
          j = calls'[v].key /\ j \in shared'
    BY <1>1, <1>2, <2>1, <2>2, <2>3 DEF HolderInv, Held
  <2>7. \A v \in Callers : /\ Held(v)' => calls'[v].client \in Clients
                           /\ Storing(v)' => calls'[v].client \in live' \/ calls'[v].key \in shared'
    BY <2>1, <2>2 DEF HolderInv, Held, Storing
  <2>8. HolderInv'
    BY <2>1, <2>2, <2>4, <2>5, <2>6, <2>7 DEF HolderInv
  <2> QED
    BY <1>2, <2>8
<1> QED
  BY <1>4, <1>5, <1>6, <1>7

LEMMA CacheInvNext == CacheInv /\ [CacheNext]_cacheVars => CacheInv'
<1> SUFFICES ASSUME CacheInv, [CacheNext]_cacheVars PROVE CacheInv'
  OBVIOUS
<1> USE DEF CacheInv
<1>1. ASSUME NEW k \in Keys, Get(k) PROVE CacheInv'
  <2>1. k \in Cached /\ Touch(k, entries[k]) /\ UNCHANGED <<live, leaving, shared, calls>>
    BY <1>1 DEF Get
  <2>2. entries[k] \in Clients /\ ~Full(k)
    BY <2>1 DEF OrderInv, Cached, Full
  <2>3. OrderInv'
    BY <2>1, <2>2, TouchKeeps
  <2>4. entries' = entries
    BY <2>1 DEF Touch, OrderInv
  <2>5. HolderInv'
    BY <2>1, <2>4 DEF HolderInv, CachedClientsAreLive, Cached, Held, Storing
  <2> QED
    BY <2>3, <2>5
<1>2. ASSUME NEW k \in Keys, EvictKey(k) PROVE CacheInv'
  <2>1. k \in Cached /\ Evict(k) /\ shared' = shared /\ calls' = calls
    BY <1>2 DEF EvictKey
  <2>2. \A t \in Callers : /\ calls'[t].client = calls[t].client /\ calls'[t].key = calls[t].key
                           /\ Held(t)' => Held(t)
                           /\ Storing(t)' => Storing(t)
    BY <2>1 DEF Held, Storing
  <2> QED
    BY <2>1, <2>2, EvictHolders DEF HolderInv
<1>3. ASSUME NEW t \in Callers, SetCall(t) PROVE CacheInv'
  <2> DEFINE k == calls[t].key
  <2>1. k \in Keys /\ Storing(t) /\ shared' = shared
    BY <1>3 DEF SetCall, HolderInv, Call, Storing
  <2>2. CASE entries[k] \notin {NoClient, calls[t].client}
    <3>1. Evict(k) /\ Await(t, entries[k]) /\ k \in Cached /\ entries[k] \in Clients
      BY <1>3, <2>1, <2>2 DEF SetCall, Cached, OrderInv
    <3> HIDE DEF k
    <3> QED
      BY <2>1, <3>1, AwaitKeeps, EvictHolders
  <2>3. CASE entries[k] \in {NoClient, calls[t].client}
    BY <1>3, <2>1, <2>3, MakeRoomOrStoreKeeps DEF SetCall
  <2> QED
    BY <2>2, <2>3
<1>4. ASSUME NEW t \in Callers, SetResume(t) PROVE CacheInv'
  BY <1>4, MakeRoomOrStoreKeeps DEF SetResume, Storing
<1>5. ASSUME NEW t \in Callers,
             \/ GiveUp(t) \/ GaveUp(t) \/ \E u \in Callers : Share(t, u)
             \/ \E k \in Keys, c \in Clients : Open(t, k, c)
      PROVE  CacheInv'
  BY <1>5, HandsKeep
<1>6. CASE SweepIdle
  <2>1. PICK n \in 1..Len(order) : EvictOldest(n)
    BY <1>6 DEF SweepIdle
  <2>2. shared' = shared /\ calls' = calls
    BY <1>6 DEF SweepIdle
  <2>3. \A t \in Callers : /\ calls'[t].client = calls[t].client /\ calls'[t].key = calls[t].key
                           /\ Held(t)' => Held(t)
                           /\ Storing(t)' => Storing(t)
    BY <2>2 DEF Held, Storing
  <2>4. calls' \in [Callers -> Call]
    BY <2>2 DEF HolderInv
  <2> QED
    BY <2>1, <2>2, <2>3, <2>4, EvictOldestHolders
<1>7. CASE (\E c \in Clients : Released(c)) \/ UNCHANGED cacheVars
  <2>1. UNCHANGED <<entries, order, live, shared, calls>> /\ leaving' \subseteq leaving
    BY <1>7 DEF Released, cacheVars
  <2> QED
    BY <2>1 DEF OrderInv, HolderInv, OrderMatchesEntries, CachedClientsAreLive, Cached, Held, Storing
<1> QED
  BY <1>1, <1>2, <1>3, <1>4, <1>5, <1>6, <1>7, ForgetKeeps DEF CacheNext

\* The cached keys are the elements of a sequence no longer than MaxEntries.
LEMMA OrderBoundsSize == CacheInv => SizeBound
<1> SUFFICES ASSUME CacheInv PROVE SizeBound
  OBVIOUS
<1>1. /\ order \in [1..Len(order) -> Cached] /\ Len(order) \in Nat
      /\ \A k \in Cached : \E i \in 1..Len(order) : order[i] = k
  BY DEF CacheInv, OrderInv, OrderMatchesEntries, ToSet
<1>2. ExistsSurjection(1..Len(order), Cached)
  BY <1>1 DEF ExistsSurjection, Surjection
<1>3. Cardinality(Cached) <= Len(order)
  BY <1>1, <1>2, FS_SurjCardinalityBound
<1>4. IsFiniteSet(Cached)
  BY CacheAssumption, FS_Subset DEF Cached
<1>5. Cardinality(Cached) \in Nat
  BY <1>4, FS_CardinalityType
<1> QED
  BY <1>1, <1>3, <1>5, CacheAssumption DEF SizeBound, CacheInv, OrderInv

\* However many `set` calls overlap, the cache never exceeds its ceiling: the
\* loop re-checks the size after every release it awaited.
THEOREM CacheNeverExceedsCeiling == CacheSpec => []SizeBound
  BY CacheInvInit, CacheInvNext, OrderBoundsSize, PTL DEF CacheSpec

\* A cached client is live and cached under one key, in every behaviour.
THEOREM CacheServesLiveClients == CacheSpec => []CachedClientsAreLive
<1>1. CacheInv => CachedClientsAreLive
  BY DEF CacheInv, HolderInv
<1> QED
  BY <1>1, CacheInvInit, CacheInvNext, PTL DEF CacheSpec

\* The recency order is always an enumeration of the cached keys.
THEOREM CacheOrderConsistent == CacheSpec => []OrderMatchesEntries
<1>1. CacheInv => OrderMatchesEntries
  BY DEF CacheInv, OrderInv
<1> QED
  BY <1>1, CacheInvInit, CacheInvNext, PTL DEF CacheSpec

\* Type correctness, from the same invariant.
THEOREM CacheTypeCorrect == CacheSpec => []CacheTypeOK
<1>1. CacheInv => CacheTypeOK
  BY DEF CacheInv, OrderInv, HolderInv, CacheTypeOK
<1> QED
  BY <1>1, CacheInvInit, CacheInvNext, PTL DEF CacheSpec

-------------------------------------------------------------------------------
(* 2. The store uses the cache as SessionClientCache describes it. *)

\* A request that is about to use a client has one.
Ready == {"resumed"} \cup Use
Handed == {q \in Request : q.pc \in Ready => q.client \in Clients}

StoreInv == CacheInv /\ TypeOK /\ requests \in [Requests -> Handed]

-------------------------------------------------------------------------------
\* A login or a restore, seen from the cache: it opens a client, takes the one
\* another holds, gives it up, or goes one step further in `set`.
LEMMA TasksCallTheCache ==
  ASSUME StoreInv, NEW t \in Tasks,
         \/ \E c \in Clients : RestoreKnown(t, c) \/ \E s \in Sessions : OpenLogin(t, s, c)
         \/ \E u \in Tasks : JoinLogin(t, u)
         \/ LoginFails(t) \/ LoginReleased(t) \/ RestoreFails(t) \/ RestoreReleased(t)
         \/ Adopt(t) \/ RestoreConnects(t) \/ StoreResumes(t)
  PROVE  CacheNext
<1>1. tasks[t].session \in Keys /\ t \in Callers
  BY DEF StoreInv, TypeOK, Task, Sessions, Tasks
<1>2. CASE \E c \in Clients : RestoreKnown(t, c)
  BY <1>1, <1>2 DEF RestoreKnown, CacheNext
<1>3. CASE \E c \in Clients, s \in Sessions : OpenLogin(t, s, c)
  BY <1>1, <1>3 DEF OpenLogin, CacheNext, Sessions
<1>4. CASE \E u \in Tasks : JoinLogin(t, u)
  BY <1>1, <1>4 DEF JoinLogin, CacheNext, Tasks
<1>5. CASE LoginFails(t) \/ LoginReleased(t) \/ RestoreFails(t) \/ RestoreReleased(t)
  BY <1>1, <1>5 DEF LoginFails, LoginReleased, RestoreFails, RestoreReleased, CacheNext
<1>6. CASE Adopt(t) \/ RestoreConnects(t) \/ StoreResumes(t)
  BY <1>1, <1>6 DEF Adopt, RestoreConnects, StoreResumes, CacheNext
<1> QED
  BY <1>2, <1>3, <1>4, <1>5, <1>6

\* A rejected session is evicted when it is cached; otherwise nothing happens.
LEMMA RejectionEvicts ==
  ASSUME StoreInv, NEW r \in Requests, EvictInvalid(r)
  PROVE  [CacheNext]_cacheVars
<1> DEFINE k == requests[r].session
<1>1. k \in Keys /\ Evict(k) /\ shared' = shared /\ calls' = calls
  BY DEF StoreInv, TypeOK, Request, Sessions, EvictInvalid
<1>2. CASE k \in Cached
  BY <1>1, <1>2 DEF EvictKey, CacheNext
<1>3. CASE k \notin Cached
  <2>1. entries[k] = NoClient /\ entries' = entries /\ order' = order
    BY <1>1, <1>3 DEF Evict, Cached, Without, StoreInv, CacheInv, OrderInv
  <2>2. live' = live /\ leaving' = leaving
    BY <1>1, <2>1 DEF Evict, Release
  <2> QED
    BY <1>1, <2>1, <2>2 DEF cacheVars
<1> QED
  BY <1>2, <1>3

LEMMA StepIsCacheStep == StoreInv /\ [Next]_vars => [CacheNext]_cacheVars
<1> SUFFICES ASSUME StoreInv, [Next]_vars PROVE [CacheNext]_cacheVars
  OBVIOUS
<1>1. ASSUME NEW t \in Tasks, Save(t) \/ RedisFails(t) \/ RestoreUnknown(t) PROVE UNCHANGED cacheVars
  BY <1>1 DEF Save, RedisFails, RestoreUnknown
<1>2. ASSUME NEW r \in Requests, NEW s \in Sessions, Hit(r, s) PROVE CacheNext
  BY <1>2 DEF Hit, CacheNext, Sessions
<1>3. ASSUME NEW r \in Requests,
             \/ \E s \in Sessions, t \in Tasks : Miss(r, s, t)
             \/ Resume(r) \/ Reconnect(r) \/ Answered(r) \/ Rejected(r) \/ RemoveRecord(r)
      PROVE  UNCHANGED cacheVars
  BY <1>3 DEF Miss, Resume, Reconnect, Answered, Rejected, RemoveRecord
<1>4. ASSUME NEW s \in Sessions, Revoke(s) \/ Lapse(s) PROVE UNCHANGED cacheVars
  BY <1>4 DEF Revoke, Lapse
<1>5. ASSUME NEW c \in Clients, Destroyed(c) \/ Drop(c) PROVE [CacheNext]_cacheVars
  BY <1>5 DEF Destroyed, Drop, CacheNext
<1>6. CASE Sweep
  BY <1>6 DEF Sweep, CacheNext
<1>7. CASE Restart
  BY <1>7 DEF Restart, Forget, NoEntries, Sessions, Tasks, CacheNext
<1>8. CASE UNCHANGED vars
  BY <1>8 DEF vars
<1> QED
  BY <1>1, <1>2, <1>3, <1>4, <1>5, <1>6, <1>7, <1>8, TasksCallTheCache, RejectionEvicts DEF Next

-------------------------------------------------------------------------------
LEMMA RestingValues ==
  /\ AnySession \in Sessions
  /\ TaskOver \in Task /\ TaskOver.pc = "none"
  /\ NoRequest \in Handed /\ NoRequest.client = NoClient /\ NoRequest.pc = "idle"
<1>1. AnySession \in Sessions
  BY CacheAssumption DEF AnySession, Sessions
<1>2. TaskOver \in Task /\ TaskOver.pc = "none"
  BY <1>1 DEF TaskOver, Task, TaskPc
<1>3. NoRequest \in Handed /\ NoRequest.client = NoClient /\ NoRequest.pc = "idle"
  BY <1>1 DEF NoRequest, Handed, Request, RequestPc, Ready, Use
<1> QED
  BY <1>1, <1>2, <1>3

LEMMA TypeParts ==
  ASSUME CacheInv', revived' \subseteq Clients, tasks' \in [Tasks -> Task],
         restoring' \in [Sessions -> Tasks \cup {NoTask}], requests' \in [Requests -> Handed],
         records' \in [Sessions -> {"none", "stored", "unreadable"}],
         issued' \subseteq Sessions, revoked' \subseteq issued', unsaved' \subseteq issued'
  PROVE  StoreInv'
<1>1. CacheTypeOK'
  BY DEF CacheInv, OrderInv, HolderInv, CacheTypeOK
<1>2. requests' \in [Requests -> Request]
  BY DEF Handed
<1> QED
  BY <1>1, <1>2 DEF StoreInv, TypeOK

\* When a restore settles, its waiters hold its outcome and nothing else changes.
LEMMA SettleKeeps ==
  ASSUME StoreInv, NEW t \in Tasks, NEW pc \in RequestPc, NEW c \in Clients \cup {NoClient},
         pc \in Ready => c \in Clients, Settle(t, pc, c)
  PROVE  /\ tasks' \in [Tasks -> Task]
         /\ restoring' \in [Sessions -> Tasks \cup {NoTask}]
         /\ requests' \in [Requests -> Handed]
<1> DEFINE s == tasks[t].session
           told == [pc |-> pc, session |-> s, client |-> c, task |-> NoTask]
           outcome == IF pc = "idle" THEN NoRequest ELSE told
<1>1. s \in Sessions
  BY DEF StoreInv, TypeOK, Task
<1>2. told \in Handed
  BY <1>1 DEF Handed, Request
<1>3. outcome \in Handed
  BY <1>2, RestingValues
<1>4. /\ tasks' = [tasks EXCEPT ![t] = TaskOver]
      /\ restoring' = [restoring EXCEPT ![s] = NoTask]
      /\ requests' = [r \in Requests |-> IF requests[r].task = t THEN outcome ELSE requests[r]]
  BY DEF Settle
<1> HIDE DEF outcome, s
<1> QED
  BY <1>1, <1>3, <1>4, RestingValues DEF StoreInv, TypeOK

\* A request goes on with what it has, or is answered.
LEMMA StepKeeps ==
  ASSUME StoreInv, NEW r \in Requests, NEW pc \in RequestPc,
         pc \in Ready => requests[r].pc \in Ready,
         requests' = Step(r, pc) \/ requests' = Answer(r)
  PROVE  requests' \in [Requests -> Handed]
<1>1. requests[r] \in Handed /\ requests \in [Requests -> Handed]
  BY DEF StoreInv
<1>2. requests' = [requests EXCEPT ![r] = [requests[r] EXCEPT !.pc = pc]] \/ requests' = [requests EXCEPT ![r] = NoRequest]
  BY <1>1 DEF Step, Answer
<1>3. [requests[r] EXCEPT !.pc = pc] \in Handed
  <2>1. [requests[r] EXCEPT !.pc = pc] =
          [pc |-> pc, session |-> requests[r].session, client |-> requests[r].client, task |-> requests[r].task]
    BY <1>1 DEF Handed, Request
  <2> QED
    BY <1>1, <2>1 DEF Handed, Request
<1> QED
  BY <1>1, <1>2, <1>3, RestingValues

-------------------------------------------------------------------------------
LEMMA StoreInvInit == Init => StoreInv
<1> SUFFICES ASSUME Init PROVE StoreInv
  OBVIOUS
<1>1. CacheInit
  BY DEF Init, CacheInit, NoEntries, Sessions, Tasks
<1>2. CacheInv
  BY <1>1, CacheInvInit
<1>3. CacheTypeOK
  BY <1>2 DEF CacheInv, OrderInv, HolderInv, CacheTypeOK
<1>4. requests \in [Requests -> Handed] /\ requests \in [Requests -> Request]
  BY RestingValues DEF Init, Handed
<1>5. TypeOK
  BY <1>3, <1>4, RestingValues DEF Init, TypeOK
<1> QED
  BY <1>2, <1>4, <1>5 DEF StoreInv

LEMMA TaskStepKeeps ==
  ASSUME StoreInv, CacheInv', NEW t \in Tasks,
         \/ \E c \in Clients : RestoreKnown(t, c) \/ \E s \in Sessions : OpenLogin(t, s, c)
         \/ \E u \in Tasks : JoinLogin(t, u)
         \/ LoginFails(t) \/ LoginReleased(t) \/ Adopt(t) \/ Save(t)
         \/ RedisFails(t) \/ RestoreUnknown(t)
         \/ RestoreFails(t) \/ RestoreReleased(t) \/ RestoreConnects(t) \/ StoreResumes(t)
  PROVE  StoreInv'
<1>1. tasks \in [Tasks -> Task] /\ tasks[t] \in Task /\ tasks[t].session \in Sessions
  BY DEF StoreInv, TypeOK, Task
<1> USE DEF StoreInv, TypeOK
<1>2. ASSUME NEW pc \in TaskPc, tasks' = [tasks EXCEPT ![t].pc = pc] PROVE tasks' \in [Tasks -> Task]
  <2>1. [tasks[t] EXCEPT !.pc = pc] = [pc |-> pc, session |-> tasks[t].session]
    BY <1>1 DEF Task
  <2>2. tasks' = [tasks EXCEPT ![t] = [tasks[t] EXCEPT !.pc = pc]]
    BY <1>1, <1>2
  <2> QED
    BY <1>1, <2>1, <2>2 DEF Task
<1>3. ASSUME NEW c \in Clients, RestoreKnown(t, c) PROVE StoreInv'
  <2>1. tasks' \in [Tasks -> Task]
    BY <1>2, <1>3 DEF RestoreKnown, TaskPc
  <2> QED
    BY <1>3, <2>1, TypeParts DEF RestoreKnown
<1>4. ASSUME NEW c \in Clients, NEW s \in Sessions, OpenLogin(t, s, c) PROVE StoreInv'
  <2>1. tasks' \in [Tasks -> Task]
    BY <1>1, <1>4 DEF OpenLogin, Task, TaskPc
  <2> QED
    BY <1>4, <2>1, TypeParts DEF OpenLogin
<1>5. ASSUME NEW u \in Tasks, JoinLogin(t, u) PROVE StoreInv'
  <2>1. tasks' \in [Tasks -> Task]
    BY <1>1, <1>5 DEF JoinLogin
  <2> QED
    BY <1>5, <2>1, TypeParts DEF JoinLogin
<1>6. CASE LoginFails(t)
  BY <1>6, TypeParts DEF LoginFails
<1>7. CASE RestoreFails(t)
  <2>1. tasks' \in [Tasks -> Task]
    BY <1>2, <1>7 DEF RestoreFails, TaskPc
  <2> QED
    BY <1>7, <2>1, TypeParts DEF RestoreFails
<1>8. ASSUME GaveUp(t), MayComeUp(calls[t].client) PROVE revived' \subseteq Clients
  <2>1. calls[t].client \in Clients
    BY <1>8 DEF GaveUp, CacheInv, HolderInv, Held, Tasks
  <2> QED
    BY <1>8, <2>1 DEF MayComeUp
<1>9. CASE LoginReleased(t)
  <2>1. tasks' \in [Tasks -> Task]
    BY <1>1, <1>9, RestingValues DEF LoginReleased
  <2> QED
    BY <1>8, <1>9, <2>1, TypeParts DEF LoginReleased
<1>10. CASE RestoreReleased(t)
  <2>1. \E pc \in {"refused", "idle"} : Settle(t, pc, NoClient)
    BY <1>10 DEF RestoreReleased
  <2>2. /\ tasks' \in [Tasks -> Task]
        /\ restoring' \in [Sessions -> Tasks \cup {NoTask}]
        /\ requests' \in [Requests -> Handed]
    BY <2>1, SettleKeeps DEF RequestPc, Ready, Use
  <2> QED
    BY <1>8, <1>10, <2>2, TypeParts DEF RestoreReleased
<1>11. CASE Adopt(t) \/ RestoreConnects(t) \/ StoreResumes(t)
  <2>1. /\ calls[t].client \in Clients /\ Stored(t)
        /\ UNCHANGED <<revived, records, issued, revoked, unsaved>>
    BY <1>11 DEF Adopt, RestoreConnects, StoreResumes, SetCall, SetResume,
                 CacheInv, HolderInv, Held, Tasks
  <2>2. /\ tasks' \in [Tasks -> Task]
        /\ restoring' \in [Sessions -> Tasks \cup {NoTask}]
        /\ requests' \in [Requests -> Handed]
    <3>1. CASE Settle(t, "resumed", calls[t].client)
      BY <2>1, <3>1, SettleKeeps DEF RequestPc
    <3>2. CASE UNCHANGED <<tasks, restoring, requests>>
      BY <3>2
    <3>3. CASE tasks' = [tasks EXCEPT ![t].pc = "saving"] /\ UNCHANGED <<restoring, requests>>
      BY <1>2, <3>3 DEF TaskPc
    <3> QED
      BY <2>1, <3>1, <3>2, <3>3 DEF Stored
  <2> QED
    BY <2>1, <2>2, TypeParts
<1>12. CASE Save(t)
  <2>1. tasks' \in [Tasks -> Task] /\ UNCHANGED <<revived, restoring, requests, revoked>>
    BY <1>1, <1>12, RestingValues DEF Save
  <2>2. /\ records' \in [Sessions -> {"none", "stored", "unreadable"}]
        /\ issued' \subseteq Sessions /\ revoked' \subseteq issued' /\ unsaved' \subseteq issued'
    BY <1>1, <1>12 DEF Save
  <2> QED
    BY <2>1, <2>2, TypeParts
<1>13. CASE RedisFails(t) \/ RestoreUnknown(t)
  <2>1. /\ UNCHANGED <<revived, issued, revoked, unsaved>>
        /\ records' \in [Sessions -> {"none", "stored", "unreadable"}]
        /\ \E pc \in {"idle", "refused"} : Settle(t, pc, NoClient)
    BY <1>1, <1>13 DEF RedisFails, RestoreUnknown
  <2>2. /\ tasks' \in [Tasks -> Task]
        /\ restoring' \in [Sessions -> Tasks \cup {NoTask}]
        /\ requests' \in [Requests -> Handed]
    BY <2>1, SettleKeeps DEF RequestPc, Ready, Use
  <2> QED
    BY <2>1, <2>2, TypeParts
<1> QED
  BY <1>3, <1>4, <1>5, <1>6, <1>7, <1>9, <1>10, <1>11, <1>12, <1>13

LEMMA RequestStepKeeps ==
  ASSUME StoreInv, CacheInv', NEW r \in Requests,
         \/ \E s \in Sessions : Hit(r, s) \/ \E t \in Tasks : Miss(r, s, t)
         \/ Resume(r) \/ Reconnect(r) \/ Answered(r) \/ Rejected(r)
         \/ EvictInvalid(r) \/ RemoveRecord(r)
  PROVE  StoreInv'
<1>1. requests \in [Requests -> Handed] /\ requests[r] \in Handed /\ requests[r].session \in Sessions
  BY DEF StoreInv, Handed, Request
<1> USE DEF StoreInv, TypeOK
<1>2. ASSUME NEW s \in Sessions, Hit(r, s) PROVE StoreInv'
  <2>1. entries[s] \in Clients
    BY <1>2 DEF Hit, Get, Cached, CacheInv, OrderInv
  <2>2. PICK pc \in Use :
          requests' = [requests EXCEPT ![r] =
            [pc |-> pc, session |-> s, client |-> entries[s], task |-> NoTask]]
    BY <1>2 DEF Hit
  <2>3. [pc |-> pc, session |-> s, client |-> entries[s], task |-> NoTask] \in Handed
    BY <2>1 DEF Handed, Request, RequestPc, Use
  <2>4. requests' \in [Requests -> Handed]
    BY <1>1, <2>2, <2>3
  <2> QED
    BY <1>2, <2>4, TypeParts DEF Hit
<1>3. ASSUME NEW s \in Sessions, NEW t \in Tasks, Miss(r, s, t) PROVE StoreInv'
  <2>1. [pc |-> "waiting", session |-> s, client |-> NoClient, task |-> t] \in Handed
    BY DEF Handed, Request, RequestPc, Ready, Use
  <2>2. requests' \in [Requests -> Handed]
    BY <1>1, <1>3, <2>1 DEF Miss
  <2>3. tasks' \in [Tasks -> Task] /\ restoring' \in [Sessions -> Tasks \cup {NoTask}]
    BY <1>3 DEF Miss, Task, TaskPc
  <2> QED
    BY <1>3, <2>2, <2>3, TypeParts DEF Miss
<1>4. CASE Resume(r) \/ Answered(r) \/ Rejected(r)
  <2>1. \E pc \in RequestPc : /\ requests' = Step(r, pc) \/ requests' = Answer(r)
                              /\ pc \in Ready => requests[r].pc \in Ready
    BY <1>4 DEF Resume, Answered, Rejected, RequestPc, Ready, Use
  <2>2. requests' \in [Requests -> Handed]
    BY <2>1, StepKeeps
  <2> QED
    BY <1>4, <2>2, TypeParts DEF Resume, Answered, Rejected
<1>5. CASE Reconnect(r)
  <2>1. \E pc \in RequestPc : /\ requests' = Step(r, pc) \/ requests' = Answer(r)
                              /\ pc \in Ready => requests[r].pc \in Ready
    BY <1>5 DEF Reconnect, RequestPc, Ready, Use
  <2>2. requests' \in [Requests -> Handed]
    BY <2>1, StepKeeps
  <2>3. requests[r].client \in Clients
    BY <1>1, <1>5 DEF Reconnect, Handed, Ready, Use
  <2>4. revived' \subseteq Clients
    BY <1>5, <2>3 DEF Reconnect, MayComeUp
  <2> QED
    BY <1>5, <2>2, <2>4, TypeParts DEF Reconnect
<1>6. CASE EvictInvalid(r)
  <2> DEFINE c == entries[requests[r].session]
  <2>1. c \in Clients \cup {NoClient}
    BY <1>1 DEF CacheInv, OrderInv, Sessions
  <2>2. requests[r] \in Request /\ requests \in [Requests -> Request]
    BY <1>1 DEF Handed
  <2>3. requests' = [requests EXCEPT ![r].pc = "removing", ![r].client = c]
    BY <1>6 DEF EvictInvalid
  <2> HIDE DEF c
  <2>4. requests' \in [Requests -> Request] /\ \A q \in Requests \ {r} : requests'[q] = requests[q]
    BY <2>1, <2>2, <2>3 DEF Request, RequestPc
  <2>5. requests'[r].pc = "removing"
    BY <2>2, <2>3 DEF Request
  <2>6. requests' \in [Requests -> Handed]
    BY <1>1, <2>4, <2>5 DEF Handed, Ready, Use
  <2> QED
    BY <1>6, <2>6, TypeParts DEF EvictInvalid
<1>7. CASE RemoveRecord(r)
  <2>1. requests' \in [Requests -> Handed]
    BY <1>7, StepKeeps DEF RemoveRecord, RequestPc, Ready, Use
  <2>2. records' \in [Sessions -> {"none", "stored", "unreadable"}]
    BY <1>1, <1>7 DEF RemoveRecord
  <2> QED
    BY <1>7, <2>1, <2>2, TypeParts DEF RemoveRecord
<1> QED
  BY <1>2, <1>3, <1>4, <1>5, <1>6, <1>7

LEMMA StoreInvNext == StoreInv /\ [Next]_vars => StoreInv'
<1> SUFFICES ASSUME StoreInv, [Next]_vars PROVE StoreInv'
  OBVIOUS
<1>1. CacheInv'
  BY StepIsCacheStep, CacheInvNext DEF StoreInv
<1>2. ASSUME NEW s \in Sessions, Revoke(s) \/ Lapse(s) PROVE StoreInv'
  BY <1>1, <1>2, TypeParts DEF Revoke, Lapse, StoreInv, TypeOK
<1>3. ASSUME NEW c \in Clients, Destroyed(c) \/ Drop(c) PROVE StoreInv'
  BY <1>1, <1>3, TypeParts DEF Destroyed, Drop, StoreInv, TypeOK
<1>4. CASE Sweep
  BY <1>1, <1>4, TypeParts DEF Sweep, StoreInv, TypeOK
<1>5. CASE Restart
  <2>1. records' \in [Sessions -> {"none", "stored", "unreadable"}]
    BY <1>5 DEF Restart, StoreInv, TypeOK
  <2>2. /\ revived' = {} /\ tasks' \in [Tasks -> Task] /\ requests' \in [Requests -> Handed]
        /\ restoring' \in [Sessions -> Tasks \cup {NoTask}] /\ unsaved' = {}
    BY <1>5, RestingValues DEF Restart
  <2> QED
    BY <1>1, <1>5, <2>1, <2>2, TypeParts DEF Restart, StoreInv, TypeOK
<1>6. CASE UNCHANGED vars
  BY <1>1, <1>6, TypeParts DEF vars, StoreInv, TypeOK
<1> QED
  BY <1>1, <1>2, <1>3, <1>4, <1>5, <1>6, TaskStepKeeps, RequestStepKeeps DEF Next

-------------------------------------------------------------------------------
\* The store is an implementation of the cache's specification: every step of a
\* login, restore, request, rejection, release, sweep or restart is a call of
\* the cache that SessionClientCache allows, or does not touch it.
THEOREM StoreImplementsCache == Spec => CacheSpec
<1>1. Init => CacheInit
  BY DEF Init, CacheInit, NoEntries, Sessions, Tasks
<1> QED
  BY <1>1, StoreInvInit, StoreInvNext, StepIsCacheStep, PTL DEF Spec, CacheSpec

\* Type correctness of the store.
THEOREM StoreTypeCorrect == Spec => []TypeOK
<1>1. StoreInv => TypeOK
  BY DEF StoreInv
<1> QED
  BY <1>1, StoreInvInit, StoreInvNext, PTL DEF Spec

\* Overlapping logins and restores keep the store within its ceiling of clients.
THEOREM StoreNeverExceedsCeiling == Spec => []SizeBound
  BY StoreImplementsCache, CacheNeverExceedsCeiling, PTL

\* A client that a request finds in the cache has not been released, by an
\* eviction, a failed restore or a failed sign-in, unless two sign-ins of one
\* attempt have shared it.
THEOREM StoreServesLiveClients == Spec => []CachedClientsAreLive
  BY StoreImplementsCache, CacheServesLiveClients, PTL

-------------------------------------------------------------------------------
(* 3. The life of a session. *)

Restores == {"reading", "restoring", "failing", "rejected"}
Logins == {"signing_in", "saving"}
Owning == {"restoring", "failing", "rejected", "signing_in"}

\* What a task works on, and what it holds: a restore is the pending one of its
\* session, which a login has returned; a login works on a string nobody has
\* yet, unless another sign-in of its attempt has got further.
TaskOK(t) ==
  /\ Held(t) <=> tasks[t].pc \in Owning
  /\ tasks[t].pc \in {"failing", "rejected"} => calls[t].pc = "dropping"
  /\ IF Held(t) THEN calls[t].key = tasks[t].session ELSE calls[t].client = NoClient
  /\ tasks[t].pc \in Restores => restoring[tasks[t].session] = t /\ tasks[t].session \in issued
  /\ tasks[t].pc = "rejected" => tasks[t].session \in revoked
  /\ tasks[t].pc \in Logins => tasks[t].session \notin issued \/ tasks[t].session \in shared

TaskInv ==
  /\ \A t \in Tasks : TaskOK(t)
  /\ \A s \in Sessions : restoring[s] # NoTask =>
       tasks[restoring[s]].pc \in Restores /\ tasks[restoring[s]].session = s
  /\ \A t, u \in Tasks : tasks[t].pc \in Logins /\ tasks[u].pc \in Logins
       /\ tasks[t].session = tasks[u].session => t = u \/ tasks[t].session \in shared

\* The sessions a login has returned, or has stored its client for and will.
Returned == {s \in Sessions : s \in issued \/ \E t \in Tasks : tasks[t].pc = "saving" /\ tasks[t].session = s}

\* Where the clients of a session are.  A restore of s means that none is left:
\* neither a cached one nor one that a second sign-in of its attempt still
\* holds.  While that one is live, the first sign-in has stored no other.
ClientInv ==
  /\ \A t \in Tasks : tasks[t].pc \in Restores =>
       /\ entries[tasks[t].session] \notin live
       /\ \A u \in Tasks : tasks[u].pc = "signing_in" /\ tasks[u].session = tasks[t].session =>
            calls[u].client \notin live
  /\ \A t \in Tasks : tasks[t].pc = "signing_in" /\ calls[t].client \in live =>
       \/ entries[tasks[t].session] = calls[t].client
       \/ entries[tasks[t].session] = NoClient /\ tasks[t].session \notin Returned
  /\ \A t, u \in Tasks : tasks[t].pc = "signing_in" /\ tasks[u].pc = "signing_in"
       /\ tasks[t].session = tasks[u].session => calls[t].client = calls[u].client
  /\ \A s \in Sessions : entries[s] # NoClient => s \in Returned
  /\ \A t \in Tasks : calls[t].pc = "dropping" => calls[t].client \notin live

\* Requests know only sessions a login has returned, and wait for a restore.
WaiterInv ==
  /\ \A r \in Requests : requests[r].pc # "idle" => requests[r].session \in issued
  /\ \A r \in Requests : requests[r].pc = "waiting" => requests[r].task \in Tasks
  /\ WaitersHaveARestore

\* A session whose record could not be written is never restored: it lives as
\* long as its client stays cached.  Only a second sign-in of its attempt may
\* still write the record of a session that a login has returned.
RecordInv ==
  /\ \A s \in Sessions : records[s] # "none" => s \in issued
  /\ \A s \in unsaved \ shared : records[s] = "none"
  /\ \A t \in Tasks : tasks[t].pc = "restoring" => tasks[t].session \notin unsaved \ shared
  /\ \A t \in Tasks : tasks[t].pc \in Logins /\ tasks[t].session \in issued =>
       records[tasks[t].session] = "stored" \/ tasks[t].session \in unsaved \cup revoked
  /\ RefusalIsAVerdict

LifeInv == TaskInv /\ ClientInv /\ WaiterInv /\ RecordInv

\* Whoever has a client of s that is still live after the step has it then.
KeepsClients == \A s \in Sessions \ shared : ClientsOf(s) \cap live' \subseteq ClientsOf(s)'

-------------------------------------------------------------------------------
LEMMA LifeFacts ==
  ASSUME StoreInv
  PROVE  /\ Tasks = Callers /\ Sessions = Keys /\ NoTask \notin Tasks
         /\ tasks \in [Tasks -> Task] /\ calls \in [Tasks -> Call]
         /\ \A t \in Tasks : tasks[t].session \in Sessions /\ calls[t].key \in Sessions
         /\ \A s \in Sessions : restoring[s] \in Tasks \cup {NoTask}
         /\ \A r \in Requests : requests[r].session \in Sessions
         /\ live \subseteq Clients /\ NoClient \notin live
         /\ entries \in [Sessions -> Clients \cup {NoClient}]
         /\ \A s \in Sessions \ shared : entries[s] \in live \/ entries[s] = NoClient
         /\ \A t \in Tasks : Storing(t) /\ calls[t].key \notin shared => calls[t].client \in live
<1>1. Tasks = Callers /\ Sessions = Keys /\ NoTask \notin Tasks
  BY StoreAssumption DEF Tasks, Sessions
<1>2. /\ tasks \in [Tasks -> Task] /\ calls \in [Tasks -> Call]
      /\ \A t \in Tasks : tasks[t].session \in Sessions /\ calls[t].key \in Sessions
      /\ \A s \in Sessions : restoring[s] \in Tasks \cup {NoTask}
      /\ \A r \in Requests : requests[r].session \in Sessions
  BY <1>1 DEF StoreInv, TypeOK, CacheTypeOK, Task, Call, Request
<1>3. live \subseteq Clients /\ NoClient \notin live /\ entries \in [Sessions -> Clients \cup {NoClient}]
  BY <1>1, CacheAssumption DEF StoreInv, TypeOK, CacheTypeOK
<1>4. \A s \in Sessions \ shared : entries[s] \in live \/ entries[s] = NoClient
  BY <1>1 DEF StoreInv, CacheInv, HolderInv, CachedClientsAreLive, Cached
<1>5. \A t \in Tasks : Storing(t) /\ calls[t].key \notin shared => calls[t].client \in live
  BY <1>1 DEF StoreInv, CacheInv, HolderInv
<1> QED
  BY <1>1, <1>2, <1>3, <1>4, <1>5

\* What every eviction does: entries go, and their clients with them.
GoneOnly == /\ live' \subseteq live
            /\ \A s \in Sessions : \/ entries'[s] = entries[s]
                                   \/ entries'[s] = NoClient /\ entries[s] \notin live'

LEMMA EvictionsGo ==
  ASSUME StoreInv,
         \/ \E k \in Sessions : Evict(k)
         \/ \E n \in 1..Len(order) : EvictOldest(n)
  PROVE  GoneOnly
<1>1. entries \in [Sessions -> Clients \cup {NoClient}] /\ Sessions = Keys /\ NoClient \notin live
  BY LifeFacts
<1>2. ASSUME NEW k \in Sessions, Evict(k) PROVE GoneOnly
  BY <1>1, <1>2 DEF Evict, Release, GoneOnly
<1>3. ASSUME NEW n \in 1..Len(order), EvictOldest(n) PROVE GoneOnly
  <2> DEFINE oldest == {order[i] : i \in 1..n}
  <2>1. /\ entries' = [k \in Keys |-> IF k \in oldest THEN NoClient ELSE entries[k]]
        /\ live' = live \ {entries[k] : k \in oldest}
    BY <1>3 DEF EvictOldest, Release
  <2> HIDE DEF oldest
  <2> QED
    BY <1>1, <2>1 DEF GoneOnly
<1> QED
  BY <1>2, <1>3

-------------------------------------------------------------------------------
(* What keeps each part of the invariant. *)

\* One task moves, and is in order afterwards.
LEMMA TaskMoves ==
  ASSUME StoreInv, StoreInv', TaskInv, NEW t \in Tasks, TaskOK(t)',
         \A u \in Tasks \ {t} : tasks'[u] = tasks[u] /\ calls'[u] = calls[u],
         shared \subseteq shared', revoked \subseteq revoked', issued \subseteq issued',
         \A s \in issued' \ issued : tasks[t].pc = "saving" /\ tasks[t].session = s,
         \A s \in Sessions :
           \/ restoring'[s] = restoring[s] /\ restoring[s] # t
           \/ restoring'[s] = NoTask /\ restoring[s] = t
           \/ /\ restoring'[s] = t /\ restoring[s] \in {NoTask, t}
              /\ tasks'[t].pc \in Restores /\ tasks'[t].session = s,
         \A u \in Tasks \ {t} : tasks'[t].pc \in Logins /\ tasks[u].pc \in Logins
           /\ tasks'[t].session = tasks[u].session => tasks'[t].session \in shared'
  PROVE  TaskInv'
<1>1. /\ NoTask \notin Tasks /\ \A u \in Tasks : tasks[u].session \in Sessions
      /\ \A s \in Sessions : restoring[s] \in Tasks \cup {NoTask}
  BY LifeFacts
<1>2. ASSUME NEW u \in Tasks \ {t} PROVE TaskOK(u)'
  <2>1. TaskOK(u) /\ tasks'[u] = tasks[u] /\ calls'[u] = calls[u]
    BY DEF TaskInv
  <2>2. tasks[u].pc \in Restores => restoring'[tasks[u].session] = u
    BY <1>1, <2>1 DEF TaskOK
  <2>3. tasks[u].pc \in Logins => tasks[u].session \notin issued' \/ tasks[u].session \in shared'
    <3> SUFFICES ASSUME tasks[u].pc \in Logins, tasks[u].session \in issued' \ issued
                 PROVE  tasks[u].session \in shared
      BY <2>1 DEF TaskOK
    <3>1. tasks[t].pc \in Logins /\ tasks[t].session = tasks[u].session
      BY DEF Logins
    <3> QED
      BY <3>1 DEF TaskInv
  <2> QED
    BY <2>1, <2>2, <2>3 DEF TaskOK, Held
<1>3. \A s \in Sessions : restoring'[s] # NoTask =>
        tasks'[restoring'[s]].pc \in Restores /\ tasks'[restoring'[s]].session = s
  <2> SUFFICES ASSUME NEW s \in Sessions, restoring'[s] # NoTask
               PROVE  tasks'[restoring'[s]].pc \in Restores /\ tasks'[restoring'[s]].session = s
    OBVIOUS
  <2>1. CASE restoring'[s] = restoring[s] /\ restoring[s] # t
    BY <1>1, <2>1 DEF TaskInv
  <2>2. CASE restoring'[s] = t
    BY <1>1, <2>2
  <2> QED
    BY <2>1, <2>2
<1>4. \A u, v \in Tasks : tasks'[u].pc \in Logins /\ tasks'[v].pc \in Logins
        /\ tasks'[u].session = tasks'[v].session => u = v \/ tasks'[u].session \in shared'
  <2> SUFFICES ASSUME NEW u \in Tasks, NEW v \in Tasks, u # v, tasks'[u].pc \in Logins, tasks'[v].pc \in Logins,
                      tasks'[u].session = tasks'[v].session
               PROVE  tasks'[u].session \in shared'
    OBVIOUS
  <2>1. CASE u = t \/ v = t
    BY <2>1
  <2>2. CASE u # t /\ v # t
    BY <2>2 DEF TaskInv
  <2> QED
    BY <2>1, <2>2
<1> QED
  BY <1>2, <1>3, <1>4 DEF TaskInv

\* No client arrives, and no task starts: those there are stay or go.
LEMMA ClientsOnlyGo ==
  ASSUME StoreInv, StoreInv', ClientInv, GoneOnly,
         \A t \in Tasks : /\ tasks'[t].pc = "signing_in" => tasks'[t] = tasks[t] /\ calls'[t].client = calls[t].client
                          /\ tasks'[t].pc \in Restores =>
                               tasks[t].pc \in Restores /\ tasks'[t].session = tasks[t].session
                          /\ calls'[t].pc = "dropping" =>
                               \/ calls[t].pc = "dropping" /\ calls'[t].client = calls[t].client
                               \/ calls'[t].client \notin live',
         Returned' = Returned
  PROVE  ClientInv'
<1>1. /\ \A t \in Tasks : tasks[t].session \in Sessions /\ tasks'[t].session \in Sessions
      /\ NoClient \notin live /\ NoClient \notin live'
  BY LifeFacts DEF GoneOnly, StoreInv, TypeOK, Task
<1>2. \A t \in Tasks : tasks'[t].pc \in Restores =>
        /\ entries'[tasks'[t].session] \notin live'
        /\ \A u \in Tasks : tasks'[u].pc = "signing_in" /\ tasks'[u].session = tasks'[t].session =>
             calls'[u].client \notin live'
  BY <1>1 DEF ClientInv, GoneOnly
<1>3. \A t \in Tasks : tasks'[t].pc = "signing_in" /\ calls'[t].client \in live' =>
        \/ entries'[tasks'[t].session] = calls'[t].client
        \/ entries'[tasks'[t].session] = NoClient /\ tasks'[t].session \notin Returned'
  <2> SUFFICES ASSUME NEW t \in Tasks, tasks'[t].pc = "signing_in", calls'[t].client \in live'
               PROVE  \/ entries'[tasks'[t].session] = calls'[t].client
                      \/ entries'[tasks'[t].session] = NoClient /\ tasks'[t].session \notin Returned'
    OBVIOUS
  <2>1. tasks'[t] = tasks[t] /\ calls'[t].client = calls[t].client /\ calls[t].client \in live
    BY DEF GoneOnly
  <2> DEFINE s == tasks[t].session
  <2>2. \/ entries[s] = calls[t].client
        \/ entries[s] = NoClient /\ s \notin Returned
    BY <2>1 DEF ClientInv
  <2>3. s \in Sessions /\ (s \in Returned' <=> s \in Returned)
    BY <1>1
  <2> HIDE DEF s
  <2>4. \/ entries'[s] = calls[t].client
        \/ entries'[s] = NoClient /\ s \notin Returned'
    BY <2>1, <2>2, <2>3 DEF GoneOnly
  <2> QED
    BY <2>1, <2>4 DEF s
<1>4. \A t, u \in Tasks : tasks'[t].pc = "signing_in" /\ tasks'[u].pc = "signing_in"
        /\ tasks'[t].session = tasks'[u].session => calls'[t].client = calls'[u].client
  BY DEF ClientInv
<1>5. \A s \in Sessions : entries'[s] # NoClient => s \in Returned'
  BY DEF ClientInv, GoneOnly
<1>6. \A t \in Tasks : calls'[t].pc = "dropping" => calls'[t].client \notin live'
  BY DEF ClientInv, GoneOnly
<1> QED
  BY <1>2, <1>3, <1>4, <1>5, <1>6 DEF ClientInv

\* Nobody lets a client go: it stays where it was, is stored for the session it
\* was opened for, or is released.
LEMMA OwnersKeep ==
  ASSUME StoreInv, StoreInv',
         \A s \in Sessions \ shared : entries[s] \in live' => entries'[s] = entries[s],
         \A t \in Tasks : calls[t].client \in live' /\ calls[t].key \notin shared =>
           \/ calls'[t].client = calls[t].client /\ calls'[t].key = calls[t].key
           \/ entries'[calls[t].key] = calls[t].client
  PROVE  KeepsClients
BY DEF KeepsClients, ClientsOf

\* Requests that wait for a restore that goes on wait for it still.
LEMMA WaitersKeep ==
  ASSUME WaiterInv, issued \subseteq issued',
         \A r \in Requests :
           \/ requests'[r].pc = "idle"
           \/ requests'[r].session \in issued' /\ requests'[r].pc # "waiting"
           \/ requests'[r].pc # "waiting" /\ requests[r].pc # "idle" /\ requests'[r].session = requests[r].session
           \/ /\ requests'[r] = requests[r]
              /\ requests[r].pc = "waiting" =>
                   \/ tasks'[requests[r].task] = tasks[requests[r].task]
                   \/ /\ tasks'[requests[r].task].pc \in Restores
                      /\ tasks'[requests[r].task].session = tasks[requests[r].task].session
  PROVE  WaiterInv'
<1>1. \A r \in Requests : requests'[r].pc # "idle" => requests'[r].session \in issued'
  BY DEF WaiterInv
<1>2. \A r \in Requests : requests'[r].pc = "waiting" =>
        /\ requests'[r].task \in Tasks
        /\ tasks'[requests'[r].task].pc \in Restores
        /\ tasks'[requests'[r].task].session = requests'[r].session
  BY DEF WaiterInv, WaitersHaveARestore, Restores
<1> QED
  BY <1>1, <1>2 DEF WaiterInv, WaitersHaveARestore, Restores

\* The verdicts stand when a record is only written for a session nobody has
\* asked for yet (or by a second sign-in), a client of an unsaved session only
\* leaves the cache, and a new 401 is of a session with neither record nor
\* client, or revoked.
LEMMA VerdictsKeep ==
  ASSUME StoreInv, StoreInv', TaskInv, WaiterInv, RecordInv,
         issued \subseteq issued', revoked \subseteq revoked', unsaved \subseteq unsaved', shared \subseteq shared',
         \A s \in Sessions :
           \/ records'[s] = records[s]
           \/ records'[s] = "none" /\ (\/ records[s] # "stored" \/ s \in unsaved \cup revoked
                                       \/ \A t \in Tasks : tasks'[t].pc # "none" => tasks'[t].session # s)
           \/ /\ records'[s] = "stored" /\ s \in issued'
              /\ \/ s \notin issued \cup unsaved'
                 \/ s \in shared /\ (records[s] = "stored" \/ s \in unsaved \cup revoked),
         \A s \in unsaved' \ unsaved : s \in shared \/ (s \notin issued /\ records'[s] = "none"),
         \A t \in Tasks : tasks'[t].pc = "restoring" =>
           \/ tasks'[t] = tasks[t]
           \/ tasks'[t].session \in issued /\ records[tasks'[t].session] = "stored" /\ unsaved' = unsaved,
         \A t \in Tasks : tasks'[t].pc \in Logins /\ tasks'[t].session \in issued' =>
           \/ /\ tasks'[t].session \in issued
              /\ \E u \in Tasks : tasks[u].pc \in Logins /\ tasks[u].session = tasks'[t].session
           \/ records'[tasks'[t].session] = "stored" \/ tasks'[t].session \in unsaved',
         \A s \in (unsaved \cap issued) \ shared : entries[s] = NoClient => entries'[s] = NoClient,
         \A r \in Requests : requests'[r].pc \in {"refused", "removing"} =>
           \/ requests[r].pc \in {"refused", "removing"} /\ requests'[r].session = requests[r].session
           \/ requests'[r].session \in revoked'
           \/ /\ requests'[r].session \in issued
              /\ records'[requests'[r].session] = "none"
              /\ requests'[r].session \in shared' \/ entries'[requests'[r].session] = NoClient
  PROVE  RecordInv'
<1>1. /\ \A t \in Tasks : tasks[t].session \in Sessions /\ tasks'[t].session \in Sessions
      /\ \A r \in Requests : requests[r].session \in Sessions
      /\ unsaved \subseteq issued /\ issued \subseteq Sessions /\ unsaved' \subseteq Sessions
  BY LifeFacts DEF StoreInv, TypeOK, Task
<1>2. ASSUME NEW s \in Sessions, records'[s] # "none" PROVE s \in issued'
  BY <1>2 DEF RecordInv
<1>3. ASSUME NEW s \in unsaved' \ shared' PROVE records'[s] = "none"
  <2>1. s \in Sessions /\ s \notin shared
    BY <1>1
  <2>2. CASE s \in unsaved
    BY <1>1, <2>1, <2>2 DEF RecordInv
  <2> QED
    BY <2>1, <2>2
<1>4. ASSUME NEW t \in Tasks, tasks'[t].pc = "restoring" PROVE tasks'[t].session \notin unsaved' \ shared'
  <2>1. CASE tasks'[t] = tasks[t]
    BY <1>1, <1>4, <2>1 DEF RecordInv, TaskInv, TaskOK, Restores
  <2>2. CASE tasks'[t].session \in issued /\ records[tasks'[t].session] = "stored" /\ unsaved' = unsaved
    BY <1>1, <2>2 DEF RecordInv
  <2> QED
    BY <1>4, <2>1, <2>2
<1>5. ASSUME NEW t \in Tasks, tasks'[t].pc \in Logins, tasks'[t].session \in issued'
      PROVE  records'[tasks'[t].session] = "stored" \/ tasks'[t].session \in unsaved' \cup revoked'
  <2> DEFINE s == tasks'[t].session
  <2>1. s \in Sessions /\ tasks'[t].pc # "none"
    BY <1>1, <1>5 DEF Logins
  <2>2. CASE s \in issued /\ \E u \in Tasks : tasks[u].pc \in Logins /\ tasks[u].session = s
    <3>1. records[s] = "stored" \/ s \in unsaved \cup revoked
      BY <2>2 DEF RecordInv
    <3> HIDE DEF s
    <3>2. CASE records'[s] = "none" /\ \A u \in Tasks : tasks'[u].pc # "none" => tasks'[u].session # s
      BY <2>1, <3>2 DEF s
    <3>3. CASE records'[s] = "none" /\ (records[s] # "stored" \/ s \in unsaved \cup revoked)
      BY <3>1, <3>3 DEF s
    <3>4. CASE records'[s] \in {records[s], "stored"}
      BY <3>1, <3>4 DEF s
    <3> QED
      BY <2>1, <3>2, <3>3, <3>4 DEF s
  <2> QED
    BY <1>5, <2>2
<1>6. ASSUME NEW r \in Requests, requests'[r].pc \in {"refused", "removing"},
             NEW s, s = requests'[r].session
      PROVE  /\ s \in revoked' \/ records'[s] = "none" \/ s \in shared' \cap unsaved'
             /\ s \in unsaved' \ (revoked' \cup shared') => entries'[s] = NoClient
  <2>1. CASE s \in revoked'
    BY <2>1
  <2>2. CASE records'[s] = "none" /\ (s \in shared' \/ entries'[s] = NoClient)
    BY <2>2
  <2>3. CASE requests[r].pc \in {"refused", "removing"} /\ s = requests[r].session
    <3>1. s \in issued /\ s \in Sessions
      BY <1>1, <2>3 DEF WaiterInv
    <3>2. s \in revoked \/ records[s] = "none" \/ s \in shared \cap unsaved
      BY <2>3 DEF RecordInv, RefusalIsAVerdict
    <3>3. s \in unsaved \ (revoked \cup shared) => entries[s] = NoClient
      BY <2>3 DEF RecordInv, RefusalIsAVerdict
    <3>4. s \in revoked' \/ records'[s] = "none" \/ s \in shared' \cap unsaved'
      BY <3>1, <3>2
    <3>5. s \in unsaved' \ (revoked' \cup shared') => entries'[s] = NoClient
      BY <3>1, <3>3
    <3> QED
      BY <3>4, <3>5
  <2> QED
    BY <1>6, <2>1, <2>2, <2>3
<1>7. RefusalIsAVerdict'
  BY <1>6 DEF RefusalIsAVerdict
<1> QED
  BY <1>2, <1>3, <1>4, <1>5, <1>7 DEF RecordInv

-------------------------------------------------------------------------------
(* One lemma for each kind of step. *)
LEMMA LifeOpens ==
  ASSUME StoreInv, StoreInv', LifeInv, NEW t \in Tasks, NEW c \in Clients,
         RestoreKnown(t, c) \/ \E s \in Sessions : OpenLogin(t, s, c)
  PROVE  LifeInv' /\ KeepsClients
<1>0. /\ tasks \in [Tasks -> Task] /\ calls \in [Tasks -> Call] /\ NoTask \notin Tasks
      /\ tasks[t].session \in Sessions /\ Tasks = Callers /\ NoClient \notin live
      /\ NoClient \notin live' /\ Sessions = Keys
      /\ \A u \in Tasks : tasks[u].session \in Sessions /\ calls[u].key \in Sessions
  BY LifeFacts, CacheAssumption DEF StoreInv, TypeOK, CacheTypeOK
<1>1. PICK s \in Sessions :
        /\ Open(t, s, c)
        /\ UNCHANGED <<restoring, requests, records, issued, revoked, unsaved>>
        /\ \/ /\ tasks[t].pc = "reading" /\ s = tasks[t].session /\ records[s] = "stored"
              /\ tasks' = [tasks EXCEPT ![t].pc = "restoring"]
           \/ /\ tasks[t].pc = "none" /\ s \notin issued
              /\ \A u \in Tasks : tasks[u].pc # "none" => tasks[u].session # s
              /\ tasks' = [tasks EXCEPT ![t] = [pc |-> "signing_in", session |-> s]]
  BY <1>0 DEF RestoreKnown, OpenLogin
<1>2. /\ calls[t].pc = "idle" /\ calls'[t].pc = "holding" /\ calls'[t].key = s /\ calls'[t].client = c
      /\ \A u \in Tasks \ {t} : calls'[u] = calls[u]
      /\ live' = live \cup {c} /\ entries' = entries /\ c \notin live /\ shared' = shared
      /\ \A k \in Sessions : entries[k] # c
      /\ \A u \in Tasks : calls[u].client # c
  BY <1>0, <1>1 DEF Open, Fresh
<1>3. /\ \A u \in Tasks \ {t} : tasks'[u] = tasks[u]
      /\ tasks'[t].session = s
      /\ \/ tasks'[t].pc = "restoring" /\ tasks[t].pc = "reading" /\ s = tasks[t].session /\ records[s] = "stored"
         \/ /\ tasks'[t].pc = "signing_in" /\ tasks[t].pc = "none" /\ s \notin issued
            /\ \A u \in Tasks : tasks[u].pc # "none" => tasks[u].session # s
  BY <1>0, <1>1 DEF Task
<1>4. TaskInv /\ ClientInv /\ WaiterInv /\ RecordInv /\ TaskOK(t)
  BY DEF LifeInv, TaskInv
<1>5. calls[t].client = NoClient
  BY <1>2, <1>4 DEF TaskOK, Held
<1>6. TaskInv'
  <2>1. TaskOK(t)'
    <3>1. CASE tasks'[t].pc = "restoring"
      BY <1>1, <1>2, <1>3, <1>4, <3>1 DEF TaskOK, Held, Owning, Restores, Logins
    <3>2. CASE tasks'[t].pc = "signing_in"
      BY <1>1, <1>2, <1>3, <3>2 DEF TaskOK, Held, Owning, Restores, Logins
    <3> QED
      BY <1>3, <3>1, <3>2
  <2>2. \A k \in Sessions : restoring[k] = t => tasks[t].pc = "reading" /\ tasks[t].session = k
    BY <1>0, <1>3, <1>4 DEF TaskInv, Restores
  <2>3. \A k \in Sessions :
           \/ restoring'[k] = restoring[k] /\ restoring[k] # t
           \/ /\ restoring'[k] = t /\ restoring[k] \in {NoTask, t}
              /\ tasks'[t].pc \in Restores /\ tasks'[t].session = k
    BY <1>1, <1>3, <2>2 DEF Restores
  <2>4. \A u \in Tasks \ {t} : tasks'[t].pc \in Logins /\ tasks[u].pc \in Logins
           /\ tasks'[t].session = tasks[u].session => tasks'[t].session \in shared'
    BY <1>3 DEF Logins
  <2> QED
    BY <1>1, <1>2, <1>3, <1>4, <2>1, <2>3, <2>4, TaskMoves
<1>7. ClientInv'
  <2>1. Returned' = Returned
    BY <1>1, <1>3 DEF Returned
  <2>2. tasks'[t].pc = "signing_in" => entries[s] = NoClient /\ s \notin Returned
    BY <1>3, <1>4 DEF ClientInv, Returned
  <2>3. \A u \in Tasks : tasks'[u].pc \in Restores =>
          tasks[u].pc \in Restores /\ tasks'[u].session = tasks[u].session
    BY <1>3 DEF Restores
  <2>4. \A u \in Tasks : tasks'[u].pc \in Restores =>
          /\ entries'[tasks'[u].session] \notin live'
          /\ \A v \in Tasks : tasks'[v].pc = "signing_in" /\ tasks'[v].session = tasks'[u].session =>
               calls'[v].client \notin live'
    <3> SUFFICES ASSUME NEW u \in Tasks, tasks'[u].pc \in Restores
                 PROVE  /\ entries'[tasks'[u].session] \notin live'
                        /\ \A v \in Tasks : tasks'[v].pc = "signing_in" /\ tasks'[v].session = tasks'[u].session =>
                             calls'[v].client \notin live'
      OBVIOUS
    <3>1. entries'[tasks'[u].session] \notin live'
      BY <1>0, <1>2, <1>4, <2>3 DEF ClientInv
    <3>2. ASSUME NEW v \in Tasks, tasks'[v].pc = "signing_in", tasks'[v].session = tasks'[u].session
          PROVE  calls'[v].client \notin live'
      <4>1. tasks[u].pc # "none" /\ tasks[u].session = tasks'[v].session
        BY <2>3, <3>2 DEF Restores
      <4>2. v # t /\ tasks'[v] = tasks[v]
        BY <1>3, <3>2, <4>1
      <4> QED
        BY <1>2, <1>4, <2>3, <3>2, <4>2 DEF ClientInv
    <3> QED
      BY <3>1, <3>2
  <2>5. \A u \in Tasks : tasks'[u].pc = "signing_in" /\ calls'[u].client \in live' =>
          \/ entries'[tasks'[u].session] = calls'[u].client
          \/ entries'[tasks'[u].session] = NoClient /\ tasks'[u].session \notin Returned'
    <3> SUFFICES ASSUME NEW u \in Tasks, tasks'[u].pc = "signing_in", calls'[u].client \in live'
                 PROVE  \/ entries'[tasks'[u].session] = calls'[u].client
                        \/ entries'[tasks'[u].session] = NoClient /\ tasks'[u].session \notin Returned'
      OBVIOUS
    <3>1. CASE u = t
      BY <1>2, <1>3, <2>1, <2>2, <3>1
    <3>2. CASE u # t
      <4>1. tasks'[u] = tasks[u] /\ calls'[u] = calls[u] /\ calls[u].client \in live
        BY <1>2, <1>3, <3>2
      <4>2. \/ entries[tasks[u].session] = calls[u].client
            \/ entries[tasks[u].session] = NoClient /\ tasks[u].session \notin Returned
        BY <1>4, <4>1 DEF ClientInv
      <4> QED
        BY <1>2, <2>1, <4>1, <4>2
    <3> QED
      BY <3>1, <3>2
  <2>6. \A u, v \in Tasks : tasks'[u].pc = "signing_in" /\ tasks'[v].pc = "signing_in"
          /\ tasks'[u].session = tasks'[v].session => calls'[u].client = calls'[v].client
    BY <1>2, <1>3, <1>4 DEF ClientInv
  <2>7. \A k \in Sessions : entries'[k] # NoClient => k \in Returned'
    BY <1>2, <1>4, <2>1 DEF ClientInv
  <2>8. \A u \in Tasks : calls'[u].pc = "dropping" => calls'[u].client \notin live'
    BY <1>2, <1>4 DEF ClientInv
  <2> QED
    BY <2>4, <2>5, <2>6, <2>7, <2>8 DEF ClientInv
<1>8. WaiterInv'
  <2>1. \A r \in Requests : requests[r].pc = "waiting" =>
          \/ tasks'[requests[r].task] = tasks[requests[r].task]
          \/ /\ tasks'[requests[r].task].pc \in Restores
             /\ tasks'[requests[r].task].session = tasks[requests[r].task].session
    <3>1. \A r \in Requests : requests[r].pc = "waiting" =>
            requests[r].task \in Tasks /\ tasks[requests[r].task].pc # "none"
      BY <1>4 DEF WaiterInv, WaitersHaveARestore
    <3> QED
      BY <1>3, <3>1 DEF Restores
  <2> QED
    BY <1>1, <1>4, <2>1, WaitersKeep
<1>9. RecordInv'
  <2>1. tasks'[t].pc = "restoring" => s \in issued
    BY <1>3, <1>4 DEF TaskOK, Restores
  <2>2. \A u \in Tasks : tasks'[u].pc = "restoring" =>
           \/ tasks'[u] = tasks[u]
           \/ tasks'[u].session \in issued /\ records[tasks'[u].session] = "stored" /\ unsaved' = unsaved
    BY <1>1, <1>3, <2>1
  <2>3. \A u \in Tasks : tasks'[u].pc \in Logins /\ tasks'[u].session \in issued' =>
           /\ tasks'[u].session \in issued
           /\ \E v \in Tasks : tasks[v].pc \in Logins /\ tasks[v].session = tasks'[u].session
    BY <1>1, <1>3 DEF Logins
  <2> QED
    BY <1>1, <1>2, <1>4, <2>2, <2>3, VerdictsKeep
<1>10. KeepsClients
  BY <1>0, <1>2, <1>5, OwnersKeep
<1> QED
  BY <1>6, <1>7, <1>8, <1>9, <1>10 DEF LifeInv

\* A second sign-in reads the attempt: whatever holds of the first holds of it.
LEMMA LifeJoins ==
  ASSUME StoreInv, StoreInv', LifeInv, NEW t \in Tasks, NEW u \in Tasks, JoinLogin(t, u)
  PROVE  LifeInv' /\ KeepsClients
<1>0. /\ tasks \in [Tasks -> Task] /\ calls \in [Tasks -> Call] /\ NoTask \notin Tasks
      /\ Tasks = Callers /\ NoClient \notin live
      /\ \A v \in Tasks : tasks[v].session \in Sessions /\ calls[v].key \in Sessions
  BY LifeFacts
<1>1. TaskInv /\ ClientInv /\ WaiterInv /\ RecordInv /\ TaskOK(t) /\ TaskOK(u)
  BY DEF LifeInv, TaskInv
<1>2. /\ tasks[t].pc = "signing_in" /\ calls[t].client \in live /\ tasks[u].pc = "none"
      /\ calls[t].pc = "holding" /\ calls[u].pc = "idle"
      /\ UNCHANGED <<entries, live, restoring, requests, records, issued, revoked, unsaved>>
      /\ calls' = [calls EXCEPT ![u] = calls[t]] /\ tasks' = [tasks EXCEPT ![u] = tasks[t]]
      /\ shared' = shared \cup {calls[t].key}
  BY DEF JoinLogin, Share
<1>3. /\ calls'[u] = calls[t] /\ tasks'[u] = tasks[t]
      /\ \A v \in Tasks \ {u} : calls'[v] = calls[v] /\ tasks'[v] = tasks[v]
      /\ calls[t].key = tasks[t].session /\ calls[u].client = NoClient /\ tasks[t].session \in Sessions
  BY <1>0, <1>1, <1>2 DEF TaskOK, Held
<1> DEFINE s == tasks[t].session
           old(v) == IF v = u THEN t ELSE v
<1>4. \A v \in Tasks : old(v) \in Tasks /\ tasks'[v] = tasks[old(v)] /\ calls'[v] = calls[old(v)]
  BY <1>3
<1> HIDE DEF old
<1>5. TaskInv'
  <2>1. TaskOK(u)'
    BY <1>1, <1>2, <1>3 DEF TaskOK, Held, Owning, Restores, Logins
  <2>2. \A k \in Sessions : restoring[k] # u
    BY <1>0, <1>1, <1>2 DEF TaskInv, Restores
  <2>3. s \in shared'
    BY <1>2, <1>3
  <2> QED
    BY <1>1, <1>2, <1>3, <2>1, <2>2, <2>3, TaskMoves
<1>6. ClientInv'
  <2>1. Returned' = Returned
    BY <1>2, <1>3 DEF Returned
  <2>2. \A v \in Tasks : tasks'[v].pc \in Restores =>
          /\ entries'[tasks'[v].session] \notin live'
          /\ \A w \in Tasks : tasks'[w].pc = "signing_in" /\ tasks'[w].session = tasks'[v].session =>
               calls'[w].client \notin live'
    BY <1>1, <1>2, <1>4 DEF ClientInv
  <2>3. \A v \in Tasks : tasks'[v].pc = "signing_in" /\ calls'[v].client \in live' =>
          \/ entries'[tasks'[v].session] = calls'[v].client
          \/ entries'[tasks'[v].session] = NoClient /\ tasks'[v].session \notin Returned'
    <3> SUFFICES ASSUME NEW v \in Tasks, tasks'[v].pc = "signing_in", calls'[v].client \in live'
                 PROVE  \/ entries'[tasks'[v].session] = calls'[v].client
                        \/ entries'[tasks'[v].session] = NoClient /\ tasks'[v].session \notin Returned'
      OBVIOUS
    <3>1. \/ entries[tasks[old(v)].session] = calls[old(v)].client
          \/ entries[tasks[old(v)].session] = NoClient /\ tasks[old(v)].session \notin Returned
      BY <1>1, <1>2, <1>4 DEF ClientInv
    <3> QED
      BY <1>2, <1>4, <2>1, <3>1
  <2>4. \A v, w \in Tasks : tasks'[v].pc = "signing_in" /\ tasks'[w].pc = "signing_in"
          /\ tasks'[v].session = tasks'[w].session => calls'[v].client = calls'[w].client
    BY <1>1, <1>4 DEF ClientInv
  <2>5. \A k \in Sessions : entries'[k] # NoClient => k \in Returned'
    BY <1>1, <1>2, <2>1 DEF ClientInv
  <2>6. \A v \in Tasks : calls'[v].pc = "dropping" => calls'[v].client \notin live'
    BY <1>1, <1>2, <1>4 DEF ClientInv
  <2> QED
    BY <2>2, <2>3, <2>4, <2>5, <2>6 DEF ClientInv
<1>7. WaiterInv'
  <2>1. \A r \in Requests : requests[r].pc = "waiting" => tasks'[requests[r].task] = tasks[requests[r].task]
    BY <1>1, <1>2, <1>3 DEF WaiterInv, WaitersHaveARestore
  <2> QED
    BY <1>1, <1>2, <2>1, WaitersKeep
<1>8. RecordInv'
  <2>1. \A v \in Tasks : tasks'[v].pc = "restoring" => tasks'[v] = tasks[v]
    BY <1>2, <1>3
  <2>2. \A v \in Tasks : tasks'[v].pc \in Logins =>
          \E w \in Tasks : tasks[w].pc \in Logins /\ tasks[w].session = tasks'[v].session
    BY <1>4
  <2> QED
    BY <1>1, <1>2, <2>1, <2>2, VerdictsKeep
<1>9. KeepsClients
  BY <1>0, <1>2, <1>3, OwnersKeep
<1> QED
  BY <1>5, <1>6, <1>7, <1>8, <1>9 DEF LifeInv

\* The end of a restore, with what its waiters are told: the pending entries and
\* the waiters, whatever the task did with its client.
LEMMA RestoreSettles ==
  ASSUME StoreInv, LifeInv, NEW t \in Tasks, tasks[t].pc \in Restores,
         NEW pc \in {"idle", "refused", "resumed"}, NEW c, Settle(t, pc, c), issued' = issued
  PROVE  /\ tasks'[t].pc = "none" /\ \A u \in Tasks \ {t} : tasks'[u] = tasks[u]
         /\ tasks[t].session \in Sessions /\ tasks[t].session \in issued
         /\ \A s \in Sessions : \/ restoring'[s] = restoring[s] /\ restoring[s] # t
                                \/ restoring'[s] = NoTask /\ restoring[s] = t
         /\ Returned' = Returned
         /\ WaiterInv'
         /\ \A r \in Requests : requests'[r].pc \in {"refused", "removing"} =>
              requests'[r] = requests[r] \/ (pc = "refused" /\ requests'[r].session = tasks[t].session)
<1> DEFINE s == tasks[t].session
           outcome == IF pc = "idle" THEN NoRequest
                      ELSE [pc |-> pc, session |-> s, client |-> c, task |-> NoTask]
<1>1. /\ s \in Sessions /\ NoTask \notin Tasks /\ tasks \in [Tasks -> Task]
      /\ restoring \in [Sessions -> Tasks \cup {NoTask}]
  BY LifeFacts DEF StoreInv, TypeOK
<1>2. outcome.pc = pc /\ (pc # "idle" => outcome.session = s)
  BY RestingValues
<1>3. /\ tasks' = [tasks EXCEPT ![t] = TaskOver]
      /\ restoring' = [restoring EXCEPT ![s] = NoTask]
      /\ requests' = [r \in Requests |-> IF requests[r].task = t THEN outcome ELSE requests[r]]
  BY DEF Settle
<1>4. s \in issued /\ restoring[s] = t /\ \A k \in Sessions : restoring[k] = t => k = s
  BY <1>1 DEF LifeInv, TaskInv, TaskOK
<1> HIDE DEF outcome, s
<1>5. tasks'[t].pc = "none" /\ \A u \in Tasks \ {t} : tasks'[u] = tasks[u]
  BY <1>1, <1>3, RestingValues
<1>6. \A k \in Sessions : \/ restoring'[k] = restoring[k] /\ restoring[k] # t
                          \/ restoring'[k] = NoTask /\ restoring[k] = t
  BY <1>1, <1>3, <1>4
<1>7. Returned' = Returned
  BY <1>5 DEF Returned, Restores
<1>8. \A r \in Requests : requests'[r] = IF requests[r].task = t THEN outcome ELSE requests[r]
  BY <1>3
<1>9. \A r \in Requests : requests[r].pc = "waiting" => requests[r].task \in Tasks
  BY DEF LifeInv, WaiterInv
<1>10. WaiterInv'
  <2>1. \A r \in Requests :
           \/ requests'[r].pc = "idle"
           \/ requests'[r].session \in issued' /\ requests'[r].pc # "waiting"
           \/ /\ requests'[r] = requests[r]
              /\ requests[r].pc = "waiting" => tasks'[requests[r].task] = tasks[requests[r].task]
    BY <1>2, <1>4, <1>5, <1>8, <1>9
  <2> QED
    BY <2>1, WaitersKeep DEF LifeInv
<1>11. \A r \in Requests : requests'[r].pc \in {"refused", "removing"} =>
        requests'[r] = requests[r] \/ (pc = "refused" /\ requests'[r].session = s)
  BY <1>2, <1>8
<1> QED
  BY <1>1, <1>4, <1>5, <1>6, <1>7, <1>10, <1>11 DEF s

\* The verdicts, when a restore of an issued session ends or another step leaves
\* the records, the logins and the verdicts as they are.
LEMMA VerdictsRest ==
  ASSUME StoreInv, StoreInv', LifeInv,
         UNCHANGED <<records, issued, unsaved>>, revoked \subseteq revoked', shared \subseteq shared',
         \A t \in Tasks : tasks'[t].pc \in Logins => tasks'[t].session = tasks[t].session /\ tasks[t].pc \in Logins,
         \A t \in Tasks : tasks'[t].pc = "restoring" => tasks'[t] = tasks[t],
         \A s \in (unsaved \cap issued) \ shared : entries[s] = NoClient => entries'[s] = NoClient,
         \A r \in Requests : requests'[r].pc \in {"refused", "removing"} =>
           \/ requests[r].pc \in {"refused", "removing"} /\ requests'[r].session = requests[r].session
           \/ requests'[r].session \in revoked'
  PROVE  RecordInv'
<1>1. TaskInv /\ WaiterInv /\ RecordInv
  BY DEF LifeInv
<1>2. \A t \in Tasks : tasks'[t].pc \in Logins /\ tasks'[t].session \in issued' =>
           /\ tasks'[t].session \in issued
           /\ \E u \in Tasks : tasks[u].pc \in Logins /\ tasks[u].session = tasks'[t].session
  OBVIOUS
<1> QED
  BY <1>1, <1>2, VerdictsKeep

\* A restore fails before it has a client: Redis is down, or there is no record.
LEMMA LifeUnread ==
  ASSUME StoreInv, StoreInv', LifeInv, NEW t \in Tasks, RedisFails(t) \/ RestoreUnknown(t)
  PROVE  LifeInv' /\ KeepsClients
<1>1. /\ tasks[t].pc = "reading"
      /\ UNCHANGED <<entries, live, shared, calls, issued, revoked, unsaved>>
  BY DEF RedisFails, RestoreUnknown, cacheVars
<1>2. PICK pc \in {"idle", "refused"} :
        /\ Settle(t, pc, NoClient)
        /\ \/ records' = records /\ pc = "idle"
           \/ /\ records[tasks[t].session] # "stored"
              /\ records' = [records EXCEPT ![tasks[t].session] = "none"]
  BY DEF RedisFails, RestoreUnknown
<1> DEFINE s == tasks[t].session
<1>3. /\ tasks'[t].pc = "none" /\ \A u \in Tasks \ {t} : tasks'[u] = tasks[u]
      /\ s \in Sessions /\ s \in issued
      /\ \A k \in Sessions : \/ restoring'[k] = restoring[k] /\ restoring[k] # t
                             \/ restoring'[k] = NoTask /\ restoring[k] = t
      /\ Returned' = Returned
      /\ WaiterInv'
      /\ \A r \in Requests : requests'[r].pc \in {"refused", "removing"} =>
           requests'[r] = requests[r] \/ (pc = "refused" /\ requests'[r].session = s)
  BY <1>1, <1>2, RestoreSettles DEF Restores
<1>4. TaskInv /\ ClientInv /\ WaiterInv /\ RecordInv /\ TaskOK(t)
  BY DEF LifeInv, TaskInv
<1>5. calls[t].pc = "idle" /\ calls[t].client = NoClient
  <2>1. ~Held(t)
    BY <1>1, <1>4 DEF TaskOK, Owning
  <2> QED
    BY <1>4, <2>1 DEF TaskOK, Held
<1>6. s \notin shared => entries[s] = NoClient
  BY <1>1, <1>3, <1>4, LifeFacts DEF ClientInv, Restores
<1> HIDE DEF s
<1>7. TaskInv'
  <2>1. TaskOK(t)'
    BY <1>1, <1>3, <1>5 DEF TaskOK, Held, Owning, Restores, Logins
  <2> QED
    BY <1>1, <1>3, <1>4, <2>1, TaskMoves DEF Logins
<1>8. ClientInv'
  <2>1. GoneOnly
    BY <1>1 DEF GoneOnly
  <2>2. \A u \in Tasks : /\ tasks'[u].pc = "signing_in" => tasks'[u] = tasks[u] /\ calls'[u].client = calls[u].client
                         /\ tasks'[u].pc \in Restores =>
                              tasks[u].pc \in Restores /\ tasks'[u].session = tasks[u].session
    BY <1>1, <1>3 DEF Restores
  <2> QED
    BY <1>1, <1>3, <1>4, <2>1, <2>2, ClientsOnlyGo
<1>9. RecordInv'
  <2>1. \A k \in Sessions : \/ records'[k] = records[k]
                            \/ records'[k] = "none" /\ records[k] # "stored"
    BY <1>2 DEF s, StoreInv, TypeOK
  <2>2. pc = "refused" => records'[s] = "none"
    BY <1>2, <1>3 DEF s, StoreInv, TypeOK
  <2>3. \A u \in Tasks : tasks'[u].pc = "restoring" => tasks'[u] = tasks[u]
    BY <1>3
  <2>4. \A u \in Tasks : tasks'[u].pc \in Logins /\ tasks'[u].session \in issued' =>
           /\ tasks'[u].session \in issued
           /\ \E v \in Tasks : tasks[v].pc \in Logins /\ tasks[v].session = tasks'[u].session
    BY <1>1, <1>3 DEF Logins
  <2>5. \A r \in Requests : requests'[r].pc \in {"refused", "removing"} =>
           \/ requests[r].pc \in {"refused", "removing"} /\ requests'[r].session = requests[r].session
           \/ /\ requests'[r].session \in issued
              /\ records'[requests'[r].session] = "none"
              /\ requests'[r].session \in shared' \/ entries'[requests'[r].session] = NoClient
    BY <1>1, <1>3, <1>6, <2>2
  <2> QED
    BY <1>1, <1>4, <2>1, <2>3, <2>4, <2>5, VerdictsKeep
<1>10. KeepsClients
  BY <1>1, OwnersKeep
<1> QED
  BY <1>3, <1>7, <1>8, <1>9, <1>10 DEF LifeInv

\* A login or a restore fails, and releases the client it opened.
LEMMA LifeGivesUp ==
  ASSUME StoreInv, StoreInv', LifeInv, NEW t \in Tasks, LoginFails(t) \/ RestoreFails(t)
  PROVE  LifeInv' /\ KeepsClients
<1>0. /\ tasks \in [Tasks -> Task] /\ calls \in [Tasks -> Call] /\ NoTask \notin Tasks
      /\ tasks[t].session \in Sessions /\ NoClient \notin live
  BY LifeFacts
<1>1. /\ calls[t].pc = "holding" /\ live' = live \ {calls[t].client} /\ entries' = entries
      /\ calls' = [calls EXCEPT ![t].pc = "dropping"]
      /\ UNCHANGED <<shared, restoring, requests, records, issued, revoked, unsaved>>
  BY DEF LoginFails, RestoreFails, GiveUp, Release
<1>2. /\ calls'[t].pc = "dropping" /\ calls'[t].client = calls[t].client /\ calls'[t].key = calls[t].key
      /\ \A u \in Tasks \ {t} : calls'[u] = calls[u]
  BY <1>0, <1>1 DEF Call
<1>3. /\ \A u \in Tasks \ {t} : tasks'[u] = tasks[u]
      /\ tasks'[t].session = tasks[t].session
      /\ \/ tasks[t].pc = "signing_in" /\ tasks'[t].pc = "signing_in"
         \/ /\ tasks[t].pc = "restoring" /\ tasks'[t].pc \in {"failing", "rejected"}
            /\ tasks'[t].pc = "rejected" => tasks[t].session \in revoked
  BY <1>0 DEF LoginFails, RestoreFails, Task
<1>4. TaskInv /\ ClientInv /\ WaiterInv /\ RecordInv /\ TaskOK(t)
  BY DEF LifeInv, TaskInv
<1>5. TaskInv'
  <2>1. TaskOK(t)'
    BY <1>1, <1>2, <1>3, <1>4 DEF TaskOK, Held, Owning, Restores, Logins
  <2>2. \A s \in Sessions :
           \/ restoring'[s] = restoring[s] /\ restoring[s] # t
           \/ /\ restoring'[s] = t /\ restoring[s] \in {NoTask, t}
              /\ tasks'[t].pc \in Restores /\ tasks'[t].session = s
    BY <1>0, <1>1, <1>3, <1>4 DEF TaskInv, Restores
  <2>3. \A u \in Tasks \ {t} : tasks'[t].pc \in Logins /\ tasks[u].pc \in Logins
           /\ tasks'[t].session = tasks[u].session => tasks'[t].session \in shared'
    BY <1>1, <1>3, <1>4 DEF TaskInv, Logins
  <2> QED
    BY <1>1, <1>2, <1>3, <1>4, <2>1, <2>2, <2>3, TaskMoves
<1>6. ClientInv'
  <2>1. GoneOnly
    BY <1>1 DEF GoneOnly
  <2>2. \A u \in Tasks : /\ tasks'[u].pc = "signing_in" => tasks'[u] = tasks[u] /\ calls'[u].client = calls[u].client
                         /\ tasks'[u].pc \in Restores =>
                              tasks[u].pc \in Restores /\ tasks'[u].session = tasks[u].session
    <3>1. tasks'[t].pc = "signing_in" => tasks'[t] = tasks[t]
      BY <1>0, <1>1, <1>3 DEF LoginFails, RestoreFails
    <3> QED
      BY <1>2, <1>3, <3>1 DEF Restores
  <2>3. \A u \in Tasks : calls'[u].pc = "dropping" =>
                               \/ calls[u].pc = "dropping" /\ calls'[u].client = calls[u].client
                               \/ calls'[u].client \notin live'
    BY <1>1, <1>2
  <2>4. Returned' = Returned
    BY <1>1, <1>3 DEF Returned
  <2> QED
    BY <1>4, <2>1, <2>2, <2>3, <2>4, ClientsOnlyGo
<1>7. WaiterInv'
  <2>1. \A r \in Requests : requests[r].pc = "waiting" =>
          \/ tasks'[requests[r].task] = tasks[requests[r].task]
          \/ /\ tasks'[requests[r].task].pc \in Restores
             /\ tasks'[requests[r].task].session = tasks[requests[r].task].session
    <3>1. \A r \in Requests : requests[r].pc = "waiting" =>
            requests[r].task \in Tasks /\ tasks[requests[r].task].pc # "signing_in"
      BY <1>4 DEF WaiterInv, WaitersHaveARestore
    <3> QED
      BY <1>3, <3>1 DEF Restores
  <2> QED
    BY <1>1, <1>4, <2>1, WaitersKeep
<1>8. RecordInv'
  <2>1. /\ \A u \in Tasks : tasks'[u].pc \in Logins => tasks'[u].session = tasks[u].session /\ tasks[u].pc \in Logins
        /\ \A u \in Tasks : tasks'[u].pc = "restoring" => tasks'[u] = tasks[u]
    BY <1>3 DEF Logins
  <2> QED
    BY <1>1, <2>1, VerdictsRest
<1>9. KeepsClients
  BY <1>1, <1>2, OwnersKeep
<1> QED
  BY <1>5, <1>6, <1>7, <1>8, <1>9 DEF LifeInv

\* The release is over: so is the login, or the restore and the wait for it.
LEMMA LifeGaveUp ==
  ASSUME StoreInv, StoreInv', LifeInv, NEW t \in Tasks, LoginReleased(t) \/ RestoreReleased(t)
  PROVE  LifeInv' /\ KeepsClients
<1>0. /\ tasks \in [Tasks -> Task] /\ calls \in [Tasks -> Call] /\ NoTask \notin Tasks
      /\ tasks[t].session \in Sessions /\ NoClient \notin live
  BY LifeFacts
<1>1. /\ calls[t].pc = "dropping" /\ calls' = [calls EXCEPT ![t] = NoCall]
      /\ UNCHANGED <<entries, live, shared, records, issued, revoked, unsaved>>
  BY DEF LoginReleased, RestoreReleased, GaveUp, Over
<1>2. /\ calls'[t].pc = "idle" /\ calls'[t].client = NoClient
      /\ \A u \in Tasks \ {t} : calls'[u] = calls[u]
  BY <1>0, <1>1, NoCallRests
<1>3. TaskInv /\ ClientInv /\ WaiterInv /\ RecordInv /\ TaskOK(t)
  BY DEF LifeInv, TaskInv
<1>4. calls[t].client \notin live
  BY <1>1, <1>3 DEF ClientInv
<1>5. /\ tasks'[t].pc = "none" /\ \A u \in Tasks \ {t} : tasks'[u] = tasks[u]
      /\ tasks[t].pc \notin {"none", "restoring"}
      /\ \A k \in Sessions : \/ restoring'[k] = restoring[k] /\ restoring[k] # t
                             \/ restoring'[k] = NoTask /\ restoring[k] = t
      /\ Returned' = Returned
      /\ WaiterInv'
      /\ \A r \in Requests : requests'[r].pc \in {"refused", "removing"} =>
           requests'[r] = requests[r] \/ requests'[r].session \in revoked
  <2>1. CASE RestoreReleased(t)
    <3>1. /\ tasks[t].pc \in {"failing", "rejected"}
          /\ Settle(t, IF tasks[t].pc = "rejected" THEN "refused" ELSE "idle", NoClient)
      BY <2>1 DEF RestoreReleased
    <3>2. PICK pc \in {"idle", "refused"} : Settle(t, pc, NoClient) /\ (pc = "refused" => tasks[t].session \in revoked)
      BY <1>3, <3>1 DEF TaskOK
    <3> QED
      BY <1>1, <3>1, <3>2, RestoreSettles DEF Restores
  <2>2. CASE LoginReleased(t)
    <3>1. /\ tasks[t].pc = "signing_in" /\ tasks' = [tasks EXCEPT ![t] = TaskOver]
          /\ restoring' = restoring /\ requests' = requests
      BY <2>2 DEF LoginReleased
    <3>2. tasks'[t].pc = "none" /\ \A u \in Tasks \ {t} : tasks'[u] = tasks[u]
      BY <1>0, <3>1, RestingValues
    <3>3. \A s \in Sessions : restoring[s] # t
      BY <1>0, <1>3, <3>1 DEF TaskInv, Restores
    <3>4. Returned' = Returned
      BY <1>1, <3>1, <3>2 DEF Returned
    <3>5. \A r \in Requests : requests[r].pc = "waiting" => tasks'[requests[r].task] = tasks[requests[r].task]
      BY <1>3, <3>1, <3>2 DEF WaiterInv, WaitersHaveARestore
    <3>6. WaiterInv'
      BY <1>1, <1>3, <3>1, <3>5, WaitersKeep
    <3> QED
      BY <3>1, <3>2, <3>3, <3>4, <3>6
  <2> QED
    BY <2>1, <2>2
<1>6. TaskInv'
  <2>1. TaskOK(t)'
    BY <1>2, <1>5 DEF TaskOK, Held, Owning, Restores, Logins
  <2> QED
    BY <1>1, <1>2, <1>3, <1>5, <2>1, TaskMoves DEF Logins
<1>7. ClientInv'
  <2>1. GoneOnly
    BY <1>1 DEF GoneOnly
  <2>2. \A u \in Tasks : /\ tasks'[u].pc = "signing_in" => tasks'[u] = tasks[u] /\ calls'[u].client = calls[u].client
                         /\ tasks'[u].pc \in Restores =>
                              tasks[u].pc \in Restores /\ tasks'[u].session = tasks[u].session
    BY <1>2, <1>5 DEF Restores
  <2>3. \A u \in Tasks : calls'[u].pc = "dropping" =>
                               calls[u].pc = "dropping" /\ calls'[u].client = calls[u].client
    BY <1>2
  <2> QED
    BY <1>3, <1>5, <2>1, <2>2, <2>3, ClientsOnlyGo
<1>8. RecordInv'
  <2>1. /\ \A u \in Tasks : tasks'[u].pc \in Logins => tasks'[u].session = tasks[u].session /\ tasks[u].pc \in Logins
        /\ \A u \in Tasks : tasks'[u].pc = "restoring" => tasks'[u] = tasks[u]
    BY <1>5 DEF Logins
  <2> QED
    BY <1>1, <1>5, <2>1, VerdictsRest
<1>9. KeepsClients
  BY <1>1, <1>2, <1>4, OwnersKeep
<1> QED
  BY <1>5, <1>6, <1>7, <1>8, <1>9 DEF LifeInv

\* What a step of `set` does for a task: it frees entries and waits for their
\* release, or it stores the client of the task.  For a session that no two
\* sign-ins have shared, it never overwrites another client.
LEMMA SetEffect ==
  ASSUME StoreInv, LifeInv, NEW t \in Tasks, SetCall(t) \/ SetResume(t)
  PROVE  /\ tasks[t].pc \in {"restoring", "signing_in"} /\ calls[t].key = tasks[t].session
         /\ shared' = shared
         /\ \A u \in Tasks \ {t} : calls'[u] = calls[u]
         /\ \/ /\ calls'[t].pc = "releasing" /\ calls'[t].key = calls[t].key
               /\ calls'[t].client = calls[t].client
               /\ GoneOnly
            \/ /\ calls'[t].pc = "idle" /\ calls'[t].client = NoClient
               /\ entries' = [entries EXCEPT ![tasks[t].session] = calls[t].client]
               /\ live' = live
               /\ tasks[t].session \notin shared => entries[tasks[t].session] \in {NoClient, calls[t].client}
<1> DEFINE s == tasks[t].session
<1>1. /\ calls \in [Tasks -> Call] /\ s \in Sessions /\ t \in Callers
      /\ entries \in [Sessions -> Clients \cup {NoClient}]
      /\ s \notin shared => entries[s] \in live \/ entries[s] = NoClient
  BY LifeFacts
<1>2. /\ calls[t].pc \in {"holding", "releasing"} /\ shared' = shared /\ Storing(t) /\ Held(t)
  BY DEF SetCall, SetResume, Storing, Held
<1>3. TaskOK(t) /\ ClientInv
  BY DEF LifeInv, TaskInv
<1>4. tasks[t].pc \in {"restoring", "signing_in"} /\ calls[t].key = s
  BY <1>2, <1>3 DEF TaskOK, Owning
<1>5. s \notin shared => entries[s] \in {NoClient, calls[t].client}
  <2>1. CASE tasks[t].pc = "restoring"
    BY <1>1, <1>3, <2>1 DEF ClientInv, Restores
  <2>2. CASE tasks[t].pc = "signing_in"
    <3>1. s \notin shared => calls[t].client \in live
      BY <1>2, <1>4, LifeFacts
    <3> QED
      BY <1>3, <2>2, <3>1 DEF ClientInv
  <2> QED
    BY <1>4, <2>1, <2>2
<1> HIDE DEF s
<1>6. \A c : Await(t, c) =>
        /\ calls'[t].pc = "releasing" /\ calls'[t].key = calls[t].key /\ calls'[t].client = calls[t].client
        /\ \A u \in Tasks \ {t} : calls'[u] = calls[u]
  BY <1>1 DEF Await, Call
<1>7. \/ \E c : Await(t, c) /\ GoneOnly
      \/ StoreNow(t)
  <2>1. ASSUME MakeRoomOrStore(t) PROVE (\E c : Await(t, c) /\ GoneOnly) \/ StoreNow(t)
    <3>1. CASE Full(calls[t].key)
      <4>1. EvictOldest(1) /\ Await(t, entries[order[1]])
        BY <2>1, <3>1 DEF MakeRoomOrStore
      <4>2. 1 \in 1..Len(order)
        BY <3>1, CacheAssumption DEF Full, StoreInv, CacheInv, OrderInv
      <4> QED
        BY <4>1, <4>2, EvictionsGo
    <3> QED
      BY <2>1, <3>1 DEF MakeRoomOrStore
  <2>2. CASE SetCall(t) /\ ~MakeRoomOrStore(t)
    <3>1. Evict(s) /\ Await(t, entries[s])
      BY <1>4, <2>2 DEF SetCall
    <3> QED
      BY <1>1, <3>1, EvictionsGo DEF s
  <2> QED
    BY <2>1, <2>2 DEF SetResume
<1>8. CASE StoreNow(t)
  <2>1. /\ calls' = [calls EXCEPT ![t] = NoCall] /\ live' = live
        /\ entries' = [entries EXCEPT ![s] = calls[t].client]
    BY <1>4, <1>8 DEF StoreNow, Over, Touch
  <2> QED
    BY <1>1, <1>2, <1>4, <1>5, <2>1, NoCallRests DEF s
<1> QED
  BY <1>2, <1>4, <1>6, <1>7, <1>8 DEF s

\* `set` goes one step further: it awaits a release, or the client is stored
\* and the restore ends, or the login goes on to its record.
LEMMA LifeSets ==
  ASSUME StoreInv, StoreInv', LifeInv, NEW t \in Tasks, Adopt(t) \/ RestoreConnects(t) \/ StoreResumes(t)
  PROVE  LifeInv' /\ KeepsClients
<1> DEFINE s == tasks[t].session
           c == calls[t].client
<1>0. /\ tasks \in [Tasks -> Task] /\ calls \in [Tasks -> Call] /\ NoTask \notin Tasks
      /\ s \in Sessions /\ NoClient \notin live
      /\ entries \in [Sessions -> Clients \cup {NoClient}]
      /\ \A u \in Tasks : tasks[u].session \in Sessions
      /\ unsaved \subseteq issued /\ issued \subseteq Sessions
  BY LifeFacts DEF StoreInv, TypeOK
<1>1. /\ SetCall(t) \/ SetResume(t)
      /\ Stored(t)
      /\ UNCHANGED <<records, issued, revoked, unsaved>>
  BY DEF Adopt, RestoreConnects, StoreResumes
<1>2. /\ tasks[t].pc \in {"restoring", "signing_in"} /\ calls[t].key = s
      /\ shared' = shared
      /\ \A u \in Tasks \ {t} : calls'[u] = calls[u]
      /\ \/ /\ calls'[t].pc = "releasing" /\ calls'[t].key = s /\ calls'[t].client = c
            /\ GoneOnly
         \/ /\ calls'[t].pc = "idle" /\ calls'[t].client = NoClient
            /\ entries' = [entries EXCEPT ![s] = c]
            /\ live' = live
            /\ s \notin shared => entries[s] \in {NoClient, c}
  BY <1>1, SetEffect
<1>3. TaskInv /\ ClientInv /\ WaiterInv /\ RecordInv /\ TaskOK(t)
  BY DEF LifeInv, TaskInv
<1>4. c \notin live \/ c \in Clients
  BY LifeFacts
<1> HIDE DEF s, c
<1>5. CASE calls'[t].pc = "releasing"
  <2>1. /\ calls'[t].key = s /\ calls'[t].client = c /\ GoneOnly
        /\ UNCHANGED <<tasks, restoring, requests>>
    BY <1>1, <1>2, <1>5 DEF Stored
  <2>2. TaskInv'
    <3>1. TaskOK(t)'
      BY <1>1, <1>2, <1>3, <1>5, <2>1 DEF TaskOK, Held, Owning, Restores, Logins, s
    <3>2. \A k \in Sessions :
             \/ restoring'[k] = restoring[k] /\ restoring[k] # t
             \/ /\ restoring'[k] = t /\ restoring[k] \in {NoTask, t}
                /\ tasks'[t].pc \in Restores /\ tasks'[t].session = k
      BY <1>0, <1>3, <2>1 DEF TaskInv
    <3>3. \A u \in Tasks \ {t} : tasks'[t].pc \in Logins /\ tasks[u].pc \in Logins
             /\ tasks'[t].session = tasks[u].session => tasks'[t].session \in shared'
      BY <1>2, <1>3, <2>1 DEF TaskInv
    <3> QED
      BY <1>1, <1>2, <1>3, <2>1, <3>1, <3>2, <3>3, TaskMoves
  <2>3. ClientInv'
    <3>1. \A u \in Tasks : /\ calls'[u].client = calls[u].client
                           /\ calls'[u].pc = "dropping" => calls[u].pc = "dropping"
      BY <1>2, <1>5, <2>1 DEF c
    <3>2. Returned' = Returned
      BY <1>1, <2>1 DEF Returned
    <3> QED
      BY <1>3, <2>1, <3>1, <3>2, ClientsOnlyGo
  <2>4. WaiterInv'
    BY <1>1, <1>3, <2>1, WaitersKeep
  <2>5. RecordInv'
    <3>1. \A k \in Sessions : entries[k] = NoClient => entries'[k] = NoClient
      BY <2>1 DEF GoneOnly
    <3> QED
      BY <1>0, <1>1, <1>2, <2>1, <3>1, VerdictsRest
  <2>6. KeepsClients
    <3>1. \A k \in Sessions : entries[k] \in live' => entries'[k] = entries[k]
      BY <2>1 DEF GoneOnly
    <3>2. \A u \in Tasks : calls'[u].client = calls[u].client /\ calls'[u].key = calls[u].key
      BY <1>2, <2>1 DEF c
    <3> QED
      BY <3>1, <3>2, OwnersKeep
  <2> QED
    BY <2>2, <2>3, <2>4, <2>5, <2>6 DEF LifeInv
<1>6. CASE calls'[t].pc = "idle"
  <2>1. /\ calls'[t].client = NoClient /\ live' = live /\ entries'[s] = c
        /\ \A k \in Sessions \ {s} : entries'[k] = entries[k]
        /\ s \notin shared => entries[s] \in {NoClient, c}
    BY <1>0, <1>2, <1>6
  <2>2. KeepsClients
    <3>1. \A k \in Sessions \ shared : entries[k] \in live' => entries'[k] = entries[k]
      BY <1>0, <2>1
    <3>2. \A u \in Tasks : \/ calls'[u].client = calls[u].client /\ calls'[u].key = calls[u].key
                           \/ entries'[calls[u].key] = calls[u].client
      BY <1>2, <2>1 DEF c
    <3> QED
      BY <3>1, <3>2, OwnersKeep
  <2>3. \A u \in Tasks : calls'[u].pc = "dropping" => calls'[u].client \notin live'
    BY <1>2, <1>3, <1>6, <2>1 DEF ClientInv
  <2>4. CASE tasks[t].pc = "restoring"
    <3>1. Settle(t, "resumed", c)
      BY <1>1, <1>6, <2>4 DEF Stored, c
    <3>2. /\ tasks'[t].pc = "none" /\ \A u \in Tasks \ {t} : tasks'[u] = tasks[u]
          /\ s \in issued
          /\ \A k \in Sessions : \/ restoring'[k] = restoring[k] /\ restoring[k] # t
                                 \/ restoring'[k] = NoTask /\ restoring[k] = t
          /\ Returned' = Returned
          /\ WaiterInv'
          /\ \A r \in Requests : requests'[r].pc \in {"refused", "removing"} => requests'[r] = requests[r]
      BY <1>1, <2>4, <3>1, RestoreSettles DEF Restores, s
    <3>3. TaskInv'
      <4>1. TaskOK(t)'
        BY <1>6, <2>1, <3>2 DEF TaskOK, Held, Owning, Restores, Logins
      <4> QED
        BY <1>1, <1>2, <1>3, <3>2, <4>1, TaskMoves DEF Logins
    <3>4. \A u \in Tasks \ {t} : tasks[u].pc \in Restores => tasks[u].session # s
      BY <1>3, <2>4 DEF TaskInv, TaskOK, Restores, s
    <3>5. \A u \in Tasks : tasks[u].pc = "signing_in" /\ tasks[u].session = s => calls[u].client \notin live
      BY <1>3, <2>4 DEF ClientInv, Restores, s
    <3>6. ClientInv'
      <4>1. \A u \in Tasks : tasks'[u].pc \in Restores =>
              /\ entries'[tasks'[u].session] \notin live'
              /\ \A v \in Tasks : tasks'[v].pc = "signing_in" /\ tasks'[v].session = tasks'[u].session =>
                   calls'[v].client \notin live'
        BY <1>0, <1>2, <1>3, <2>1, <3>2, <3>4 DEF ClientInv, Restores
      <4>2. \A u \in Tasks : tasks'[u].pc = "signing_in" /\ calls'[u].client \in live' =>
              \/ entries'[tasks'[u].session] = calls'[u].client
              \/ entries'[tasks'[u].session] = NoClient /\ tasks'[u].session \notin Returned'
        BY <1>0, <1>2, <1>3, <2>1, <3>2, <3>5 DEF ClientInv
      <4>3. \A u, v \in Tasks : tasks'[u].pc = "signing_in" /\ tasks'[v].pc = "signing_in"
              /\ tasks'[u].session = tasks'[v].session => calls'[u].client = calls'[v].client
        BY <1>2, <1>3, <3>2 DEF ClientInv
      <4>4. \A k \in Sessions : entries'[k] # NoClient => k \in Returned'
        BY <1>0, <1>3, <2>1, <3>2 DEF ClientInv, Returned
      <4> QED
        BY <2>3, <4>1, <4>2, <4>3, <4>4 DEF ClientInv
    <3>7. RecordInv'
      <4>1. /\ \A u \in Tasks : tasks'[u].pc \in Logins => tasks'[u].session = tasks[u].session /\ tasks[u].pc \in Logins
            /\ \A u \in Tasks : tasks'[u].pc = "restoring" => tasks'[u] = tasks[u]
        BY <3>2 DEF Logins
      <4>2. \A k \in (unsaved \cap issued) \ shared : entries[k] = NoClient => entries'[k] = NoClient
        BY <1>0, <1>3, <2>1, <2>4 DEF RecordInv, s
      <4> QED
        BY <1>1, <1>2, <3>2, <4>1, <4>2, VerdictsRest
    <3> QED
      BY <2>2, <3>2, <3>3, <3>6, <3>7 DEF LifeInv
  <2>5. CASE tasks[t].pc = "signing_in"
    <3>1. tasks' = [tasks EXCEPT ![t].pc = "saving"] /\ UNCHANGED <<restoring, requests>>
      BY <1>1, <1>6, <2>5 DEF Stored
    <3>2. /\ tasks'[t].pc = "saving" /\ tasks'[t].session = s
          /\ \A u \in Tasks \ {t} : tasks'[u] = tasks[u]
      BY <1>0, <3>1 DEF Task, s
    <3>3. TaskInv'
      <4>1. TaskOK(t)'
        BY <1>1, <1>2, <1>3, <1>6, <2>1, <2>5, <3>2 DEF TaskOK, Held, Owning, Restores, Logins, s
      <4>2. \A k \in Sessions : restoring[k] # t
        BY <1>0, <1>3, <2>5 DEF TaskInv, Restores
      <4>3. \A u \in Tasks \ {t} : tasks'[t].pc \in Logins /\ tasks[u].pc \in Logins
               /\ tasks'[t].session = tasks[u].session => tasks'[t].session \in shared'
        BY <1>2, <1>3, <2>5, <3>2 DEF TaskInv, Logins, s
      <4> QED
        BY <1>1, <1>2, <1>3, <3>1, <3>2, <4>1, <4>2, <4>3, TaskMoves
    <3>4. \A u \in Tasks : tasks[u].pc = "signing_in" /\ tasks[u].session = s => calls[u].client = c
      BY <1>3, <2>5 DEF ClientInv, s, c
    <3>5. \A u \in Tasks : tasks[u].pc \in Restores /\ tasks[u].session = s => c \notin live
      BY <1>3, <2>5 DEF ClientInv, s, c
    <3>6. Returned' = Returned \cup {s}
      BY <1>0, <1>1, <2>5, <3>2 DEF Returned, s
    <3>7. ClientInv'
      <4>1. \A u \in Tasks : tasks'[u].pc \in Restores =>
              /\ entries'[tasks'[u].session] \notin live'
              /\ \A v \in Tasks : tasks'[v].pc = "signing_in" /\ tasks'[v].session = tasks'[u].session =>
                   calls'[v].client \notin live'
        BY <1>0, <1>2, <1>3, <2>1, <3>2, <3>5 DEF ClientInv, Restores
      <4>2. \A u \in Tasks : tasks'[u].pc = "signing_in" /\ calls'[u].client \in live' =>
              \/ entries'[tasks'[u].session] = calls'[u].client
              \/ entries'[tasks'[u].session] = NoClient /\ tasks'[u].session \notin Returned'
        BY <1>0, <1>2, <1>3, <2>1, <3>2, <3>4, <3>6 DEF ClientInv
      <4>3. \A u, v \in Tasks : tasks'[u].pc = "signing_in" /\ tasks'[v].pc = "signing_in"
              /\ tasks'[u].session = tasks'[v].session => calls'[u].client = calls'[v].client
        BY <1>2, <1>3, <3>2 DEF ClientInv
      <4>4. \A k \in Sessions : entries'[k] # NoClient => k \in Returned'
        BY <1>0, <1>3, <2>1, <3>6 DEF ClientInv
      <4> QED
        BY <2>3, <4>1, <4>2, <4>3, <4>4 DEF ClientInv
    <3>8. WaiterInv'
      <4>1. \A r \in Requests : requests[r].pc = "waiting" => tasks'[requests[r].task] = tasks[requests[r].task]
        BY <1>3, <2>5, <3>2 DEF WaiterInv, WaitersHaveARestore
      <4> QED
        BY <1>1, <1>3, <3>1, <4>1, WaitersKeep
    <3>9. RecordInv'
      <4>1. /\ \A u \in Tasks : tasks'[u].pc \in Logins => tasks'[u].session = tasks[u].session /\ tasks[u].pc \in Logins
            /\ \A u \in Tasks : tasks'[u].pc = "restoring" => tasks'[u] = tasks[u]
        BY <2>5, <3>2 DEF Logins, s
      <4>2. s \notin issued \/ s \in shared
        BY <1>3, <2>5 DEF TaskOK, Logins, s
      <4>3. \A k \in (unsaved \cap issued) \ shared : entries[k] = NoClient => entries'[k] = NoClient
        BY <1>0, <2>1, <4>2
      <4> QED
        BY <1>1, <1>2, <3>1, <4>1, <4>3, VerdictsRest
    <3> QED
      BY <2>2, <3>3, <3>7, <3>8, <3>9 DEF LifeInv
  <2> QED
    BY <1>2, <2>4, <2>5
<1> QED
  BY <1>2, <1>5, <1>6

\* The record of a login is written or not; either way its session is issued.
LEMMA LifeSaves ==
  ASSUME StoreInv, StoreInv', LifeInv, NEW t \in Tasks, Save(t)
  PROVE  LifeInv' /\ KeepsClients
<1> DEFINE s == tasks[t].session
<1>0. /\ tasks \in [Tasks -> Task] /\ calls \in [Tasks -> Call] /\ NoTask \notin Tasks
      /\ s \in Sessions /\ records \in [Sessions -> {"none", "stored", "unreadable"}]
      /\ \A u \in Tasks : tasks[u].session \in Sessions
      /\ unsaved \subseteq issued /\ issued \subseteq Sessions
  BY LifeFacts DEF StoreInv, TypeOK
<1>1. /\ tasks[t].pc = "saving" /\ tasks' = [tasks EXCEPT ![t] = TaskOver] /\ issued' = issued \cup {s}
      /\ \/ records' = [records EXCEPT ![s] = "stored"] /\ unsaved' = unsaved
         \/ unsaved' = unsaved \cup {s} /\ records' = records
      /\ UNCHANGED <<entries, live, shared, calls, restoring, requests, revoked>>
  BY DEF Save, cacheVars
<1>2. tasks'[t].pc = "none" /\ \A u \in Tasks \ {t} : tasks'[u] = tasks[u]
  BY <1>0, <1>1, RestingValues
<1>3. TaskInv /\ ClientInv /\ WaiterInv /\ RecordInv /\ TaskOK(t)
  BY DEF LifeInv, TaskInv
<1>4. s \notin issued \/ s \in shared
  BY <1>1, <1>3 DEF TaskOK, Logins
<1>5. s \in issued => records[s] = "stored" \/ s \in unsaved \cup revoked
  BY <1>1, <1>3 DEF RecordInv, Logins
<1>6. s \notin issued => records[s] = "none" /\ s \notin unsaved
  BY <1>0, <1>3 DEF RecordInv
<1>7. TaskInv'
  <2>1. TaskOK(t)'
    BY <1>1, <1>2, <1>3 DEF TaskOK, Held, Owning, Restores, Logins
  <2>2. \A k \in Sessions : restoring[k] # t
    BY <1>0, <1>1, <1>3 DEF TaskInv, Restores
  <2>3. \A k \in issued' \ issued : tasks[t].pc = "saving" /\ tasks[t].session = k
    BY <1>1
  <2>4. issued \subseteq issued'
    BY <1>1
  <2> QED
    BY <1>1, <1>2, <1>3, <2>1, <2>2, <2>3, <2>4, TaskMoves DEF Logins
<1>8. ClientInv'
  <2>1. GoneOnly
    BY <1>1 DEF GoneOnly
  <2>2. Returned' = Returned
    BY <1>0, <1>1, <1>2 DEF Returned
  <2>3. \A u \in Tasks : /\ tasks'[u].pc = "signing_in" => tasks'[u] = tasks[u]
                         /\ tasks'[u].pc \in Restores =>
                              tasks[u].pc \in Restores /\ tasks'[u].session = tasks[u].session
    BY <1>2 DEF Restores
  <2> QED
    BY <1>1, <1>3, <2>1, <2>2, <2>3, ClientsOnlyGo
<1>9. WaiterInv'
  <2>1. \A r \in Requests : requests[r].pc = "waiting" => tasks'[requests[r].task] = tasks[requests[r].task]
    BY <1>1, <1>2, <1>3 DEF WaiterInv, WaitersHaveARestore
  <2> QED
    BY <1>1, <1>3, <2>1, WaitersKeep
<1>10. RecordInv'
  <2> HIDE DEF s
  <2>1. \A k \in Sessions :
           \/ records'[k] = records[k]
           \/ /\ records'[k] = "stored" /\ k \in issued'
              /\ \/ k \notin issued \cup unsaved'
                 \/ k \in shared /\ (records[k] = "stored" \/ k \in unsaved \cup revoked)
    BY <1>0, <1>1, <1>4, <1>5, <1>6
  <2>2. \A k \in unsaved' \ unsaved : k \in shared \/ (k \notin issued /\ records'[k] = "none")
    BY <1>1, <1>4, <1>6
  <2>3. \A u \in Tasks : tasks'[u].pc = "restoring" => tasks'[u] = tasks[u]
    BY <1>2
  <2>4. \A u \in Tasks : tasks'[u].pc \in Logins /\ tasks'[u].session \in issued' =>
           \/ /\ tasks'[u].session \in issued
              /\ \E v \in Tasks : tasks[v].pc \in Logins /\ tasks[v].session = tasks'[u].session
           \/ records'[tasks'[u].session] = "stored" \/ tasks'[u].session \in unsaved'
    <3> SUFFICES ASSUME NEW u \in Tasks, tasks'[u].pc \in Logins, tasks'[u].session \in issued'
                 PROVE  \/ /\ tasks'[u].session \in issued
                           /\ \E v \in Tasks : tasks[v].pc \in Logins /\ tasks[v].session = tasks'[u].session
                        \/ records'[tasks'[u].session] = "stored" \/ tasks'[u].session \in unsaved'
      OBVIOUS
    <3>1. u # t /\ tasks'[u] = tasks[u]
      BY <1>2 DEF Logins
    <3>2. CASE tasks[u].session \in issued
      BY <3>1, <3>2
    <3>3. CASE tasks[u].session = s
      BY <1>0, <1>1, <3>1, <3>3
    <3> QED
      BY <1>1, <3>1, <3>2, <3>3
  <2>5. issued \subseteq issued' /\ unsaved \subseteq unsaved' /\ revoked \subseteq revoked' /\ shared \subseteq shared'
    BY <1>1
  <2> QED
    BY <1>1, <1>3, <2>1, <2>2, <2>3, <2>4, <2>5, VerdictsKeep
<1>11. KeepsClients
  BY <1>1, OwnersKeep
<1> QED
  BY <1>7, <1>8, <1>9, <1>10, <1>11 DEF LifeInv

\* A request misses: it joins the pending restore, or starts the first one.
LEMMA LifeMisses ==
  ASSUME StoreInv, StoreInv', LifeInv, NEW r \in Requests, NEW s \in Sessions, NEW t \in Tasks, Miss(r, s, t)
  PROVE  LifeInv' /\ KeepsClients
<1>0. /\ tasks \in [Tasks -> Task] /\ calls \in [Tasks -> Call] /\ NoTask \notin Tasks /\ NoClient \notin live
      /\ restoring \in [Sessions -> Tasks \cup {NoTask}] /\ requests \in [Requests -> Request]
      /\ \A u \in Tasks : tasks[u].session \in Sessions
  BY LifeFacts DEF StoreInv, TypeOK
<1>1. /\ requests[r].pc = "idle" /\ s \in issued /\ entries[s] = NoClient
      /\ requests' = [requests EXCEPT ![r] =
           [pc |-> "waiting", session |-> s, client |-> NoClient, task |-> t]]
      /\ UNCHANGED <<entries, live, shared, calls, records, issued, revoked, unsaved>>
      /\ \/ restoring[s] = t /\ UNCHANGED <<tasks, restoring>>
         \/ /\ restoring[s] = NoTask /\ tasks[t].pc = "none"
            /\ tasks' = [tasks EXCEPT ![t] = [pc |-> "reading", session |-> s]]
            /\ restoring' = [restoring EXCEPT ![s] = t]
  BY DEF Miss, cacheVars
<1>2. TaskInv /\ ClientInv /\ WaiterInv /\ RecordInv /\ TaskOK(t)
  BY DEF LifeInv, TaskInv
<1>3. /\ requests'[r].pc = "waiting" /\ requests'[r].session = s /\ requests'[r].task = t
      /\ \A q \in Requests \ {r} : requests'[q] = requests[q]
  BY <1>0, <1>1
<1>4. /\ \A u \in Tasks \ {t} : tasks'[u] = tasks[u]
      /\ tasks'[t].pc \in Restores /\ tasks'[t].session = s
      /\ \A q \in Requests : requests[q].pc = "waiting" => tasks'[requests[q].task] = tasks[requests[q].task]
  <2>1. CASE restoring[s] = t /\ UNCHANGED <<tasks, restoring>>
    BY <1>0, <1>2, <2>1 DEF TaskInv
  <2>2. CASE /\ tasks[t].pc = "none"
             /\ tasks' = [tasks EXCEPT ![t] = [pc |-> "reading", session |-> s]]
    BY <1>0, <1>2, <2>2 DEF Restores, WaiterInv, WaitersHaveARestore
  <2> QED
    BY <1>1, <2>1, <2>2
<1>5. TaskInv' /\ ClientInv'
  <2>1. CASE restoring[s] = t /\ UNCHANGED <<tasks, restoring>>
    BY <1>1, <1>2, <2>1 DEF TaskInv, TaskOK, Held, ClientInv, Returned
  <2>2. CASE /\ restoring[s] = NoTask /\ tasks[t].pc = "none"
             /\ tasks' = [tasks EXCEPT ![t] = [pc |-> "reading", session |-> s]]
             /\ restoring' = [restoring EXCEPT ![s] = t]
    <3>1. tasks'[t].pc = "reading" /\ tasks'[t].session = s /\ \A u \in Tasks \ {t} : tasks'[u] = tasks[u]
      BY <1>0, <2>2
    <3>2. \A k \in Sessions :
             \/ restoring'[k] = restoring[k] /\ restoring[k] # t
             \/ /\ restoring'[k] = t /\ restoring[k] \in {NoTask, t}
                /\ tasks'[t].pc \in Restores /\ tasks'[t].session = k
      <4>1. \A k \in Sessions : restoring[k] # t
        BY <1>0, <1>2, <2>2 DEF TaskInv, Restores
      <4> QED
        BY <1>0, <1>4, <2>2, <4>1
    <3>3. TaskOK(t)'
      BY <1>0, <1>1, <1>2, <2>2, <3>1 DEF TaskOK, Held, Owning, Restores, Logins
    <3>4. TaskInv'
      BY <1>1, <1>2, <3>1, <3>2, <3>3, TaskMoves DEF Logins
    <3>5. Returned' = Returned
      BY <1>1, <2>2, <3>1 DEF Returned
    <3>6. \A u \in Tasks : tasks[u].pc = "signing_in" /\ tasks[u].session = s => calls[u].client \notin live
      BY <1>0, <1>1, <1>2 DEF ClientInv, Returned
    <3>7. \A u \in Tasks : tasks'[u].pc = "signing_in" => tasks'[u] = tasks[u]
      BY <3>1
    <3>8. \A u \in Tasks : tasks'[u].pc \in Restores =>
            /\ entries'[tasks'[u].session] \notin live'
            /\ \A v \in Tasks : tasks'[v].pc = "signing_in" /\ tasks'[v].session = tasks'[u].session =>
                 calls'[v].client \notin live'
      <4> SUFFICES ASSUME NEW u \in Tasks, tasks'[u].pc \in Restores
                   PROVE  /\ entries[tasks'[u].session] \notin live
                          /\ \A v \in Tasks : tasks'[v].pc = "signing_in" /\ tasks'[v].session = tasks'[u].session =>
                               calls[v].client \notin live
        BY <1>1
      <4>1. CASE u = t
        BY <1>0, <1>1, <3>1, <3>6, <3>7, <4>1
      <4>2. CASE u # t
        BY <1>2, <3>1, <3>7, <4>2 DEF ClientInv
      <4> QED
        BY <4>1, <4>2
    <3>9. ClientInv'
      BY <1>1, <1>2, <3>5, <3>7, <3>8 DEF ClientInv
    <3> QED
      BY <3>4, <3>9
  <2> QED
    BY <1>1, <2>1, <2>2
<1>6. WaiterInv'
  BY <1>1, <1>2, <1>3, <1>4 DEF WaiterInv, WaitersHaveARestore, Restores
<1>7. RecordInv'
  <2>1. tasks'[t].pc = "reading" \/ tasks'[t] = tasks[t]
    BY <1>0, <1>1
  <2>2. /\ \A u \in Tasks : tasks'[u].pc \in Logins => tasks'[u].session = tasks[u].session /\ tasks[u].pc \in Logins
        /\ \A u \in Tasks : tasks'[u].pc = "restoring" => tasks'[u] = tasks[u]
    BY <1>4, <2>1 DEF Logins, Restores
  <2>3. \A q \in Requests : requests'[q].pc \in {"refused", "removing"} => requests'[q] = requests[q]
    BY <1>3
  <2> QED
    BY <1>1, <2>2, <2>3, VerdictsRest
<1>8. KeepsClients
  BY <1>1, OwnersKeep
<1> QED
  BY <1>5, <1>6, <1>7, <1>8 DEF LifeInv

\* Steps of requests and of the environment: no task moves, no client arrives.
LEMMA LifeRests ==
  ASSUME StoreInv, StoreInv', LifeInv,
         UNCHANGED <<tasks, restoring, calls, shared, issued, unsaved>>, revoked \subseteq revoked', GoneOnly,
         \A s \in Sessions :
           \/ records'[s] = records[s]
           \/ records'[s] = "none" /\ (\/ s \in unsaved \cup revoked \/ records[s] # "stored"
                                       \/ \A t \in Tasks : tasks[t].pc # "none" => tasks[t].session # s),
         \A r \in Requests :
           \/ requests'[r].pc = "idle" \/ requests'[r] = requests[r]
           \/ /\ requests'[r].pc # "waiting" /\ requests'[r].session \in issued
              /\ requests'[r].pc \in {"refused", "removing"} =>
                   \/ requests[r].pc \in {"refused", "removing"} /\ requests'[r].session = requests[r].session
                   \/ requests'[r].session \in revoked'
  PROVE  LifeInv' /\ KeepsClients
<1>1. TaskInv /\ ClientInv /\ WaiterInv /\ RecordInv
  BY DEF LifeInv
<1>2. TaskInv'
  BY <1>1 DEF TaskInv, TaskOK, Held
<1>3. ClientInv'
  <2>1. Returned' = Returned
    BY DEF Returned
  <2> QED
    BY <1>1, <2>1, ClientsOnlyGo
<1>4. WaiterInv'
  BY <1>1, WaitersKeep
<1>5. RecordInv'
  <2>1. \A s \in Sessions : entries[s] = NoClient => entries'[s] = NoClient
    BY DEF GoneOnly
  <2>2. unsaved \subseteq Sessions
    BY DEF StoreInv, TypeOK
  <2>3. \A r \in Requests : requests'[r].pc \in {"refused", "removing"} =>
           \/ requests[r].pc \in {"refused", "removing"} /\ requests'[r].session = requests[r].session
           \/ requests'[r].session \in revoked'
    OBVIOUS
  <2>4. \A s \in Sessions :
           \/ records'[s] = records[s]
           \/ records'[s] = "none" /\ (\/ records[s] # "stored" \/ s \in unsaved \cup revoked
                                       \/ \A t \in Tasks : tasks'[t].pc # "none" => tasks'[t].session # s)
    OBVIOUS
  <2>5. \A t \in Tasks : tasks'[t].pc \in Logins /\ tasks'[t].session \in issued' =>
           /\ tasks'[t].session \in issued
           /\ \E u \in Tasks : tasks[u].pc \in Logins /\ tasks[u].session = tasks'[t].session
    OBVIOUS
  <2> QED
    BY <1>1, <2>1, <2>2, <2>3, <2>4, <2>5, VerdictsKeep
<1>6. KeepsClients
  <2>1. \A s \in Sessions : entries[s] \in live' => entries'[s] = entries[s]
    BY DEF GoneOnly
  <2> QED
    BY <2>1, OwnersKeep
<1> QED
  BY <1>2, <1>3, <1>4, <1>5, <1>6 DEF LifeInv

LEMMA LifeOfRequests ==
  ASSUME StoreInv, StoreInv', LifeInv, NEW r \in Requests,
         \/ \E s \in Sessions : Hit(r, s)
         \/ Resume(r) \/ Reconnect(r) \/ Answered(r) \/ Rejected(r)
         \/ EvictInvalid(r) \/ RemoveRecord(r)
  PROVE  LifeInv' /\ KeepsClients
<1>0. /\ requests \in [Requests -> Request] /\ requests[r].session \in Sessions /\ Sessions = Keys
      /\ entries \in [Sessions -> Clients \cup {NoClient}]
      /\ records \in [Sessions -> {"none", "stored", "unreadable"}]
  BY LifeFacts DEF StoreInv, TypeOK
<1>1. requests[r].pc # "idle" => requests[r].session \in issued
  BY DEF LifeInv, WaiterInv
<1>2. \A pc \in RequestPc : requests' = Step(r, pc) =>
        /\ requests'[r].pc = pc /\ requests'[r].session = requests[r].session
        /\ \A q \in Requests \ {r} : requests'[q] = requests[q]
  BY <1>0 DEF Step, Request
<1>3. requests' = Answer(r) =>
        requests'[r].pc = "idle" /\ \A q \in Requests \ {r} : requests'[q] = requests[q]
  BY <1>0, RestingValues DEF Answer
<1>4. ASSUME NEW s \in Sessions, Hit(r, s) PROVE LifeInv' /\ KeepsClients
  <2>1. /\ s \in issued /\ Touch(s, entries[s])
        /\ UNCHANGED <<live, calls, shared, tasks, restoring, records, issued, revoked, unsaved>>
    BY <1>4 DEF Hit, Get
  <2>2. entries' = entries
    BY <1>0, <2>1 DEF Touch
  <2>3. PICK pc \in Use : requests' = [requests EXCEPT ![r] =
           [pc |-> pc, session |-> s, client |-> entries[s], task |-> NoTask]]
    BY <1>4 DEF Hit
  <2>4. /\ requests'[r].pc \in Use /\ requests'[r].session = s
        /\ \A q \in Requests \ {r} : requests'[q] = requests[q]
    BY <1>0, <2>3
  <2>5. GoneOnly
    BY <2>1, <2>2 DEF GoneOnly
  <2> QED
    BY <2>1, <2>4, <2>5, LifeRests DEF Use
<1>5. CASE Resume(r) \/ Reconnect(r) \/ Answered(r) \/ Rejected(r)
  <2>1. UNCHANGED <<entries, live, calls, shared, tasks, restoring, records, issued, revoked, unsaved>>
    BY <1>5 DEF Resume, Reconnect, Answered, Rejected, cacheVars
  <2>2. /\ requests[r].pc # "idle"
        /\ \/ requests' = Answer(r)
           \/ \E pc \in Use : requests' = Step(r, pc)
           \/ requests' = Step(r, "refused") /\ requests[r].session \in revoked
    BY <1>5 DEF Resume, Reconnect, Answered, Rejected, Use
  <2>3. /\ \A q \in Requests \ {r} : requests'[q] = requests[q]
        /\ \/ requests'[r].pc = "idle"
           \/ requests'[r].pc \in Use /\ requests'[r].session \in issued
           \/ requests'[r].pc = "refused" /\ requests'[r].session \in issued \cap revoked
    BY <1>1, <1>2, <1>3, <2>2 DEF Use, RequestPc
  <2>4. GoneOnly
    BY <2>1 DEF GoneOnly
  <2> QED
    BY <2>1, <2>3, <2>4, LifeRests DEF Use
<1>6. CASE EvictInvalid(r)
  <2>1. /\ requests[r].pc = "refused" /\ Evict(requests[r].session)
        /\ UNCHANGED <<calls, shared, tasks, restoring, records, issued, revoked, unsaved>>
        /\ requests' = [requests EXCEPT ![r].pc = "removing", ![r].client = entries[requests[r].session]]
    BY <1>6 DEF EvictInvalid
  <2>2. /\ requests'[r].pc = "removing" /\ requests'[r].session = requests[r].session
        /\ \A q \in Requests \ {r} : requests'[q] = requests[q]
    BY <1>0, <2>1 DEF Request
  <2>3. GoneOnly
    BY <1>0, <2>1, EvictionsGo
  <2> QED
    BY <1>1, <2>1, <2>2, <2>3, LifeRests
<1>7. CASE RemoveRecord(r)
  <2> DEFINE s == requests[r].session
  <2>1. /\ requests[r].pc = "removing" /\ requests' = Answer(r)
        /\ records' \in {records, [records EXCEPT ![s] = "none"]}
        /\ UNCHANGED <<entries, live, calls, shared, tasks, restoring, issued, revoked, unsaved>>
    BY <1>7 DEF RemoveRecord, cacheVars
  <2>2. s \in unsaved \cup revoked \/ records[s] # "stored"
    BY <2>1 DEF LifeInv, RecordInv, RefusalIsAVerdict
  <2>3. \A k \in Sessions : \/ records'[k] = records[k]
                            \/ records'[k] = "none" /\ k = s
    BY <1>0, <2>1
  <2> HIDE DEF s
  <2>4. GoneOnly
    BY <2>1 DEF GoneOnly
  <2> QED
    BY <1>3, <2>1, <2>2, <2>3, <2>4, LifeRests
<1> QED
  BY <1>4, <1>5, <1>6, <1>7

LEMMA LifeOfTheEnvironment ==
  ASSUME StoreInv, StoreInv', LifeInv,
         \/ Sweep \/ UNCHANGED vars
         \/ \E c \in Clients : Destroyed(c) \/ Drop(c)
         \/ \E s \in Sessions : Revoke(s) \/ Lapse(s)
  PROVE  LifeInv' /\ KeepsClients
<1>1. /\ UNCHANGED <<tasks, restoring, calls, shared, issued, unsaved, requests>> /\ revoked \subseteq revoked'
  BY DEF Sweep, SweepIdle, Destroyed, Released, Drop, Revoke, Lapse, vars, cacheVars
<1>2. GoneOnly
  <2>1. CASE Sweep
    BY <2>1, EvictionsGo DEF Sweep, SweepIdle
  <2>2. CASE UNCHANGED <<entries, live>>
    BY <2>2 DEF GoneOnly
  <2> QED
    BY <2>1, <2>2 DEF Destroyed, Released, Drop, Revoke, Lapse, vars, cacheVars
<1>3. \A s \in Sessions :
           \/ records'[s] = records[s]
           \/ records'[s] = "none" /\ \A t \in Tasks : tasks[t].pc # "none" => tasks[t].session # s
  <2>1. records \in [Sessions -> {"none", "stored", "unreadable"}]
    BY DEF StoreInv, TypeOK
  <2>2. ASSUME NEW s \in Sessions, Lapse(s)
        PROVE  \A k \in Sessions :
                 \/ records'[k] = records[k]
                 \/ records'[k] = "none" /\ \A t \in Tasks : tasks[t].pc # "none" => tasks[t].session # k
    BY <2>1, <2>2 DEF Lapse
  <2>3. CASE records' = records
    BY <2>3
  <2> QED
    BY <2>2, <2>3 DEF Sweep, Destroyed, Drop, Revoke, vars
<1> QED
  BY <1>1, <1>2, <1>3, LifeRests

\* A new process has no task, no client and no request.
LEMMA LifeStarts ==
  ASSUME \A t \in Tasks : tasks[t].pc = "none" /\ calls[t].pc = "idle" /\ calls[t].client = NoClient,
         \A s \in Sessions : restoring[s] = NoTask /\ entries[s] = NoClient,
         \A r \in Requests : requests[r].pc = "idle",
         \A s \in Sessions : records[s] # "none" => s \in issued,
         unsaved = {}
  PROVE  LifeInv
<1>1. TaskInv
  BY DEF TaskInv, TaskOK, Held, Owning, Restores, Logins
<1>2. ClientInv
  BY DEF ClientInv, Restores
<1>3. WaiterInv
  BY DEF WaiterInv, WaitersHaveARestore
<1>4. RecordInv
  BY DEF RecordInv, RefusalIsAVerdict, Logins
<1> QED
  BY <1>1, <1>2, <1>3, <1>4 DEF LifeInv

LEMMA LifeInvInit == Init => LifeInv
  BY NoCallRests, RestingValues, LifeStarts DEF Init, NoEntries

LEMMA LifeRestarts ==
  ASSUME LifeInv, Restart
  PROVE  LifeInv' /\ KeepsClients
<1>1. /\ \A t \in Tasks : tasks'[t].pc = "none" /\ calls'[t].pc = "idle" /\ calls'[t].client = NoClient
      /\ \A s \in Sessions : restoring'[s] = NoTask /\ entries'[s] = NoClient
      /\ \A r \in Requests : requests'[r].pc = "idle"
      /\ unsaved' = {} /\ live' = {}
  BY NoCallRests, RestingValues DEF Restart, NoEntries
<1>2. \A s \in Sessions : records'[s] # "none" => s \in issued'
  BY DEF Restart, LifeInv, RecordInv
<1>3. TaskInv'
  BY <1>1 DEF TaskInv, TaskOK, Held, Owning, Restores, Logins
<1>4. ClientInv'
  BY <1>1 DEF ClientInv, Restores
<1>5. WaiterInv'
  BY <1>1 DEF WaiterInv, WaitersHaveARestore
<1>6. RecordInv'
  BY <1>1, <1>2 DEF RecordInv, RefusalIsAVerdict, Logins
<1>7. KeepsClients
  BY <1>1 DEF KeepsClients
<1> QED
  BY <1>3, <1>4, <1>5, <1>6, <1>7 DEF LifeInv

LEMMA LifeInvNext == StoreInv /\ StoreInv' /\ LifeInv /\ [Next]_vars => LifeInv' /\ KeepsClients
<1> SUFFICES ASSUME StoreInv, StoreInv', LifeInv, [Next]_vars PROVE LifeInv' /\ KeepsClients
  OBVIOUS
<1>1. ASSUME NEW t \in Tasks, NEW c \in Clients, RestoreKnown(t, c) \/ \E s \in Sessions : OpenLogin(t, s, c)
      PROVE  LifeInv' /\ KeepsClients
  BY <1>1, LifeOpens
<1>2. ASSUME NEW t \in Tasks,
             \/ \E u \in Tasks : JoinLogin(t, u)
             \/ LoginFails(t) \/ LoginReleased(t) \/ Adopt(t) \/ Save(t)
             \/ RedisFails(t) \/ RestoreUnknown(t)
             \/ RestoreFails(t) \/ RestoreReleased(t) \/ RestoreConnects(t) \/ StoreResumes(t)
      PROVE  LifeInv' /\ KeepsClients
  BY <1>2, LifeJoins, LifeGivesUp, LifeGaveUp, LifeSets, LifeSaves, LifeUnread
<1>3. ASSUME NEW r \in Requests,
             \/ \E s \in Sessions : Hit(r, s) \/ \E t \in Tasks : Miss(r, s, t)
             \/ Resume(r) \/ Reconnect(r) \/ Answered(r) \/ Rejected(r)
             \/ EvictInvalid(r) \/ RemoveRecord(r)
      PROVE  LifeInv' /\ KeepsClients
  BY <1>3, LifeMisses, LifeOfRequests
<1>4. CASE \/ Sweep \/ UNCHANGED vars
           \/ \E c \in Clients : Destroyed(c) \/ Drop(c)
           \/ \E s \in Sessions : Revoke(s) \/ Lapse(s)
  BY <1>4, LifeOfTheEnvironment
<1>5. CASE Restart
  BY <1>5, LifeRestarts
<1> QED
  BY <1>1, <1>2, <1>3, <1>4, <1>5 DEF Next

\* Two clients of one session that are both live are one.
LEMMA LifeIsSingle == StoreInv /\ LifeInv => OneClientPerSession
<1> SUFFICES ASSUME StoreInv, LifeInv, NEW s \in Sessions
             PROVE  Cardinality(ClientsOf(s) \cap live) <= 1
  BY DEF OneClientPerSession
<1>0. NoClient \notin live
  BY LifeFacts
<1>1. TaskInv /\ ClientInv
  BY DEF LifeInv
<1>2. \A t \in Tasks : calls[t].client \in live /\ calls[t].key = s =>
        tasks[t].session = s /\ tasks[t].pc \in Owning
  BY <1>0, <1>1 DEF TaskInv, TaskOK
<1>3. \A t \in Tasks : calls[t].client \in live /\ calls[t].key = s =>
        entries[s] \notin live \/ entries[s] = calls[t].client
  BY <1>0, <1>1, <1>2 DEF ClientInv, Owning, Restores
<1>4. \A t, u \in Tasks : /\ calls[t].client \in live /\ calls[t].key = s
                          /\ calls[u].client \in live /\ calls[u].key = s
                          => calls[t].client = calls[u].client
  <2> SUFFICES ASSUME NEW t \in Tasks, NEW u \in Tasks, calls[t].client \in live, calls[t].key = s,
                      calls[u].client \in live, calls[u].key = s
               PROVE  calls[t].client = calls[u].client
    OBVIOUS
  <2>1. tasks[t].session = s /\ tasks[t].pc \in Owning /\ tasks[u].session = s /\ tasks[u].pc \in Owning
    BY <1>2
  <2>2. CASE tasks[t].pc = "signing_in" /\ tasks[u].pc = "signing_in"
    BY <1>1, <2>1, <2>2 DEF ClientInv
  <2>3. CASE tasks[t].pc \in Restores /\ tasks[u].pc \in Restores
    BY <1>1, <2>1, <2>3 DEF TaskInv, TaskOK
  <2>4. CASE tasks[t].pc \in Restores /\ tasks[u].pc = "signing_in"
    BY <1>1, <2>1, <2>4 DEF ClientInv
  <2>5. CASE tasks[t].pc = "signing_in" /\ tasks[u].pc \in Restores
    BY <1>1, <2>1, <2>5 DEF ClientInv
  <2> QED
    BY <2>1, <2>2, <2>3, <2>4, <2>5 DEF Owning, Restores
<1>5. \A c, d \in ClientsOf(s) \cap live : c = d
  BY <1>3, <1>4 DEF ClientsOf
<1>6. CASE ClientsOf(s) \cap live = {}
  BY <1>6, FS_EmptySet
<1>7. ASSUME NEW c \in ClientsOf(s) \cap live PROVE Cardinality(ClientsOf(s) \cap live) <= 1
  <2>1. ClientsOf(s) \cap live = {c}
    BY <1>5
  <2>2. Cardinality({c}) = 1
    BY FS_Singleton
  <2> QED
    BY <2>1, <2>2
<1> QED
  BY <1>6, <1>7

-------------------------------------------------------------------------------
\* Unless two sign-ins share an attempt, no step leaves a live client to nobody:
\* it is released, or stays cached or with the task that opened it, whatever
\* fails, is evicted or overlaps.
THEOREM ClientsAreNotLetGo == Spec => NoClientIsLetGo
<1>1. StoreInv /\ StoreInv' /\ LifeInv /\ [Next]_vars =>
        [\A s \in Sessions \ shared : ClientsOf(s) \cap live' \subseteq ClientsOf(s)']_vars
  BY LifeInvNext DEF KeepsClients
<1>2. StoreInv /\ StoreInv' /\ LifeInv /\ [Next]_vars => LifeInv'
  BY LifeInvNext
<1> QED
  BY <1>1, <1>2, LifeInvInit, StoreInvInit, StoreInvNext, PTL DEF Spec, NoClientIsLetGo

\* No session ever has two clients that nobody has released, two sign-ins of
\* one attempt included.
THEOREM SessionsHaveOneClient == Spec => []OneClientPerSession
<1>1. StoreInv /\ StoreInv' /\ LifeInv /\ [Next]_vars => LifeInv'
  BY LifeInvNext
<1> QED
  BY <1>1, LifeIsSingle, LifeInvInit, StoreInvInit, StoreInvNext, PTL DEF Spec

\* Every waiting request shares a restore of its session that is under way.
THEOREM WaitersShareARestore == Spec => []WaitersHaveARestore
<1>1. StoreInv /\ StoreInv' /\ LifeInv /\ [Next]_vars => LifeInv'
  BY LifeInvNext
<1>2. LifeInv => WaitersHaveARestore
  BY DEF LifeInv, WaiterInv
<1> QED
  BY <1>1, <1>2, LifeInvInit, StoreInvInit, StoreInvNext, PTL DEF Spec

\* A 401 always is a verdict on the session, and an outage never becomes one.
THEOREM RefusalsAreVerdicts == Spec => []RefusalIsAVerdict
<1>1. StoreInv /\ StoreInv' /\ LifeInv /\ [Next]_vars => LifeInv'
  BY LifeInvNext
<1>2. LifeInv => RefusalIsAVerdict
  BY DEF LifeInv, RecordInv
<1> QED
  BY <1>1, <1>2, LifeInvInit, StoreInvInit, StoreInvNext, PTL DEF Spec
===============================================================================
