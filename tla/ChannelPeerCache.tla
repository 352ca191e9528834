---------------------------- MODULE ChannelPeerCache ----------------------------
(***************************************************************************)
(* channel-peer-cache.ts: the resolved peer of a channel per account, kept  *)
(* in Redis when it is configured and in a bounded map otherwise.  A failing *)
(* Redis behaves as an empty cache, and its entries expire.                 *)
(***************************************************************************)
EXTENDS Integers, SequencesExt

CONSTANTS Keys,        \* an account and a channel each
          Peers,       \* id and access hash pairs
          NoPeer,      \* undefined
          MaxEntries   \* CHANNEL_PEER_CACHE_MAX_ENTRIES

ASSUME PeerCacheAssumption == MaxEntries \in Nat \ {0} /\ NoPeer \notin Peers

VARIABLES redis,    \* whether Redis is configured
          entries   \* the entries, the least recently used first

cache == <<redis, entries>>
Entry == [key : Keys, peer : Peers]

CacheInit ==
  /\ redis \in BOOLEAN
  /\ entries \in {<<>>} \cup {<<e>> : e \in Entry}

-------------------------------------------------------------------------------
IsCached(key) == \E i \in DOMAIN entries : entries[i].key = key
Place(key) == CHOOSE i \in DOMAIN entries : entries[i].key = key

PeerOf(key) == IF IsCached(key) THEN entries[Place(key)].peer ELSE NoPeer
Without(key) == IF IsCached(key) THEN RemoveAt(entries, Place(key)) ELSE entries
With(key, peer) == Append(Without(key), [key |-> key, peer |-> peer])

\* Mutant: the map grows by one before anything is evicted from it.
EvictLate(all) == IF Len(all) > MaxEntries + 1 THEN Tail(all) ELSE all

EvictOverflow(all) ==
  IF Len(all) > MaxEntries THEN SubSeq(all, Len(all) - MaxEntries + 1, Len(all)) ELSE all

\* A hit in the map becomes its most recently used entry; Redis may fail.
GetPeer(key, peer) ==
  /\ \/ ~redis /\ peer = PeerOf(key)
        /\ entries' = IF peer = NoPeer THEN entries ELSE With(key, peer)
     \/ redis /\ peer \in {PeerOf(key), NoPeer} /\ UNCHANGED entries
  /\ UNCHANGED redis

SetPeer(key, peer) ==
  /\ \/ ~redis /\ entries' = EvictOverflow(With(key, peer))
     \/ redis /\ entries' \in {With(key, peer), entries}
  /\ UNCHANGED redis

RemovePeer(key) ==
  /\ \/ ~redis /\ entries' = Without(key)
     \/ redis /\ entries' \in {Without(key), entries}
  /\ UNCHANGED redis

\* CHANNEL_PEER_TTL_S has passed since the entry was last read.
Expire(key) ==
  /\ redis /\ PeerOf(key) # NoPeer
  /\ entries' = Without(key)
  /\ UNCHANGED redis

-------------------------------------------------------------------------------
\* "otherwise a bounded in-memory map" (channel-peer-cache.ts:20): whatever reads of
\* whatever accounts and channels do to it, the map holds at most MaxEntries peers,
\* and one peer of a key.
PeersAreBounded ==
  /\ ~redis => Len(entries) <= MaxEntries
  /\ \A i, j \in DOMAIN entries : entries[i].key = entries[j].key => i = j
===============================================================================
