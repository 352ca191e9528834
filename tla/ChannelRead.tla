------------------------------ MODULE ChannelRead ------------------------------
(***************************************************************************)
(* One read of a channel (channel.service.ts): the client of its session,   *)
(* the cached peer, the lookup it may fall back to, the walk page by page,  *)
(* the probe past the ceiling, and what becomes of a failure, while posts   *)
(* appear and go, the peer of the channel changes, and other reads of this  *)
(* and of other channels use the peer cache.  Message ids grow with their   *)
(* dates, so the window is a lowest id.                                     *)
(***************************************************************************)
EXTENDS ChannelPeerCache, TelegramErrors

CONSTANTS MaxId,        \* bound: message ids of the channel
          Histories,    \* bound: what those ids may be
          Windows,      \* where the window of a read may begin
          Key,          \* the key of the read: its account and its channel
          PageSize,     \* POSTS_PAGE_SIZE
          MaxMessages,  \* POSTS_MAX_MESSAGES
          ClientErrors, \* how getConnected may fail
          CallErrors,   \* how any call may fail, whatever is asked
          LookupErrors, \* how a username lookup may fail besides
          PeerErrors    \* what Telegram answers to a peer it does not accept

Ids == 1 .. MaxId
Kinds == {"post", "service", "undated"}

ASSUME ChannelAssumption ==
  /\ MaxId \in Nat \ {0} /\ PageSize \in Nat \ {0} /\ MaxMessages \in Nat \ {0}
  /\ Windows \subseteq 1 .. MaxId + 1
  /\ Key \in Keys
  /\ Histories \subseteq [Ids -> Kinds \cup {"none"}]

\* What GramJS does: of a channel only a lookup and a refused peer speak.
ASSUME ErrorAssumption ==
  /\ \A e \in ClientErrors \cup CallErrors \cup LookupErrors \cup PeerErrors : IsAnError(e)
  /\ \A e \in ClientErrors \cup CallErrors :
       ~IsChannelUnavailable(e) /\ e.code \notin ChannelPeerStaleErrors
  /\ \A e \in LookupErrors : IsChannelUnavailable(e)
  /\ \A e \in PeerErrors : e.code \in ChannelPeerStaleErrors \cup ChannelUnavailableErrors

VARIABLES history,  \* what each message id is
          current,  \* the peer Telegram accepts, NoPeer when the channel is out of reach
          read,     \* the read: where it is and its local variables
          steady    \* posts of the window present since the walk began

vars == <<cache, history, current, read, steady>>

NoRead == [pc |-> "idle", from |-> 1, peer |-> NoPeer, cached |-> FALSE, walked |-> 0,
           offset |-> 0, found |-> <<>>, lookups |-> 0, outcome |-> "none",
           status |-> 0, alert |-> "none"]

Init ==
  /\ history \in Histories
  /\ current \in Peers \cup {NoPeer}
  /\ CacheInit
  /\ read = NoRead
  /\ steady = {}

-------------------------------------------------------------------------------
Messages == {i \in Ids : history[i] # "none"}
PostsSince(from) == {i \in Ids : history[i] = "post" /\ i >= from}
Accepted == read.peer = current

\* Messages in the order Telegram lists them.
NewestFirst(S) ==
  [k \in 1 .. Cardinality(S) |-> CHOOSE i \in S : Cardinality({j \in S : j > i}) = k - 1]

\* What getMessages answers: the newest `limit` messages older than the offset.
Page(limit) ==
  LET older == {i \in Messages : read.offset = 0 \/ i < read.offset}
  IN NewestFirst({i \in older : Cardinality({j \in older : j > i}) < limit})

\* Undated items never end the walk, service messages do.
IsOlder(i) == history[i] # "undated" /\ i < read.from
IsPostInWindow(i) == history[i] = "post" /\ i >= read.from
PostsOf(page) == NewestFirst({i \in ToSet(page) : IsPostInWindow(i)})

Walk(peer, cached) ==
  /\ read' = [read EXCEPT !.pc = "walking", !.peer = peer, !.cached = cached, !.walked = 0,
                          !.offset = 0, !.found = <<>>, !.lookups = IF cached THEN 0 ELSE 1]
  /\ steady' = PostsSince(read.from)

\* The read returns what it found.
Returned(outcome, found) ==
  [NoRead EXCEPT !.from = read.from, !.offset = read.offset, !.found = found,
                 !.lookups = read.lookups, !.outcome = outcome]

\* Or it throws: failWith, once a session Telegram has rejected is evicted.
Failed(e) ==
  [NoRead EXCEPT !.lookups = IF read.pc = "resolving" THEN 1 ELSE read.lookups,
                 !.outcome = "failed", !.status = StatusOf(e), !.alert = AlertOf(StatusOf(e))]
Throw(e) ==
  /\ read' = [Failed(e) EXCEPT !.pc = IF IsInvalidSession(e) THEN "evicting" ELSE "idle"]
  /\ steady' = {}

Begin(from) ==
  /\ read.pc = "idle"
  /\ read' = [NoRead EXCEPT !.pc = "connecting", !.from = from]
  /\ steady' = {}
  /\ UNCHANGED <<cache, history, current>>

\* getConnected: out of the cache, restored or reconnected.
Connected ==
  /\ read.pc = "connecting"
  /\ read' = [read EXCEPT !.pc = "getting"]
  /\ UNCHANGED <<cache, history, current, steady>>

CacheHit ==
  /\ read.pc = "getting"
  /\ \E peer \in Peers : GetPeer(Key, peer) /\ Walk(peer, TRUE)
  /\ UNCHANGED <<history, current>>

\* A failing Redis behaves as an empty cache.
CacheMiss ==
  /\ read.pc = "getting"
  /\ GetPeer(Key, NoPeer)
  /\ read' = [read EXCEPT !.pc = "resolving"]
  /\ UNCHANGED <<history, current, steady>>

\* Mutant: the read goes back to the cache instead of to a lookup.
DropThenGet ==
  /\ read.pc = "removing"
  /\ RemovePeer(Key)
  /\ read' = [read EXCEPT !.pc = "getting"]
  /\ UNCHANGED <<history, current, steady>>

\* A rejected entry is dropped, unless Redis fails to.
DropEntry ==
  /\ read.pc = "removing"
  /\ RemovePeer(Key)
  /\ read' = [read EXCEPT !.pc = "resolving"]
  /\ UNCHANGED <<history, current, steady>>

\* A peer that is no channel is not cached.
Resolve ==
  /\ read.pc = "resolving" /\ current # NoPeer
  /\ SetPeer(Key, current) \/ UNCHANGED cache
  /\ Walk(current, FALSE)
  /\ UNCHANGED <<history, current>>

ResolveFails ==
  /\ read.pc = "resolving" /\ current = NoPeer
  /\ \E e \in LookupErrors : Throw(e)
  /\ UNCHANGED <<cache, history, current>>

-------------------------------------------------------------------------------
Limit == IF MaxMessages - read.walked < PageSize THEN MaxMessages - read.walked ELSE PageSize

\* The walk after one page: over, or on to the next page or to the probe.
WalkOn(page, isLast) ==
  LET found == read.found \o PostsOf(page)
      walked == read.walked + Len(page)
  IN read' = IF isLast THEN Returned("complete", found)
             ELSE [read EXCEPT !.found = found, !.walked = walked, !.offset = Last(page),
                               !.pc = IF walked < MaxMessages THEN "walking" ELSE "probing"]

\* Mutant of a page: the walk ends when a page holds no post of the window.
FetchPageUntilNoPost ==
  LET page == Page(Limit)
  IN /\ read.pc = "walking" /\ Accepted
     /\ WalkOn(page, Len(page) < Limit \/ PostsOf(page) = <<>>)
     /\ UNCHANGED <<cache, history, current, steady>>

FetchPage ==
  LET page == Page(Limit)
  IN /\ read.pc = "walking" /\ Accepted
     /\ WalkOn(page, Len(page) < Limit \/ \E i \in DOMAIN page : IsOlder(page[i]))
     /\ UNCHANGED <<cache, history, current, steady>>

\* hasOlderInWindow: one message past the ceiling.
Probe ==
  LET page == Page(1)
  IN /\ read.pc = "probing" /\ Accepted
     /\ read' = Returned(IF page # <<>> /\ ~IsOlder(page[1]) THEN "truncated" ELSE "complete",
                         read.found)
     /\ UNCHANGED <<cache, history, current, steady>>

\* A stale cached peer is looked up once; a looked up one is the verdict.
PeerRejected ==
  /\ read.pc \in {"walking", "probing"} /\ ~Accepted
  /\ \E e \in PeerErrors :
       \/ read.cached /\ IsStalePeer(e)
          /\ read' = [read EXCEPT !.pc = "removing"] /\ UNCHANGED steady
       \/ ~(read.cached /\ IsStalePeer(e)) /\ Throw(e)
  /\ UNCHANGED <<cache, history, current>>

\* Any other error: a timeout, a flood wait, a lost connection, a revoked session.
CallFails ==
  /\ \/ read.pc = "connecting" /\ \E e \in ClientErrors \cup CallErrors : Throw(e)
     \/ read.pc \in {"resolving", "walking", "probing"} /\ \E e \in CallErrors : Throw(e)
  /\ UNCHANGED <<cache, history, current>>

\* evictIfSessionInvalid returns.  What it does to the cached client, to the record
\* and to a restore under way is SessionStore's; this module holds none of them.
EvictionReturns ==
  /\ read.pc = "evicting"
  /\ read' = [read EXCEPT !.pc = "idle"]
  /\ UNCHANGED <<cache, history, current, steady>>

\* Redis does not remove it: its own exception is thrown past failWith.
EvictionFails ==
  /\ read.pc = "evicting"
  /\ read' = [read EXCEPT !.pc = "idle", !.status = 503, !.alert = "none"]
  /\ UNCHANGED <<cache, history, current, steady>>

-------------------------------------------------------------------------------
Publish(i, kind) ==
  /\ \A j \in i .. MaxId : history[j] = "none"
  /\ history' = [history EXCEPT ![i] = kind] /\ history' \in Histories
  /\ UNCHANGED <<cache, current, read, steady>>

Delete(i) ==
  /\ history[i] # "none"
  /\ history' = [history EXCEPT ![i] = "none"]
  /\ steady' = steady \ {i}
  /\ UNCHANGED <<cache, current, read>>

PeerChanges(p) ==
  /\ current' = p
  /\ UNCHANGED <<cache, history, read, steady>>

\* Another read, of this channel or of another one, at one of its cache calls.
OtherRead(key) ==
  /\ \/ \E peer \in Peers \cup {NoPeer} : GetPeer(key, peer)
     \/ \E peer \in Peers : SetPeer(key, peer)
     \/ RemovePeer(key) \/ Expire(key)
  /\ UNCHANGED <<history, current, read, steady>>

IsReading == read.pc \notin {"idle", "connecting", "evicting"}

ReadStep == \/ Connected \/ CacheHit \/ CacheMiss \/ DropEntry \/ Resolve \/ ResolveFails
            \/ FetchPage \/ Probe \/ PeerRejected \/ CallFails
            \/ EvictionReturns \/ EvictionFails

Next ==
  \/ \E from \in Windows : Begin(from)
  \/ ReadStep
  \/ /\ IsReading   \* bound: nothing changes while no call depends on it
     /\ \/ \E i \in Ids, kind \in Kinds : Publish(i, kind)
        \/ \E i \in Ids : Delete(i)
        \/ \E p \in Peers \cup {NoPeer} : PeerChanges(p)
        \/ \E key \in Keys : OtherRead(key)

Spec == Init /\ [][Next]_vars /\ WF_vars(ReadStep)

-------------------------------------------------------------------------------
\* "isTruncated tells the caller that older posts inside the window were not
\* returned" (channel.service.ts:57): a read that is not truncated returns every
\* post of the window that was there all along, and a truncated one every such
\* post down to where it stopped; newest first, none twice, none of it older, no
\* more than the ceiling, even when the walk starts over after a stale peer.
ReadCoversTheWindow ==
  /\ Len(read.found) <= MaxMessages
  /\ \A i, j \in DOMAIN read.found : i < j => read.found[i] > read.found[j]
  /\ \A i \in DOMAIN read.found : read.found[i] >= read.from
  /\ read.outcome = "complete" => steady \subseteq ToSet(read.found)
  /\ read.outcome = "truncated" => \A i \in steady : i >= read.offset => i \in ToSet(read.found)

\* The word of a cached peer is never the verdict on a channel: it is unavailable
\* (404) on the word of a username lookup of this very read only, since a read the
\* cache may have caused to fail "drops the entry and falls back to one username
\* lookup" (channel.service.ts:84-85), whatever page the walk had reached and
\* whatever other reads did to the entry; and "failures caused by the
\* caller (400, 401, 404) are not alerts" (telegram-errors.ts:196).  What is left of
\* a session that is refused (401) is a matter of SessionStore.
VerdictsAreEarned ==
  read.pc = "idle" =>
    /\ read.status = 404 => read.lookups = 1
    /\ read.alert # "none" => read.status \notin {400, 401, 404}

\* Every read ends, however often the peer changes under it: a stale entry is
\* tried once, and the pages are bounded by the ceiling.
EveryReadEnds == read.pc # "idle" ~> read.pc = "idle"
===============================================================================
