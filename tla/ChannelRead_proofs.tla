-------------------------- MODULE ChannelRead_proofs --------------------------
(***************************************************************************)
(* A read of a channel, whatever the errors of Telegram, the peers, the      *)
(* pages and the ceiling are.  What a failed read tells its caller has been  *)
(* established: 404 needs a lookup, which a walk over a cached peer has not  *)
(* made, and 401 needs the session to be gone, which only the step after the *)
(* error brings about.  The map of peers keeps to its bound.  What a         *)
(* finished read returns is its window: the walk is ordered and leaves no    *)
(* post behind itself that was there all the time.                           *)
(***************************************************************************)
EXTENDS ChannelRead, SequenceTheorems, FiniteSetTheorems, WellFoundedInduction, TLAPS

(* The error mapping on its own. *)

\* The answer 401 is given for the very errors that evict a session
\* (telegram-errors.ts:79 against :148): the order of the checks hides none.
LEMMA RefusalMeansEviction ==
  ASSUME NEW e, IsAnError(e)
  PROVE  StatusOf(e) = 401 <=> IsInvalidSession(e)
<1>1. CASE e.status # 0
  <2>1. StatusOf(e) = e.status
    BY <1>1 DEF StatusOf
  <2>2. e.code = ""
    BY <1>1 DEF IsAnError
  <2>3. e.code \notin InvalidSessionErrors
    BY <2>2 DEF InvalidSessionErrors
  <2> QED
    BY <2>1, <2>3 DEF IsInvalidSession
<1>2. CASE e.status = 0
  <2>1. ASSUME IsInvalidSession(e) PROVE FloodWaitSeconds(e) = -1
    <3>1. e.code \in InvalidSessionErrors
      BY <1>2, <2>1 DEF IsInvalidSession
    <3>2. /\ e.code # "FLOOD" /\ e.code \notin PhoneFloodErrors
          /\ e.code \notin FloodWaitCodes
      BY <3>1 DEF InvalidSessionErrors, PhoneFloodErrors, FloodWaitCodes
    <3>3. ~(e.seconds # -1)
      BY <3>2 DEF IsAnError
    <3> QED BY <3>2, <3>3 DEF FloodWaitSeconds
  <2> QED BY <1>2, <2>1 DEF StatusOf
<1> QED BY <1>1, <1>2

\* The service's own exceptions and the errors that do not speak of a channel are
\* never answered with 404 (telegram-errors.ts:112).
LEMMA OnlyChannelsAreMissing ==
  ASSUME NEW e, IsAnError(e), ~IsChannelUnavailable(e)
  PROVE  StatusOf(e) # 404
<1>1. CASE e.status # 0
  <2>1. StatusOf(e) = e.status
    BY <1>1 DEF StatusOf
  <2>2. e.status \in {0, 401, 500, 503}
    BY DEF IsAnError
  <2> QED BY <2>1, <2>2
<1>2. CASE e.status = 0
  <2>1. CASE FloodWaitSeconds(e) # -1
    BY <1>2, <2>1 DEF StatusOf
  <2>2. CASE FloodWaitSeconds(e) = -1 /\ IsInvalidSession(e)
    BY <1>2, <2>2 DEF StatusOf
  <2>3. CASE FloodWaitSeconds(e) = -1 /\ ~IsInvalidSession(e)
    <3>1. StatusOf(e) = IF e.code \in AuthInputErrors THEN 400
                        ELSE IF IsConnectivity(e) THEN 503 ELSE 502
      BY <1>2, <2>3 DEF StatusOf
    <3> QED BY <3>1
  <2> QED BY <2>1, <2>2, <2>3
<1> QED BY <1>1, <1>2

\* No answer the caller is to blame for is alerted (telegram-errors.ts:222).
LEMMA CallersRaiseNoAlert ==
  ASSUME NEW status \in {400, 401, 404}
  PROVE  AlertOf(status) = "none"
BY DEF AlertOf

\* Every error a step throws is one.
LEMMA ThrownErrorsAreErrors ==
  ASSUME NEW e \in ClientErrors \cup CallErrors \cup LookupErrors \cup PeerErrors
  PROVE  IsAnError(e)
BY ErrorAssumption

-------------------------------------------------------------------------------
Under == {"connecting", "getting", "removing", "resolving", "walking", "probing"}

\* What is known of a read before its verdict, and of the verdict.
ReadInv ==
  /\ read.pc \in Under \cup {"idle", "evicting"}
  /\ DOMAIN read = DOMAIN NoRead
  /\ read.pc \in {"walking", "probing"} /\ ~read.cached => read.lookups = 1
  /\ read.pc \in Under => read.status = 0 /\ read.alert = "none"
  /\ read.pc = "evicting" => read.status = 401 /\ read.alert = "none"
  /\ VerdictsAreEarned

\* A read that throws keeps the invariant when it may answer as it does.
LEMMA ThrowKeepsInv ==
  ASSUME ReadInv, NEW e, IsAnError(e), Throw(e),
         StatusOf(e) = 404 => read.pc = "resolving" \/ read.lookups = 1
  PROVE  ReadInv'
<1> DEFINE failed == Failed(e)
<1>1. /\ failed.status = StatusOf(e) /\ failed.alert = AlertOf(StatusOf(e))
      /\ DOMAIN failed = DOMAIN NoRead
      /\ StatusOf(e) = 404 => failed.lookups = 1
  BY DEF Failed, NoRead
<1>2. read' = [failed EXCEPT !.pc = IF IsInvalidSession(e) THEN "evicting" ELSE "idle"]
  BY DEF Throw
<1>3. /\ read'.pc = IF IsInvalidSession(e) THEN "evicting" ELSE "idle"
      /\ read'.status = StatusOf(e) /\ read'.alert = AlertOf(StatusOf(e))
      /\ DOMAIN read' = DOMAIN NoRead
      /\ StatusOf(e) = 404 => read'.lookups = 1
  <2> HIDE DEF failed
  <2>1. {"pc", "status", "alert", "lookups"} \subseteq DOMAIN failed
    BY <1>1 DEF NoRead
  <2> QED BY <1>1, <1>2, <2>1
<1>4. StatusOf(e) = 401 <=> IsInvalidSession(e)
  BY RefusalMeansEviction
<1>5. StatusOf(e) \in {400, 401, 404} => AlertOf(StatusOf(e)) = "none"
  BY CallersRaiseNoAlert
<1> QED BY <1>3, <1>4, <1>5 DEF ReadInv, VerdictsAreEarned, Under

\* Steps that leave the read alone keep it.
LEMMA StandingReadKeepsInv ==
  ASSUME ReadInv, UNCHANGED read
  PROVE  ReadInv'
BY DEF ReadInv, VerdictsAreEarned

LEMMA ReadInvInductive == ReadInv /\ [Next]_vars => ReadInv'
<1> SUFFICES ASSUME ReadInv, [Next]_vars PROVE ReadInv'
  OBVIOUS
<1> DEFINE names == {"pc", "from", "peer", "cached", "walked", "offset", "found", "lookups",
                     "outcome", "status", "alert"}
<1>0. DOMAIN read = names /\ DOMAIN NoRead = names
  BY DEF ReadInv, NoRead
<1>1. ASSUME NEW from \in Windows, Begin(from) PROVE ReadInv'
  BY <1>1 DEF Begin, NoRead, ReadInv, VerdictsAreEarned, Under
<1>2. ASSUME Connected \/ CacheMiss \/ DropEntry PROVE ReadInv'
  BY <1>0, <1>2 DEF Connected, CacheMiss, DropEntry, ReadInv, VerdictsAreEarned, Under
<1>3. ASSUME read.pc \in {"getting", "resolving"}, NEW peer, NEW cached \in BOOLEAN, Walk(peer, cached)
      PROVE  ReadInv'
  BY <1>0, <1>3 DEF Walk, ReadInv, VerdictsAreEarned, Under
<1>4. ASSUME read.pc \in {"walking", "probing"}, NEW outcome, NEW found, read' = Returned(outcome, found)
      PROVE  ReadInv'
  BY <1>0, <1>4 DEF Returned, NoRead, ReadInv, VerdictsAreEarned, Under
<1>5. CASE FetchPage
  <2>1. PICK page, isLast : WalkOn(page, isLast) /\ read.pc = "walking"
    BY <1>5 DEF FetchPage
  <2> DEFINE found == read.found \o PostsOf(page)
             walked == read.walked + Len(page)
             next == IF walked < MaxMessages THEN "walking" ELSE "probing"
  <2>2. CASE isLast
    BY <1>4, <2>1, <2>2 DEF WalkOn
  <2>3. CASE ~isLast
    <3>1. read' = [read EXCEPT !.found = found, !.walked = walked, !.offset = Last(page), !.pc = next]
      BY <2>1, <2>3 DEF WalkOn
    <3>2. next \in {"walking", "probing"}
      OBVIOUS
    <3> HIDE DEF found, walked, next
    <3> QED BY <1>0, <2>1, <3>1, <3>2 DEF ReadInv, VerdictsAreEarned, Under
  <2> QED BY <2>2, <2>3
<1>6. CASE Probe
  <2>1. PICK outcome, found : read.pc = "probing" /\ read' = Returned(outcome, found)
    BY <1>6 DEF Probe
  <2> QED BY <1>4, <2>1
<1>7. CASE PeerRejected
  <2>1. PICK e \in PeerErrors : \/ read' = [read EXCEPT !.pc = "removing"]
                                \/ ~(read.cached /\ IsStalePeer(e)) /\ Throw(e)
    BY <1>7 DEF PeerRejected
  <2>2. IsAnError(e) /\ IsStalePeer(e)
    BY ErrorAssumption DEF IsStalePeer
  <2>3. read.pc \in {"walking", "probing"}
    BY <1>7 DEF PeerRejected
  <2>4. CASE read' = [read EXCEPT !.pc = "removing"]
    BY <1>0, <2>3, <2>4 DEF ReadInv, VerdictsAreEarned, Under
  <2>5. CASE ~(read.cached /\ IsStalePeer(e)) /\ Throw(e)
    BY <2>2, <2>3, <2>5, ThrowKeepsInv DEF ReadInv
  <2> QED BY <2>1, <2>4, <2>5
<1>8. CASE CallFails
  <2>1. PICK e \in ClientErrors \cup CallErrors : Throw(e)
    BY <1>8 DEF CallFails
  <2>2. IsAnError(e) /\ StatusOf(e) # 404
    BY ErrorAssumption, OnlyChannelsAreMissing
  <2> QED BY <2>1, <2>2, ThrowKeepsInv
<1>9. CASE ResolveFails
  <2>1. PICK e \in LookupErrors : Throw(e) /\ read.pc = "resolving"
    BY <1>9 DEF ResolveFails
  <2> QED BY <2>1, ThrownErrorsAreErrors, ThrowKeepsInv
<1>10. ASSUME EvictionReturns \/ EvictionFails PROVE ReadInv'
  <2>1. CASE EvictionReturns
    <3>1. /\ read'.pc = "idle" /\ read'.status = read.status
          /\ read'.alert = read.alert /\ DOMAIN read' = names
      BY <1>0, <2>1 DEF EvictionReturns
    <3>2. read.status = 401 /\ read.alert = "none"
      BY <2>1 DEF EvictionReturns, ReadInv
    <3> QED BY <1>0, <3>1, <3>2 DEF ReadInv, VerdictsAreEarned, Under
  <2>2. CASE EvictionFails
    <3>1. /\ read'.pc = "idle" /\ read'.status = 503
          /\ read'.alert = "none" /\ DOMAIN read' = names
      BY <1>0, <2>2 DEF EvictionFails
    <3> QED BY <1>0, <3>1 DEF ReadInv, VerdictsAreEarned, Under
  <2> QED BY <1>10, <2>1, <2>2
<1>11. CASE CacheHit
  BY <1>3, <1>11 DEF CacheHit
<1>12. CASE Resolve
  BY <1>3, <1>12 DEF Resolve
<1>13. CASE ReadStep
  BY <1>2, <1>5, <1>6, <1>7, <1>8, <1>9, <1>10, <1>11, <1>12, <1>13 DEF ReadStep
<1>14. CASE UNCHANGED read
  BY <1>14, StandingReadKeepsInv
<1>15. Next => (\E from \in Windows : Begin(from)) \/ ReadStep \/ UNCHANGED read
  BY DEF Next, Publish, Delete, PeerChanges, OtherRead
<1> QED BY <1>1, <1>13, <1>14, <1>15 DEF vars

-------------------------------------------------------------------------------
\* A channel is unavailable (404) on the word of a username lookup of this read only,
\* and what the caller did raises no alert (channel.service.ts:84-85,
\* telegram-errors.ts:196).
THEOREM ReadVerdictsAreEarned == Spec => []VerdictsAreEarned
<1>1. Init => ReadInv
  BY DEF Init, NoRead, ReadInv, VerdictsAreEarned, Under
<1>2. ReadInv => VerdictsAreEarned
  BY DEF ReadInv
<1> QED BY <1>1, <1>2, ReadInvInductive, PTL DEF Spec

-------------------------------------------------------------------------------
(* The map of the peers. *)

LEMMA RemoveAtIs ==
  ASSUME NEW S, NEW s \in Seq(S), NEW i \in 1 .. Len(s)
  PROVE  /\ RemoveAt(s, i) \in Seq(S) /\ Len(RemoveAt(s, i)) = Len(s) - 1
         /\ \A k \in 1 .. (Len(s) - 1) : RemoveAt(s, i)[k] = IF k < i THEN s[k] ELSE s[k + 1]
<1> DEFINE before == SubSeq(s, 1, i - 1)
           after == SubSeq(s, i + 1, Len(s))
<1>1. /\ before \in Seq(S) /\ Len(before) = i - 1 /\ \A k \in 1 .. (i - 1) : before[k] = s[k]
      /\ after \in Seq(S) /\ Len(after) = Len(s) - i /\ \A k \in 1 .. (Len(s) - i) : after[k] = s[i + k]
  OBVIOUS
<1>2. RemoveAt(s, i) = before \o after
  BY DEF RemoveAt
<1> HIDE DEF before, after
<1>3. /\ before \o after \in Seq(S) /\ Len(before \o after) = Len(s) - 1
      /\ \A k \in 1 .. (Len(s) - 1) :
           (before \o after)[k] = IF k <= i - 1 THEN before[k] ELSE after[k - (i - 1)]
  BY <1>1, ConcatProperties
<1>4. ASSUME NEW k \in 1 .. (Len(s) - 1)
      PROVE  (before \o after)[k] = IF k < i THEN s[k] ELSE s[k + 1]
  <2>0. k < i \/ k >= i
    OBVIOUS
  <2>1. CASE k < i
    BY <1>1, <1>3, <2>1
  <2>2. CASE k >= i
    <3>1. /\ k - (i - 1) \in 1 .. (Len(s) - i) /\ i + (k - (i - 1)) = k + 1
          /\ ~(k < i) /\ ~(k <= i - 1)
      BY <2>2
    <3>2. after[k - (i - 1)] = s[k + 1]
      BY <1>1, <3>1
    <3> QED
      BY <1>3, <3>1, <3>2
  <2> QED
    BY <2>0, <2>1, <2>2
<1> QED
  BY <1>2, <1>3, <1>4

Distinct(s) == \A i, j \in DOMAIN s : s[i].key = s[j].key => i = j

\* The map without a key: one entry less when it had the key, which it has no more.
LEMMA WithoutIs ==
  ASSUME entries \in Seq(Entry), Distinct(entries), NEW key
  PROVE  /\ Without(key) \in Seq(Entry) /\ Distinct(Without(key))
         /\ \A i \in DOMAIN Without(key) : Without(key)[i].key # key
         /\ Len(Without(key)) = IF IsCached(key) THEN Len(entries) - 1 ELSE Len(entries)
         /\ IsCached(key) => Len(entries) >= 1
<1> DEFINE p == Place(key)
<1>1. CASE ~IsCached(key)
  BY <1>1 DEF Without, IsCached
<1>2. CASE IsCached(key)
  <2>1. p \in 1 .. Len(entries) /\ entries[p].key = key
    BY <1>2 DEF IsCached, Place
  <2> HIDE DEF p
  <2>2. Without(key) = RemoveAt(entries, p)
    BY <1>2 DEF Without, p
  <2>3. /\ Without(key) \in Seq(Entry) /\ Len(Without(key)) = Len(entries) - 1
        /\ \A k \in 1 .. (Len(entries) - 1) :
             Without(key)[k] = IF k < p THEN entries[k] ELSE entries[k + 1]
    BY <2>1, <2>2, RemoveAtIs
  <2>4. DOMAIN Without(key) = 1 .. (Len(entries) - 1)
    BY <2>3
  <2>5. ASSUME NEW k \in 1 .. (Len(entries) - 1)
        PROVE  \E j \in DOMAIN entries : /\ Without(key)[k] = entries[j] /\ j # p
                                         /\ j = IF k < p THEN k ELSE k + 1
    BY <2>1, <2>3
  <2>6. \A k \in DOMAIN Without(key) : Without(key)[k].key # key
    BY <2>1, <2>4, <2>5 DEF Distinct
  <2>7. Distinct(Without(key))
    <3> SUFFICES ASSUME NEW k \in DOMAIN Without(key), NEW l \in DOMAIN Without(key),
                        Without(key)[k].key = Without(key)[l].key
                 PROVE  k = l
      BY DEF Distinct
    <3>1. PICK i \in DOMAIN entries : Without(key)[k] = entries[i] /\ i = IF k < p THEN k ELSE k + 1
      BY <2>4, <2>5
    <3>2. PICK j \in DOMAIN entries : Without(key)[l] = entries[j] /\ j = IF l < p THEN l ELSE l + 1
      BY <2>4, <2>5
    <3>3. i = j
      BY <3>1, <3>2 DEF Distinct
    <3> QED
      BY <2>1, <2>4, <3>1, <3>2, <3>3
  <2> QED
    BY <1>2, <2>1, <2>3, <2>6, <2>7
<1> QED
  BY <1>1, <1>2

LEMMA WithIs ==
  ASSUME entries \in Seq(Entry), Distinct(entries), NEW key \in Keys, NEW peer \in Peers
  PROVE  /\ With(key, peer) \in Seq(Entry) /\ Distinct(With(key, peer))
         /\ Len(With(key, peer)) = IF IsCached(key) THEN Len(entries) ELSE Len(entries) + 1
<1> DEFINE rest == Without(key)
           e == [key |-> key, peer |-> peer]
<1>1. /\ rest \in Seq(Entry) /\ Distinct(rest)
      /\ \A i \in DOMAIN rest : rest[i].key # key
      /\ Len(rest) = IF IsCached(key) THEN Len(entries) - 1 ELSE Len(entries)
      /\ IsCached(key) => Len(entries) >= 1
  BY WithoutIs
<1>2. e \in Entry /\ e.key = key
  BY DEF Entry
<1>3. With(key, peer) = Append(rest, e)
  BY DEF With
<1> HIDE DEF rest, e
<1>4. /\ Append(rest, e) \in Seq(Entry) /\ Len(Append(rest, e)) = Len(rest) + 1
      /\ \A i \in 1 .. Len(rest) : Append(rest, e)[i] = rest[i]
      /\ Append(rest, e)[Len(rest) + 1] = e
      /\ DOMAIN Append(rest, e) = 1 .. (Len(rest) + 1) /\ DOMAIN rest = 1 .. Len(rest)
      /\ Len(rest) \in Nat
  BY <1>1, <1>2
<1>5. Distinct(Append(rest, e))
  <2> SUFFICES ASSUME NEW i \in 1 .. (Len(rest) + 1), NEW j \in 1 .. (Len(rest) + 1),
                      Append(rest, e)[i].key = Append(rest, e)[j].key
               PROVE  i = j
    BY <1>4 DEF Distinct
  <2>1. \A k \in 1 .. (Len(rest) + 1) : k \in 1 .. Len(rest) \/ k = Len(rest) + 1
    BY <1>4
  <2>2. CASE i \in 1 .. Len(rest) /\ j \in 1 .. Len(rest)
    BY <1>1, <1>4, <2>2 DEF Distinct
  <2> QED
    BY <1>1, <1>2, <1>4, <2>1, <2>2
<1> QED
  BY <1>1, <1>3, <1>4, <1>5

LEMMA EvictedIs ==
  ASSUME NEW s \in Seq(Entry), Distinct(s)
  PROVE  /\ EvictOverflow(s) \in Seq(Entry) /\ Distinct(EvictOverflow(s))
         /\ Len(EvictOverflow(s)) <= MaxEntries
<1>0. MaxEntries \in Nat
  BY PeerCacheAssumption
<1>1. CASE Len(s) <= MaxEntries
  BY <1>0, <1>1 DEF EvictOverflow
<1>2. CASE Len(s) > MaxEntries
  <2> DEFINE cut == Len(s) - MaxEntries
             kept == SubSeq(s, cut + 1, Len(s))
  <2>1. EvictOverflow(s) = kept
    BY <1>2 DEF EvictOverflow
  <2>2. /\ kept \in Seq(Entry) /\ Len(kept) = MaxEntries
        /\ DOMAIN kept = 1 .. MaxEntries
        /\ \A i \in 1 .. MaxEntries : kept[i] = s[cut + i] /\ cut + i \in DOMAIN s
    BY <1>0, <1>2
  <2>3. cut \in Int
    BY <1>0
  <2> HIDE DEF kept, cut
  <2>4. Distinct(kept)
    <3> SUFFICES ASSUME NEW i \in 1 .. MaxEntries, NEW j \in 1 .. MaxEntries, kept[i].key = kept[j].key
                 PROVE  i = j
      BY <2>2 DEF Distinct
    <3>1. cut + i = cut + j
      BY <2>2 DEF Distinct
    <3> QED
      BY <1>0, <2>3, <3>1
  <2> QED
    BY <1>0, <2>1, <2>2, <2>4
<1> QED
  BY <1>0, <1>1, <1>2

CacheInv == entries \in Seq(Entry) /\ PeersAreBounded

LEMMA CacheCallsKeep ==
  ASSUME CacheInv, NEW key \in Keys,
         \/ \E peer \in Peers \cup {NoPeer} : GetPeer(key, peer)
         \/ \E peer \in Peers : SetPeer(key, peer)
         \/ RemovePeer(key) \/ Expire(key)
  PROVE  CacheInv'
<1>0. /\ entries \in Seq(Entry) /\ Distinct(entries)
      /\ ~redis => Len(entries) <= MaxEntries
      /\ MaxEntries \in Nat
  BY PeerCacheAssumption DEF CacheInv, PeersAreBounded, Distinct
<1>1. ASSUME redis' = redis, entries' \in Seq(Entry), Distinct(entries'),
             ~redis => Len(entries') <= MaxEntries
      PROVE  CacheInv'
  BY <1>1 DEF CacheInv, PeersAreBounded, Distinct
<1>2. ASSUME entries' = entries, redis' = redis PROVE CacheInv'
  BY <1>0, <1>1, <1>2
<1>3. /\ Without(key) \in Seq(Entry) /\ Distinct(Without(key))
      /\ ~redis => Len(Without(key)) <= MaxEntries
  BY <1>0, WithoutIs
<1>4. ASSUME NEW peer \in Peers \cup {NoPeer}, GetPeer(key, peer) PROVE CacheInv'
  <2>1. CASE ~redis /\ peer = PeerOf(key) /\ peer # NoPeer
    <3>1. IsCached(key) /\ peer \in Peers
      BY <2>1 DEF PeerOf
    <3>2. /\ With(key, peer) \in Seq(Entry) /\ Distinct(With(key, peer))
          /\ Len(With(key, peer)) = Len(entries)
      BY <1>0, <3>1, WithIs
    <3>3. entries' = With(key, peer) /\ redis' = redis
      BY <1>4, <2>1 DEF GetPeer
    <3> QED
      BY <1>0, <1>1, <3>2, <3>3
  <2>2. CASE ~(~redis /\ peer = PeerOf(key) /\ peer # NoPeer)
    <3>1. entries' = entries /\ redis' = redis
      BY <1>4, <2>2 DEF GetPeer
    <3> QED
      BY <1>2, <3>1
  <2> QED
    BY <2>1, <2>2
<1>5. ASSUME NEW peer \in Peers, SetPeer(key, peer) PROVE CacheInv'
  <2>1. With(key, peer) \in Seq(Entry) /\ Distinct(With(key, peer))
    BY <1>0, WithIs
  <2>2. /\ EvictOverflow(With(key, peer)) \in Seq(Entry) /\ Distinct(EvictOverflow(With(key, peer)))
        /\ Len(EvictOverflow(With(key, peer))) <= MaxEntries
    BY <2>1, EvictedIs
  <2>3. /\ redis' = redis
        /\ \/ ~redis /\ entries' = EvictOverflow(With(key, peer))
           \/ redis /\ entries' \in {With(key, peer), entries}
    BY <1>5 DEF SetPeer
  <2> QED
    BY <1>0, <1>1, <2>1, <2>2, <2>3
<1>6. CASE RemovePeer(key)
  BY <1>0, <1>1, <1>3, <1>6 DEF RemovePeer
<1>7. CASE Expire(key)
  BY <1>1, <1>3, <1>7 DEF Expire
<1> QED
  BY <1>4, <1>5, <1>6, <1>7

\* Only a peer Telegram has resolved is cached.
PeerInv == CacheInv /\ current \in Peers \cup {NoPeer}

LEMMA PeerInvNext == PeerInv /\ [Next]_vars => PeerInv'
<1> SUFFICES ASSUME PeerInv, [Next]_vars PROVE PeerInv'
  OBVIOUS
<1> USE DEF PeerInv
<1>1. ASSUME UNCHANGED cache PROVE CacheInv'
  BY <1>1 DEF cache, CacheInv, PeersAreBounded
<1>2. Key \in Keys
  BY ChannelAssumption
<1>3. CASE CacheHit \/ CacheMiss
  BY <1>2, <1>3, CacheCallsKeep DEF CacheHit, CacheMiss
<1>4. CASE DropEntry
  BY <1>2, <1>4, CacheCallsKeep DEF DropEntry
<1>5. CASE Resolve
  <2>1. /\ SetPeer(Key, current) \/ UNCHANGED cache
        /\ current \in Peers /\ current' = current
    BY <1>5 DEF Resolve
  <2> QED
    BY <1>1, <1>2, <2>1, CacheCallsKeep
<1>6. ASSUME NEW key \in Keys, OtherRead(key) PROVE PeerInv'
  BY <1>6, CacheCallsKeep DEF OtherRead
<1>7. CASE UNCHANGED <<cache, current>>
  BY <1>1, <1>7
<1>8. ASSUME NEW p \in Peers \cup {NoPeer}, PeerChanges(p) PROVE PeerInv'
  BY <1>1, <1>8 DEF PeerChanges
<1> QED
  BY <1>3, <1>4, <1>5, <1>6, <1>7, <1>8
  DEF Next, ReadStep, Begin, Connected, ResolveFails, FetchPage, Probe, PeerRejected, CallFails,
      EvictionReturns, EvictionFails, Publish, Delete, vars

\* Whatever reads of whatever accounts and channels do to it, the map of the peers
\* keeps to its bound and has one peer of a key (channel-peer-cache.ts:77).
THEOREM CachedPeersAreBounded == Spec => []PeersAreBounded
<1>1. Init => PeerInv
  <2> SUFFICES ASSUME Init PROVE PeerInv
    OBVIOUS
  <2>1. /\ entries = <<>> \/ \E e \in Entry : entries = <<e>>
        /\ current \in Peers \cup {NoPeer}
    BY DEF Init, CacheInit
  <2>2. entries \in Seq(Entry) /\ Len(entries) <= 1
    <3>1. CASE entries = <<>>
      BY <3>1
    <3>2. ASSUME NEW e \in Entry, entries = <<e>> PROVE entries \in Seq(Entry) /\ Len(entries) <= 1
      BY <3>2
    <3> QED
      BY <2>1, <3>1, <3>2
  <2> QED
    BY <2>1, <2>2, PeerCacheAssumption DEF PeerInv, CacheInv, PeersAreBounded
<1>2. PeerInv => PeersAreBounded
  BY DEF PeerInv, CacheInv
<1> QED BY <1>1, <1>2, PeerInvNext, PTL DEF Spec

-------------------------------------------------------------------------------
(* Messages in the order Telegram lists them. *)

Rank(S, i) == Cardinality({j \in S : j > i})

LEMMA RankIs ==
  ASSUME NEW S, S \subseteq Int, IsFiniteSet(S)
  PROVE  /\ Cardinality(S) \in Nat
         /\ \A x \in S : Rank(S, x) \in 0 .. (Cardinality(S) - 1)
         /\ \A x, y \in S : x < y => Rank(S, y) < Rank(S, x)
         /\ \A k \in 0 .. (Cardinality(S) - 1) : \E x \in S : Rank(S, x) = k
<1> DEFINE n == Cardinality(S)
           T == 0 .. (n - 1)
           f == [x \in S |-> Rank(S, x)]
<1>1. n \in Nat
  BY FS_CardinalityType
<1>2. ASSUME NEW x \in S PROVE Rank(S, x) \in T
  <2> DEFINE above == {j \in S : j > x}
  <2>1. above \in SUBSET (S \ {x}) /\ IsFiniteSet(S \ {x}) /\ Cardinality(S \ {x}) = n - 1
    BY FS_RemoveElement
  <2> HIDE DEF above
  <2>2. IsFiniteSet(above) /\ Cardinality(above) <= n - 1
    <3> HIDE DEF n
    <3>1. IsFiniteSet(above) /\ Cardinality(above) <= Cardinality(S \ {x})
      BY <2>1, FS_Subset
    <3> QED
      BY <2>1, <3>1
  <2>3. Cardinality(above) \in Nat
    BY <2>2, FS_CardinalityType
  <2> QED
    BY <1>1, <2>2, <2>3 DEF Rank, above
<1>3. ASSUME NEW x \in S, NEW y \in S, x < y PROVE Rank(S, y) < Rank(S, x)
  <2> DEFINE more == {j \in S : j > x}
             less == {j \in S : j > y}
  <2>1. less \subseteq more \ {y} /\ y \in more /\ more \in SUBSET S
    <3>1. x \in Int /\ y \in Int /\ x < y
      BY <1>3
    <3>2. \A j \in S : j \in Int /\ (j > y => j > x /\ j # y)
      BY <3>1
    <3> QED
      BY <3>1, <3>2
  <2> HIDE DEF less, more
  <2>2. IsFiniteSet(more) /\ Cardinality(more) \in Nat
    BY <2>1, FS_Subset, FS_CardinalityType
  <2>3. IsFiniteSet(more \ {y}) /\ Cardinality(more \ {y}) = Cardinality(more) - 1
    BY <2>1, <2>2, FS_RemoveElement
  <2>4. IsFiniteSet(less) /\ Cardinality(less) <= Cardinality(more) - 1 /\ Cardinality(less) \in Nat
    <3>1. IsFiniteSet(less) /\ Cardinality(less) <= Cardinality(more \ {y})
      BY <2>1, <2>3, FS_Subset
    <3>2. Cardinality(less) \in Nat
      BY <3>1, FS_CardinalityType
    <3> QED
      BY <2>3, <3>1, <3>2
  <2> QED
    BY <2>2, <2>4 DEF Rank, less, more
<1>4. f \in Injection(S, T)
  <2>1. f \in [S -> T]
    BY <1>2
  <2>2. ASSUME NEW x \in S, NEW y \in S, Rank(S, x) = Rank(S, y) PROVE x = y
    <3>1. Rank(S, x) \in Int /\ x \in Int /\ y \in Int
      BY <1>2
    <3> QED
      BY <1>3, <2>2, <3>1
  <2> QED
    BY <2>1, <2>2 DEF Injection, IsInjective
<1>5. IsFiniteSet(T) /\ Cardinality(T) = n
  <2>1. 0 \in Int /\ n - 1 \in Int
    BY <1>1
  <2>2. IsFiniteSet(0 .. (n - 1)) /\ Cardinality(0 .. (n - 1)) = IF 0 > n - 1 THEN 0 ELSE (n - 1) - 0 + 1
    BY <2>1, FS_Interval
  <2> QED
    BY <1>1, <2>2
<1>6. f \in Surjection(S, T)
  <2> HIDE DEF f, T
  <2> QED
    BY <1>4, <1>5, FS_Injection
<1>7. ASSUME NEW k \in T PROVE \E x \in S : Rank(S, x) = k
  BY <1>6 DEF Surjection
<1> QED
  BY <1>1, <1>2, <1>3, <1>7

LEMMA NewestFirstIs ==
  ASSUME NEW S, S \subseteq Int, IsFiniteSet(S)
  PROVE  /\ NewestFirst(S) \in Seq(S) /\ Len(NewestFirst(S)) = Cardinality(S)
         /\ Cardinality(S) \in Nat
         /\ \A k, l \in 1 .. Cardinality(S) : k < l => NewestFirst(S)[k] > NewestFirst(S)[l]
         /\ \A x \in S : \E k \in 1 .. Cardinality(S) : NewestFirst(S)[k] = x
<1> DEFINE n == Cardinality(S)
           s == NewestFirst(S)
<1>1. /\ n \in Nat
      /\ \A x \in S : Rank(S, x) \in 0 .. (n - 1)
      /\ \A x, y \in S : x < y => Rank(S, y) < Rank(S, x)
      /\ \A k \in 0 .. (n - 1) : \E x \in S : Rank(S, x) = k
  BY RankIs
<1>2. ASSUME NEW k \in 1 .. n PROVE s[k] \in S /\ Rank(S, s[k]) = k - 1
  <2>1. k - 1 \in 0 .. (n - 1)
    BY <1>1
  <2>2. s[k] = CHOOSE i \in S : Rank(S, i) = k - 1
    BY DEF NewestFirst, Rank
  <2>3. \E i \in S : Rank(S, i) = k - 1
    BY <1>1, <2>1
  <2> HIDE DEF s
  <2> QED
    BY <2>2, <2>3
<1>3. s = [k \in 1 .. n |-> s[k]]
  <2> DEFINE e(k) == CHOOSE i \in S : Rank(S, i) = k - 1
  <2>1. s = [k \in 1 .. n |-> e(k)]
    BY DEF NewestFirst, Rank
  <2> HIDE DEF e, s, n
  <2> QED
    BY <2>1
<1> HIDE DEF s
<1>4. s \in Seq(S) /\ Len(s) = n
  BY <1>1, <1>2, <1>3
<1>5. ASSUME NEW k \in 1 .. n, NEW l \in 1 .. n, k < l PROVE s[k] > s[l]
  <2>1. s[k] \in S /\ s[l] \in S /\ s[k] \in Int /\ s[l] \in Int
    BY <1>2
  <2>2. Rank(S, s[k]) = k - 1 /\ Rank(S, s[l]) = l - 1 /\ k \in Int /\ l \in Int
    BY <1>1, <1>2
  <2>3. ~(s[k] < s[l])
    BY <1>1, <1>5, <2>1, <2>2
  <2>4. s[k] # s[l]
    BY <1>5, <2>2
  <2> QED
    BY <2>1, <2>3, <2>4
<1>6. ASSUME NEW x \in S PROVE \E k \in 1 .. n : s[k] = x
  <2> DEFINE k == Rank(S, x) + 1
  <2>1. k \in 1 .. n /\ k - 1 = Rank(S, x) /\ Rank(S, x) \in Int
    BY <1>1
  <2> HIDE DEF k
  <2>2. s[k] \in S /\ Rank(S, s[k]) = Rank(S, x)
    BY <1>2, <2>1
  <2>3. s[k] \in Int /\ x \in Int
    BY <2>2
  <2>4. ~(s[k] < x) /\ ~(x < s[k])
    <3>1. ASSUME NEW a \in S, NEW b \in S, Rank(S, a) = Rank(S, b) PROVE ~(a < b)
      <4>1. Rank(S, a) \in Int
        BY <1>1
      <4> QED
        BY <1>1, <3>1, <4>1
    <3> QED
      BY <2>2, <3>1
  <2> QED
    BY <2>1, <2>3, <2>4
<1> QED
  BY <1>1, <1>4, <1>5, <1>6 DEF s

\* The newest `limit` of a set: none of it is newer than what it leaves out, and it
\* leaves nothing out unless it is full.
LEMMA NewestOfIs ==
  ASSUME NEW S, S \subseteq Int, IsFiniteSet(S), NEW limit \in Nat \ {0},
         NEW P, \A i : i \in P <=> i \in S /\ Rank(S, i) < limit
  PROVE  /\ P \subseteq S /\ IsFiniteSet(P) /\ Cardinality(P) \in Nat /\ Cardinality(P) <= limit
         /\ \A i \in P, j \in S : j > i => j \in P
         /\ Cardinality(P) < limit => P = S
<1> DEFINE n == Cardinality(S)
           T == 0 .. (limit - 1)
           f == [x \in P |-> Rank(S, x)]
<1>1. /\ n \in Nat
      /\ \A x \in S : Rank(S, x) \in 0 .. (n - 1)
      /\ \A x, y \in S : x < y => Rank(S, y) < Rank(S, x)
      /\ \A k \in 0 .. (n - 1) : \E x \in S : Rank(S, x) = k
  BY RankIs
<1>2. P \in SUBSET S
  OBVIOUS
<1>3. IsFiniteSet(P) /\ Cardinality(P) \in Nat
  BY <1>2, FS_Subset, FS_CardinalityType
<1>3a. ASSUME NEW x \in P PROVE Rank(S, x) \in T
  <2>1. x \in S /\ Rank(S, x) < limit /\ Rank(S, x) \in 0 .. (n - 1)
    BY <1>1
  <2> QED
    BY <1>1, <2>1
<1>4. f \in Injection(P, T)
  <2>1. f \in [P -> T]
    BY <1>3a
  <2>2. ASSUME NEW x \in P, NEW y \in P, Rank(S, x) = Rank(S, y) PROVE x = y
    <3>1. Rank(S, x) \in Int /\ x \in S /\ y \in S /\ x \in Int /\ y \in Int
      <4>1. x \in S /\ y \in S
        OBVIOUS
      <4> QED
        BY <1>1, <4>1
    <3>2. ~(x < y) /\ ~(y < x)
      BY <1>1, <2>2, <3>1
    <3> QED
      BY <3>1, <3>2
  <2> QED
    BY <2>1, <2>2 DEF Injection, IsInjective
<1>5. IsFiniteSet(T) /\ Cardinality(T) = limit
  <2>1. 0 \in Int /\ limit - 1 \in Int /\ ~(0 > limit - 1)
    OBVIOUS
  <2>2. IsFiniteSet(0 .. (limit - 1)) /\ Cardinality(0 .. (limit - 1)) = (limit - 1) - 0 + 1
    BY <2>1, FS_Interval
  <2> QED
    BY <2>2
<1>6. Cardinality(P) <= limit
  <2> HIDE DEF f, T
  <2> QED
    BY <1>4, <1>5, FS_Injection
<1>7. ASSUME NEW i \in P, NEW j \in S, j > i PROVE j \in P
  <2>1. i \in S /\ i \in Int /\ j \in Int /\ i < j
    BY <1>7
  <2>2. Rank(S, j) < Rank(S, i) /\ Rank(S, i) < limit /\ Rank(S, j) \in Int /\ Rank(S, i) \in Int
    BY <1>1, <2>1
  <2> QED
    BY <2>2
<1>8. ASSUME P # S PROVE ~(Cardinality(P) < limit)
  <2>1. PICK x \in S : ~(Rank(S, x) < limit)
    BY <1>8
  <2>2. limit <= n - 1
    BY <1>1, <2>1
  <2>3. ASSUME NEW k \in T PROVE \E y \in P : f[y] = k
    <3>1. k \in 0 .. (n - 1) /\ k < limit
      BY <1>1, <2>2
    <3> QED
      BY <1>1, <3>1
  <2>4. f \in Surjection(P, T)
    <3>1. f \in [P -> T]
      BY <1>3a
    <3> HIDE DEF f, T
    <3> QED
      BY <2>3, <3>1 DEF Surjection
  <2> HIDE DEF f, T
  <2>5. Cardinality(T) <= Cardinality(P)
    BY <1>3, <2>4, FS_Surjection
  <2> QED
    BY <1>3, <1>5, <2>5
<1> QED
  BY <1>2, <1>3, <1>6, <1>7, <1>8

-------------------------------------------------------------------------------
(* What a walk has read. *)

IsWalking == read.pc \in {"walking", "probing"}
Has(i) == \E k \in DOMAIN read.found : read.found[k] = i

\* The variables of the walk and of the channel.
WalkTypes ==
  /\ history \in [Ids -> Kinds \cup {"none"}]
  /\ DOMAIN read = DOMAIN NoRead
  /\ read.from \in Nat
  /\ read.found \in Seq(Ids)
  /\ read.offset \in 0 .. MaxId
  /\ read.walked \in 0 .. MaxMessages

\* The posts found are those of the window, newest first.
FoundInOrder ==
  /\ Len(read.found) <= MaxMessages
  /\ \A i, j \in DOMAIN read.found : i < j => read.found[i] > read.found[j]
  /\ \A i \in DOMAIN read.found : read.found[i] >= read.from

\* Where the walk is: all it has found lies above its offset, and no post that has
\* been there since it began is missing from there.
WalkIsAhead ==
  IsWalking =>
    /\ Len(read.found) <= read.walked
    /\ read.pc = "walking" => read.walked < MaxMessages
    /\ read.pc = "probing" => read.offset # 0
    /\ read.offset = 0 => read.found = <<>>
    /\ \A k \in DOMAIN read.found : read.found[k] >= read.offset
    /\ steady \subseteq PostsSince(read.from)
    /\ read.offset # 0 => \A i \in steady : i >= read.offset => Has(i)

\* What the end of the walk has established.
EndIsCovered ==
  /\ read.outcome # "none" => read.pc \in {"idle", "evicting"}
  /\ read.outcome = "complete" => \A i \in steady : Has(i)
  /\ read.outcome = "truncated" => \A i \in steady : i >= read.offset => Has(i)

WalkInv == WalkTypes /\ FoundInOrder /\ WalkIsAhead /\ EndIsCovered

\* The messages a page is taken from, and those it takes.
Left == {i \in Messages : read.offset = 0 \/ i < read.offset}
Taken(limit) == {i \in Left : Rank(Left, i) < limit}

LEMMA PageIs ==
  ASSUME NEW limit \in Nat \ {0}
  PROVE  /\ Page(limit) = NewestFirst(Taken(limit))
         /\ Taken(limit) \subseteq Left /\ Left \subseteq Ids /\ IsFiniteSet(Taken(limit))
         /\ Cardinality(Taken(limit)) \in Nat /\ Cardinality(Taken(limit)) <= limit
         /\ \A i \in Taken(limit), j \in Left : j > i => j \in Taken(limit)
         /\ Cardinality(Taken(limit)) < limit => Taken(limit) = Left
         /\ Page(limit) \in Seq(Taken(limit)) /\ Len(Page(limit)) = Cardinality(Taken(limit))
         /\ \A k, l \in 1 .. Len(Page(limit)) : k < l => Page(limit)[k] > Page(limit)[l]
         /\ \A x \in Taken(limit) : \E k \in 1 .. Len(Page(limit)) : Page(limit)[k] = x
<1>1. Left \subseteq Ids /\ Ids \subseteq Int /\ IsFiniteSet(Ids)
  <2>1. MaxId \in Int /\ 1 \in Int
    BY ChannelAssumption
  <2> QED
    BY <2>1, FS_Interval DEF Left, Messages, Ids
<1>2. IsFiniteSet(Left) /\ Left \subseteq Int
  BY <1>1, FS_Subset
<1>3. Page(limit) = NewestFirst(Taken(limit))
  BY DEF Page, Taken, Left, Rank
<1>4. /\ Taken(limit) \subseteq Left /\ IsFiniteSet(Taken(limit))
      /\ Cardinality(Taken(limit)) \in Nat /\ Cardinality(Taken(limit)) <= limit
      /\ \A i \in Taken(limit), j \in Left : j > i => j \in Taken(limit)
      /\ Cardinality(Taken(limit)) < limit => Taken(limit) = Left
  <2> DEFINE P == Taken(limit)
             S == Left
  <2>1. \A i : i \in P <=> i \in S /\ Rank(S, i) < limit
    BY DEF Taken
  <2>2. S \subseteq Int /\ IsFiniteSet(S)
    BY <1>2
  <2> HIDE DEF P, S
  <2>3. /\ P \subseteq S /\ IsFiniteSet(P) /\ Cardinality(P) \in Nat /\ Cardinality(P) <= limit
        /\ \A i \in P, j \in S : j > i => j \in P
        /\ Cardinality(P) < limit => P = S
    BY <2>1, <2>2, NewestOfIs
  <2> QED
    BY <2>3 DEF P, S
<1>5. Taken(limit) \subseteq Int
  BY <1>2, <1>4
<1> QED
  BY <1>1, <1>3, <1>4, <1>5, NewestFirstIs

LEMMA SeqWider ==
  ASSUME NEW A, NEW B, A \subseteq B, NEW s \in Seq(A)
  PROVE  s \in Seq(B)
OBVIOUS

\* The posts of the window in a page.
LEMMA PostsAre ==
  ASSUME NEW P, P \subseteq Ids, NEW page \in Seq(P),
         \A x \in P : \E k \in 1 .. Len(page) : page[k] = x
  PROVE  /\ PostsOf(page) \in Seq(Ids) /\ Len(PostsOf(page)) <= Cardinality(P)
         /\ Cardinality(P) \in Nat
         /\ \A k, l \in 1 .. Len(PostsOf(page)) : k < l => PostsOf(page)[k] > PostsOf(page)[l]
         /\ \A k \in 1 .. Len(PostsOf(page)) : PostsOf(page)[k] \in P /\ IsPostInWindow(PostsOf(page)[k])
         /\ \A x \in P : IsPostInWindow(x) => \E k \in 1 .. Len(PostsOf(page)) : PostsOf(page)[k] = x
<1> DEFINE Q == {i \in ToSet(page) : IsPostInWindow(i)}
<1>1. ToSet(page) = P
  BY DEF ToSet
<1>2. IsFiniteSet(P)
  <2>1. MaxId \in Int /\ 1 \in Int
    BY ChannelAssumption
  <2> QED
    BY <2>1, FS_Interval, FS_Subset DEF Ids
<1>3. Q \in SUBSET P
  BY <1>1
<1>4. IsFiniteSet(Q) /\ Cardinality(Q) <= Cardinality(P) /\ Cardinality(P) \in Nat
  <2> HIDE DEF Q
  <2> QED
    BY <1>2, <1>3, FS_Subset, FS_CardinalityType
<1>5. Ids \subseteq Int
  BY ChannelAssumption DEF Ids
<1>6. PostsOf(page) = NewestFirst(Q)
  BY DEF PostsOf
<1>7. \A x \in Q : x \in P /\ IsPostInWindow(x)
  BY <1>1
<1>8. \A x \in P : IsPostInWindow(x) => x \in Q
  BY <1>1
<1> HIDE DEF Q
<1>9. Q \subseteq Int /\ Q \subseteq Ids
  BY <1>3, <1>5
<1>10. /\ NewestFirst(Q) \in Seq(Q) /\ Len(NewestFirst(Q)) = Cardinality(Q)
       /\ Cardinality(Q) \in Nat
       /\ \A k, l \in 1 .. Cardinality(Q) : k < l => NewestFirst(Q)[k] > NewestFirst(Q)[l]
       /\ \A x \in Q : \E k \in 1 .. Cardinality(Q) : NewestFirst(Q)[k] = x
  BY <1>4, <1>9, NewestFirstIs
<1>11. PostsOf(page) \in Seq(Ids)
  BY <1>6, <1>9, <1>10, SeqWider
<1>12. \A k \in 1 .. Len(PostsOf(page)) : PostsOf(page)[k] \in Q
  BY <1>6, <1>10
<1> QED
  BY <1>4, <1>6, <1>7, <1>8, <1>10, <1>11, <1>12

-------------------------------------------------------------------------------
\* A step that takes the read somewhere else without touching what it has found.
LEMMA MovesKeep ==
  ASSUME WalkInv, history' = history, steady' \subseteq steady,
         DOMAIN read' = DOMAIN NoRead,
         read'.from = read.from, read'.found = read.found, read'.offset = read.offset,
         read'.walked = read.walked, read'.outcome = read.outcome,
         read'.pc \notin {"walking", "probing"},
         read'.outcome # "none" => read'.pc \in {"idle", "evicting"}
  PROVE  WalkInv'
<1>1. WalkTypes'
  BY DEF WalkInv, WalkTypes, NoRead
<1>2. FoundInOrder' /\ WalkIsAhead'
  BY DEF WalkInv, FoundInOrder, WalkIsAhead, IsWalking
<1>3. EndIsCovered'
  BY DEF WalkInv, EndIsCovered, Has
<1> QED
  BY <1>1, <1>2, <1>3 DEF WalkInv

\* A step that leaves the read with nothing found.
LEMMA EmptyKeeps ==
  ASSUME WalkInv, history' = history, DOMAIN read' = DOMAIN NoRead,
         read'.from \in Nat, read'.found = <<>>, read'.offset = 0, read'.walked = 0,
         read'.outcome \in {"none", "failed"},
         read'.outcome # "none" => read'.pc \in {"idle", "evicting"},
         \/ read'.pc \notin {"walking", "probing"}
         \/ read'.pc = "walking" /\ steady' = PostsSince(read.from) /\ read'.from = read.from
  PROVE  WalkInv'
<1>0. MaxId \in Nat /\ MaxMessages \in Nat \ {0}
  BY ChannelAssumption
<1>1. WalkTypes'
  BY <1>0 DEF WalkInv, WalkTypes, NoRead
<1>2. FoundInOrder'
  BY <1>0 DEF FoundInOrder
<1>3. PostsSince(read.from)' = {i \in Ids : history[i] = "post" /\ i >= read'.from}
  BY DEF PostsSince
<1>4. WalkIsAhead'
  BY <1>0, <1>3 DEF WalkIsAhead, IsWalking, PostsSince
<1>5. EndIsCovered'
  BY DEF EndIsCovered
<1> QED
  BY <1>1, <1>2, <1>4, <1>5 DEF WalkInv

\* The walk reads on from its offset: the page joins on to what was found.
LEMMA FetchPageKeeps ==
  ASSUME WalkInv, FetchPage
  PROVE  WalkInv'
<1> DEFINE page == Page(Limit)
           P == Taken(Limit)
           posts == PostsOf(page)
           found == read.found \o posts
           walked == read.walked + Len(page)
           isLast == Len(page) < Limit \/ \E i \in DOMAIN page : IsOlder(page[i])
<1>1. /\ read.pc = "walking" /\ WalkOn(page, isLast)
      /\ history' = history /\ steady' = steady
  BY DEF FetchPage
<1>2. /\ WalkTypes /\ Len(read.found) <= read.walked /\ read.walked < MaxMessages
      /\ read.offset = 0 => read.found = <<>>
      /\ \A k \in DOMAIN read.found : read.found[k] >= read.offset
      /\ steady \subseteq PostsSince(read.from)
      /\ read.offset # 0 => \A i \in steady : i >= read.offset => Has(i)
  BY <1>1 DEF WalkInv, WalkIsAhead, IsWalking
<1>3. /\ read.walked \in Nat /\ read.offset \in Nat /\ read.found \in Seq(Ids) /\ read.from \in Nat
      /\ MaxMessages \in Nat /\ MaxId \in Nat
      /\ Ids \subseteq Nat /\ \A i \in Ids : i # 0 /\ i <= MaxId
  BY <1>2, ChannelAssumption DEF WalkTypes, Ids
<1>4. Limit \in Nat \ {0} /\ Limit <= MaxMessages - read.walked
  BY <1>2, <1>3, ChannelAssumption DEF Limit
<1>5. /\ P \subseteq Left /\ Left \subseteq Ids
      /\ Cardinality(P) \in Nat /\ Cardinality(P) <= Limit
      /\ \A i \in P, j \in Left : j > i => j \in P
      /\ Cardinality(P) < Limit => P = Left
      /\ page \in Seq(P) /\ Len(page) = Cardinality(P)
      /\ \A k, l \in 1 .. Len(page) : k < l => page[k] > page[l]
      /\ \A x \in P : \E k \in 1 .. Len(page) : page[k] = x
  BY <1>4, PageIs
<1>5a. DOMAIN page = 1 .. Len(page) /\ \A k \in 1 .. Len(page) : page[k] \in P
  <2> HIDE DEF page, P
  <2> QED
    BY <1>5
<1>6. /\ posts \in Seq(Ids) /\ Len(posts) <= Cardinality(P)
      /\ \A k, l \in 1 .. Len(posts) : k < l => posts[k] > posts[l]
      /\ \A k \in 1 .. Len(posts) : posts[k] \in P /\ IsPostInWindow(posts[k])
      /\ \A x \in P : IsPostInWindow(x) => \E k \in 1 .. Len(posts) : posts[k] = x
  <2>1. P \subseteq Ids
    BY <1>5
  <2> HIDE DEF P, page
  <2> QED
    BY <1>5, <2>1, PostsAre
<1> HIDE DEF page, P, posts
<1>7. /\ found \in Seq(Ids) /\ Len(found) = Len(read.found) + Len(posts)
      /\ Len(read.found) \in Nat /\ Len(posts) \in Nat
      /\ \A k \in 1 .. Len(read.found) : found[k] = read.found[k] /\ read.found[k] \in Ids
      /\ \A k \in 1 .. Len(posts) : found[Len(read.found) + k] = posts[k] /\ posts[k] \in Ids
      /\ DOMAIN found = 1 .. Len(found) /\ DOMAIN read.found = 1 .. Len(read.found)
  BY <1>3, <1>6
<1>8. \A k \in 1 .. Len(found) :
         k \in 1 .. Len(read.found) \/ \E l \in 1 .. Len(posts) : k = Len(read.found) + l
  <2> SUFFICES ASSUME NEW k \in 1 .. Len(found), k \notin 1 .. Len(read.found)
               PROVE  \E l \in 1 .. Len(posts) : k = Len(read.found) + l
    OBVIOUS
  <2>1. k - Len(read.found) \in 1 .. Len(posts) /\ k = Len(read.found) + (k - Len(read.found))
    BY <1>7
  <2> QED
    BY <2>1
<1> HIDE DEF found
<1>9. walked \in Nat /\ walked <= MaxMessages /\ Len(found) <= walked
  <2>1. /\ Len(page) \in Nat /\ Len(page) <= MaxMessages - read.walked
        /\ Len(posts) <= Len(page) /\ Len(read.found) <= read.walked
    BY <1>2, <1>3, <1>4, <1>5, <1>6, <1>7
  <2>2. /\ walked = read.walked + Len(page) /\ read.walked \in Nat /\ MaxMessages \in Nat
        /\ Len(found) = Len(read.found) + Len(posts) /\ Len(read.found) \in Nat /\ Len(posts) \in Nat
    BY <1>3, <1>7
  <2> HIDE DEF walked
  <2> QED
    BY <2>1, <2>2
<1>10. ASSUME NEW k \in 1 .. Len(read.found), NEW l \in 1 .. Len(posts)
       PROVE  read.found[k] > posts[l]
  <2>1. posts[l] \in Left /\ read.offset # 0
    BY <1>2, <1>5, <1>6
  <2>2. posts[l] < read.offset
    BY <2>1 DEF Left
  <2>3. read.found[k] >= read.offset /\ read.found[k] \in Nat /\ posts[l] \in Nat
    BY <1>2, <1>3, <1>7
  <2> QED
    BY <1>3, <2>2, <2>3
<1>11. \A i, j \in DOMAIN found : i < j => found[i] > found[j]
  <2> SUFFICES ASSUME NEW i \in 1 .. Len(found), NEW j \in 1 .. Len(found), i < j
               PROVE  found[i] > found[j]
    BY <1>7
  <2>1. CASE i \in 1 .. Len(read.found) /\ j \in 1 .. Len(read.found)
    BY <1>7, <2>1 DEF WalkInv, FoundInOrder
  <2>2. CASE i \in 1 .. Len(read.found) /\ j \notin 1 .. Len(read.found)
    BY <1>7, <1>8, <1>10, <2>2
  <2>3. CASE i \notin 1 .. Len(read.found)
    <3>1. PICK a \in 1 .. Len(posts) : i = Len(read.found) + a
      BY <1>8, <2>3
    <3>2. j \notin 1 .. Len(read.found)
      BY <1>7, <3>1
    <3>3. PICK b \in 1 .. Len(posts) : j = Len(read.found) + b
      BY <1>8, <3>2
    <3>4. a < b
      BY <1>7, <3>1, <3>3
    <3>5. found[i] = posts[a] /\ found[j] = posts[b]
      BY <1>7, <3>1, <3>3
    <3> QED
      BY <1>6, <3>4, <3>5
  <2> QED
    BY <2>1, <2>2, <2>3
<1>12. \A i \in DOMAIN found : found[i] >= read.from
  <2> SUFFICES ASSUME NEW i \in 1 .. Len(found) PROVE found[i] >= read.from
    BY <1>7
  <2>1. CASE i \in 1 .. Len(read.found)
    BY <1>7, <2>1 DEF WalkInv, FoundInOrder
  <2>2. ASSUME NEW l \in 1 .. Len(posts), i = Len(read.found) + l PROVE found[i] >= read.from
    BY <1>6, <1>7, <2>2 DEF IsPostInWindow
  <2> QED
    BY <1>8, <2>1, <2>2
<1>13. ASSUME NEW i \in steady
       PROVE  /\ i \in Ids /\ i \in Nat /\ history[i] = "post" /\ i >= read.from
              /\ i \in Left \/ (read.offset # 0 /\ i >= read.offset)
              /\ i \in P \/ (read.offset # 0 /\ i >= read.offset) =>
                   \E k \in DOMAIN found : found[k] = i
  <2>1. i \in Ids /\ i \in Nat /\ history[i] = "post" /\ i >= read.from
    BY <1>2, <1>3 DEF PostsSince
  <2>2. i \in Left \/ (read.offset # 0 /\ i >= read.offset)
    BY <1>3, <2>1 DEF Left, Messages
  <2>3. ASSUME i \in P PROVE \E k \in DOMAIN found : found[k] = i
    <3>1. PICK k \in 1 .. Len(posts) : posts[k] = i
      BY <1>6, <2>1, <2>3 DEF IsPostInWindow
    <3>2. Len(read.found) + k \in DOMAIN found
      BY <1>7
    <3> QED
      BY <1>7, <3>1, <3>2
  <2>4. ASSUME read.offset # 0, i >= read.offset PROVE \E k \in DOMAIN found : found[k] = i
    <3>1. PICK k \in 1 .. Len(read.found) : read.found[k] = i
      BY <1>2, <1>7, <2>4 DEF Has
    <3>2. k \in DOMAIN found
      BY <1>7
    <3> QED
      BY <1>7, <3>1, <3>2
  <2> QED
    BY <2>1, <2>2, <2>3, <2>4
<1>14. CASE isLast
  <2>1. read' = Returned("complete", found)
    BY <1>1, <1>14 DEF WalkOn, found, posts
  <2>2. /\ DOMAIN read' = DOMAIN NoRead /\ read'.from = read.from /\ read'.found = found
        /\ read'.offset = read.offset /\ read'.walked = 0 /\ read'.outcome = "complete"
        /\ read'.pc = "idle"
    BY <2>1 DEF Returned, NoRead
  <2>3. ASSUME NEW i \in steady, i \in Left PROVE i \in P
    <3>1. CASE Len(page) < Limit
      BY <1>5, <2>3, <3>1
    <3>2. CASE \E k \in DOMAIN page : IsOlder(page[k])
      <4>1. PICK k \in DOMAIN page : IsOlder(page[k])
        BY <3>2
      <4>2. page[k] \in P /\ page[k] < read.from /\ page[k] \in Nat
        BY <1>3, <1>5, <1>5a, <4>1 DEF IsOlder
      <4>3. i > page[k]
        BY <1>3, <1>13, <4>2
      <4> QED
        BY <1>5, <2>3, <4>2, <4>3
    <3> QED
      BY <1>14, <3>1, <3>2
  <2>4. \A i \in steady : \E k \in DOMAIN found : found[k] = i
    BY <1>13, <2>3
  <2>5. WalkTypes'
    BY <1>1, <1>2, <1>3, <1>7, <2>2 DEF WalkTypes
  <2>6. FoundInOrder' /\ WalkIsAhead'
    <3>1. FoundInOrder'
      BY <1>3, <1>7, <1>9, <1>11, <1>12, <2>2 DEF FoundInOrder
    <3>2. ~IsWalking'
      BY <2>2 DEF IsWalking
    <3> QED
      BY <3>1, <3>2 DEF WalkIsAhead
  <2>7. EndIsCovered'
    BY <1>1, <2>2, <2>4 DEF EndIsCovered, Has
  <2> QED
    BY <2>5, <2>6, <2>7 DEF WalkInv
<1>15. CASE ~isLast
  <2> DEFINE next == IF walked < MaxMessages THEN "walking" ELSE "probing"
             m == Last(page)
  <2>1. read' = [read EXCEPT !.found = found, !.walked = walked, !.offset = m, !.pc = next]
    BY <1>1, <1>15 DEF WalkOn, found, posts
  <2>2. Len(page) \in Nat /\ Len(page) >= 1 /\ m = page[Len(page)] /\ Len(page) \in 1 .. Len(page)
    BY <1>4, <1>5, <1>15 DEF Last
  <2>3. m \in P /\ m \in Ids /\ m \in Nat /\ m # 0 /\ m <= MaxId
    <3>1. m \in P
      BY <1>5a, <2>2
    <3>2. m \in Ids
      BY <1>5, <3>1
    <3> QED
      BY <1>3, <3>1, <3>2
  <2>4. \A x \in P : x >= m
    <3> SUFFICES ASSUME NEW x \in P PROVE x >= m
      OBVIOUS
    <3>1. PICK k \in 1 .. Len(page) : page[k] = x
      BY <1>5
    <3>2. x \in Nat /\ (k < Len(page) => page[k] > page[Len(page)])
      BY <1>3, <1>5, <2>2
    <3> QED
      BY <2>2, <2>3, <3>1, <3>2
  <2>5. read.offset = 0 \/ m < read.offset
    BY <1>5, <2>3 DEF Left
  <2> HIDE DEF m, walked, next
  <2>6. /\ DOMAIN read' = DOMAIN NoRead /\ read'.from = read.from /\ read'.found = found
        /\ read'.offset = m /\ read'.walked = walked /\ read'.outcome = read.outcome
        /\ read'.pc = next
    BY <1>2, <2>1 DEF WalkTypes, NoRead
  <2>7. /\ next \in {"walking", "probing"}
        /\ next = "walking" => walked < MaxMessages
    BY DEF next
  <2>8. ASSUME NEW k \in DOMAIN found PROVE found[k] >= m
    <3>1. CASE k \in 1 .. Len(read.found)
      <4>1. read.found[k] >= read.offset /\ read.found[k] \in Nat
        BY <1>2, <1>3, <1>7, <3>1
      <4>2. read.offset # 0
        BY <1>2, <3>1
      <4> QED
        BY <1>3, <1>7, <2>3, <2>5, <3>1, <4>1, <4>2
    <3>2. ASSUME NEW l \in 1 .. Len(posts), k = Len(read.found) + l PROVE found[k] >= m
      BY <1>6, <1>7, <2>4, <3>2
    <3> QED
      BY <1>7, <1>8, <3>1, <3>2
  <2>9. ASSUME NEW i \in steady, i >= m PROVE \E k \in DOMAIN found : found[k] = i
    <3>1. CASE read.offset # 0 /\ i >= read.offset
      BY <1>13, <3>1
    <3>2. CASE i \in Left
      <4>1. i \in P
        BY <1>5, <1>13, <2>3, <2>9, <3>2
      <4> QED
        BY <1>13, <4>1
    <3> QED
      BY <1>13, <3>1, <3>2
  <2>10. WalkTypes'
    BY <1>1, <1>2, <1>3, <1>7, <1>9, <2>3, <2>6 DEF WalkTypes
  <2>11. FoundInOrder'
    BY <1>3, <1>7, <1>9, <1>11, <1>12, <2>6 DEF FoundInOrder
  <2>12. WalkIsAhead'
    <3>1. PostsSince(read.from)' = PostsSince(read.from)
      BY <1>1, <2>6 DEF PostsSince
    <3> QED
      BY <1>1, <1>2, <1>9, <2>3, <2>6, <2>7, <2>8, <2>9, <3>1 DEF WalkIsAhead, IsWalking, Has
  <2>13. EndIsCovered'
    BY <1>1, <2>6 DEF WalkInv, EndIsCovered
  <2> QED
    BY <2>10, <2>11, <2>12, <2>13 DEF WalkInv
<1> QED
  BY <1>14, <1>15

\* One message past the ceiling tells whether the window goes on.
LEMMA ProbeKeeps ==
  ASSUME WalkInv, Probe
  PROVE  WalkInv'
<1> DEFINE page == Page(1)
           P == Taken(1)
           outcome == IF page # <<>> /\ ~IsOlder(page[1]) THEN "truncated" ELSE "complete"
<1>1. /\ read.pc = "probing" /\ read' = Returned(outcome, read.found)
      /\ history' = history /\ steady' = steady
  BY DEF Probe
<1>2. /\ WalkTypes /\ FoundInOrder
      /\ read.offset # 0 /\ steady \subseteq PostsSince(read.from)
      /\ \A i \in steady : i >= read.offset => Has(i)
  BY <1>1 DEF WalkInv, WalkIsAhead, IsWalking
<1>3. /\ read.offset \in Nat /\ read.from \in Nat /\ MaxMessages \in Nat /\ MaxId \in Nat
      /\ Ids \subseteq Nat
  BY <1>2, ChannelAssumption DEF WalkTypes, Ids
<1>4. /\ P \subseteq Left /\ Left \subseteq Ids
      /\ Cardinality(P) \in Nat /\ Cardinality(P) <= 1
      /\ \A i \in P, j \in Left : j > i => j \in P
      /\ Cardinality(P) < 1 => P = Left
      /\ page \in Seq(P) /\ Len(page) = Cardinality(P)
      /\ \A x \in P : \E k \in 1 .. Len(page) : page[k] = x
  BY PageIs
<1>5. /\ DOMAIN read' = DOMAIN NoRead /\ read'.from = read.from /\ read'.found = read.found
      /\ read'.offset = read.offset /\ read'.walked = 0 /\ read'.outcome = outcome
      /\ read'.pc = "idle"
  BY <1>1 DEF Returned, NoRead
<1> HIDE DEF page, P
<1>6. ASSUME outcome = "complete", NEW i \in steady PROVE Has(i)
  <2>1. i \in Ids /\ i \in Nat /\ history[i] = "post" /\ i >= read.from
    BY <1>2, <1>3 DEF PostsSince
  <2>2. CASE i >= read.offset
    BY <1>2, <2>2
  <2>3. CASE i < read.offset
    <3>1. i \in Left
      BY <2>1, <2>3 DEF Left, Messages
    <3>2. CASE Len(page) = 0
      BY <1>4, <3>1, <3>2
    <3>3. CASE Len(page) = 1
      <4>1. page[1] \in P /\ page # <<>>
        BY <1>4, <3>3
      <4>2. IsOlder(page[1])
        BY <1>6, <4>1
      <4>3. page[1] \in Nat /\ page[1] < read.from
        BY <1>3, <1>4, <4>1, <4>2 DEF IsOlder
      <4>4. i > page[1]
        BY <1>3, <2>1, <4>3
      <4>5. PICK k \in 1 .. Len(page) : page[k] = i
        BY <1>4, <3>1, <4>1, <4>4
      <4> QED
        BY <2>1, <3>3, <4>3, <4>4, <4>5
    <3> QED
      BY <1>4, <3>2, <3>3
  <2> QED
    BY <1>3, <2>1, <2>2, <2>3
<1>7. outcome \in {"complete", "truncated"}
  OBVIOUS
<1> HIDE DEF outcome
<1>8. WalkTypes'
  BY <1>1, <1>2, <1>3, <1>5 DEF WalkTypes
<1>9. FoundInOrder' /\ WalkIsAhead'
  BY <1>2, <1>5 DEF FoundInOrder, WalkIsAhead, IsWalking
<1>10. \A i : Has(i)' <=> Has(i)
  BY <1>5 DEF Has
<1>11. EndIsCovered'
  BY <1>1, <1>2, <1>5, <1>6, <1>7, <1>10 DEF EndIsCovered
<1> QED
  BY <1>8, <1>9, <1>11 DEF WalkInv

\* The channel goes on under the walk: what appears is newer than all there is.
LEMMA ChannelKeeps ==
  ASSUME WalkInv, read' = read,
         \/ \E i \in Ids, kind \in Kinds : Publish(i, kind)
         \/ \E i \in Ids : Delete(i)
         \/ UNCHANGED <<history, steady>>
  PROVE  WalkInv'
<1>1. /\ history' \in [Ids -> Kinds \cup {"none"}] /\ steady' \subseteq steady
      /\ \A i \in Ids : i \in steady' /\ history[i] = "post" => history'[i] = "post"
  <2>1. history \in [Ids -> Kinds \cup {"none"}]
    BY DEF WalkInv, WalkTypes
  <2>2. ASSUME NEW i \in Ids, NEW kind \in Kinds, Publish(i, kind)
        PROVE  /\ history' = [history EXCEPT ![i] = kind] /\ steady' = steady
               /\ history[i] = "none"
    <3>1. i \in i .. MaxId
      BY ChannelAssumption DEF Ids
    <3> QED
      BY <2>2, <3>1 DEF Publish
  <2>3. ASSUME NEW i \in Ids, Delete(i)
        PROVE  history' = [history EXCEPT ![i] = "none"] /\ steady' = steady \ {i}
    BY <2>3 DEF Delete
  <2> QED
    BY <2>1, <2>2, <2>3
<1>2. WalkTypes' /\ FoundInOrder'
  BY <1>1 DEF WalkInv, WalkTypes, FoundInOrder
<1>3. \A i : Has(i)' <=> Has(i)
  BY DEF Has
<1>4. WalkIsAhead'
  <2>1. steady \subseteq PostsSince(read.from) => (steady \subseteq PostsSince(read.from))'
    BY <1>1 DEF PostsSince
  <2> QED
    BY <1>1, <1>3, <2>1 DEF WalkInv, WalkIsAhead, IsWalking
<1>5. EndIsCovered'
  BY <1>1, <1>3 DEF WalkInv, EndIsCovered
<1> QED
  BY <1>2, <1>4, <1>5 DEF WalkInv

LEMMA ThrowKeepsWalk ==
  ASSUME WalkInv, NEW e, Throw(e), history' = history
  PROVE  WalkInv'
<1> DEFINE failed == Failed(e)
<1>1. /\ DOMAIN failed = DOMAIN NoRead /\ failed.from = 1 /\ failed.found = <<>>
      /\ failed.offset = 0 /\ failed.walked = 0 /\ failed.outcome = "failed"
  BY DEF Failed, NoRead
<1>2. read' = [failed EXCEPT !.pc = IF IsInvalidSession(e) THEN "evicting" ELSE "idle"]
  BY DEF Throw
<1> HIDE DEF failed
<1>3. /\ DOMAIN read' = DOMAIN NoRead /\ read'.from = 1 /\ read'.found = <<>>
      /\ read'.offset = 0 /\ read'.walked = 0 /\ read'.outcome = "failed"
      /\ read'.pc \in {"evicting", "idle"}
  BY <1>1, <1>2 DEF NoRead
<1> QED
  BY <1>3, EmptyKeeps

LEMMA WalkInvNext == WalkInv /\ [Next]_vars => WalkInv'
<1> SUFFICES ASSUME WalkInv, [Next]_vars PROVE WalkInv'
  OBVIOUS
<1> DEFINE names == {"pc", "from", "peer", "cached", "walked", "offset", "found", "lookups",
                     "outcome", "status", "alert"}
<1>0. DOMAIN read = names /\ DOMAIN NoRead = names
  BY DEF WalkInv, WalkTypes, NoRead
<1>1. ASSUME NEW from \in Windows, Begin(from) PROVE WalkInv'
  <2>1. /\ DOMAIN read' = DOMAIN NoRead /\ read'.from = from /\ read'.found = <<>>
        /\ read'.offset = 0 /\ read'.walked = 0 /\ read'.outcome = "none"
        /\ read'.pc = "connecting" /\ history' = history
    BY <1>1 DEF Begin, NoRead
  <2>2. from \in Nat
    BY ChannelAssumption
  <2> QED
    BY <2>1, <2>2, EmptyKeeps
<1>2. ASSUME Connected \/ CacheMiss \/ DropEntry \/ EvictionReturns \/ EvictionFails PROVE WalkInv'
  <2>1. /\ DOMAIN read' = DOMAIN NoRead /\ read'.from = read.from /\ read'.found = read.found
        /\ read'.offset = read.offset /\ read'.walked = read.walked
        /\ read'.outcome = read.outcome
        /\ history' = history /\ steady' = steady
    <3>1. CASE Connected \/ CacheMiss \/ DropEntry
      BY <1>0, <3>1 DEF Connected, CacheMiss, DropEntry
    <3>2. CASE EvictionReturns
      BY <1>0, <3>2 DEF EvictionReturns
    <3>3. CASE EvictionFails
      BY <1>0, <3>3 DEF EvictionFails
    <3> QED
      BY <1>2, <3>1, <3>2, <3>3
  <2>2. /\ read'.pc \notin {"walking", "probing"}
        /\ read'.pc = "idle" \/ read.pc \notin {"idle", "evicting"}
    <3>1. CASE Connected
      BY <1>0, <3>1 DEF Connected
    <3>2. CASE CacheMiss
      BY <1>0, <3>2 DEF CacheMiss
    <3>3. CASE DropEntry
      BY <1>0, <3>3 DEF DropEntry
    <3>4. CASE EvictionReturns
      BY <1>0, <3>4 DEF EvictionReturns
    <3>5. CASE EvictionFails
      BY <1>0, <3>5 DEF EvictionFails
    <3> QED
      BY <1>2, <3>1, <3>2, <3>3, <3>4, <3>5
  <2>3. read'.outcome # "none" => read'.pc \in {"idle", "evicting"}
    BY <2>1, <2>2 DEF WalkInv, EndIsCovered
  <2> QED
    BY <2>1, <2>2, <2>3, MovesKeep
<1>3. ASSUME read.pc \in {"getting", "resolving"}, NEW peer, NEW cached, Walk(peer, cached), history' = history
      PROVE  WalkInv'
  <2>1. /\ DOMAIN read' = DOMAIN NoRead /\ read'.from = read.from /\ read'.found = <<>>
        /\ read'.offset = 0 /\ read'.walked = 0 /\ read'.outcome = read.outcome
        /\ read'.pc = "walking" /\ steady' = PostsSince(read.from)
    BY <1>0, <1>3 DEF Walk
  <2>2. read.outcome = "none" /\ read.from \in Nat
    BY <1>3 DEF WalkInv, EndIsCovered, WalkTypes
  <2> QED
    BY <1>3, <2>1, <2>2, EmptyKeeps
<1>4. CASE CacheHit
  BY <1>3, <1>4 DEF CacheHit
<1>5. CASE Resolve
  BY <1>3, <1>5 DEF Resolve
<1>6. CASE ResolveFails \/ CallFails
  BY <1>6, ThrowKeepsWalk DEF ResolveFails, CallFails
<1>7. CASE PeerRejected
  <2>1. CASE \E e \in PeerErrors : Throw(e)
    BY <1>7, <2>1, ThrowKeepsWalk DEF PeerRejected
  <2>2. CASE read' = [read EXCEPT !.pc = "removing"] /\ UNCHANGED steady
    <3>1. /\ DOMAIN read' = DOMAIN NoRead /\ read'.from = read.from /\ read'.found = read.found
          /\ read'.offset = read.offset /\ read'.walked = read.walked
          /\ read'.outcome = read.outcome /\ read'.pc = "removing"
          /\ history' = history /\ steady' = steady
      BY <1>0, <1>7, <2>2 DEF PeerRejected
    <3>2. read.outcome = "none"
      BY <1>7 DEF PeerRejected, WalkInv, EndIsCovered
    <3> QED
      BY <3>1, <3>2, MovesKeep
  <2> QED
    BY <1>7, <2>1, <2>2 DEF PeerRejected
<1>8. ASSUME \/ \E i \in Ids, kind \in Kinds : Publish(i, kind)
             \/ \E i \in Ids : Delete(i)
             \/ \E p \in Peers \cup {NoPeer} : PeerChanges(p)
             \/ \E key \in Keys : OtherRead(key)
      PROVE  WalkInv'
  <2>1. /\ read' = read
        /\ \/ \E i \in Ids, kind \in Kinds : Publish(i, kind)
           \/ \E i \in Ids : Delete(i)
           \/ UNCHANGED <<history, steady>>
    BY <1>8 DEF Publish, Delete, PeerChanges, OtherRead
  <2> QED
    BY <2>1, ChannelKeeps
<1>9. CASE UNCHANGED vars
  <2>1. read' = read /\ UNCHANGED <<history, steady>>
    BY <1>9 DEF vars
  <2> QED
    BY <2>1, ChannelKeeps
<1>10. CASE ReadStep
  BY <1>2, <1>4, <1>5, <1>6, <1>7, <1>10, FetchPageKeeps, ProbeKeeps DEF ReadStep
<1> QED
  BY <1>1, <1>8, <1>9, <1>10 DEF Next

\* A read that says it is complete returns every post of the window that was there
\* throughout, and one that says it is truncated every such post down to where it
\* stopped (channel.service.ts:57), for any history, window, page size and ceiling,
\* however posts appear and go and however often the walk starts over.
THEOREM ReadsCoverTheWindow == Spec => []ReadCoversTheWindow
<1>1. Init => WalkInv
  <2> SUFFICES ASSUME Init PROVE WalkInv
    OBVIOUS
  <2>1. /\ history \in [Ids -> Kinds \cup {"none"}] /\ read = NoRead
        /\ MaxId \in Nat /\ MaxMessages \in Nat \ {0}
    BY ChannelAssumption DEF Init
  <2> QED
    BY <2>1 DEF WalkInv, WalkTypes, FoundInOrder, WalkIsAhead, IsWalking, EndIsCovered, NoRead
<1>2. WalkInv => ReadCoversTheWindow
  <2> SUFFICES ASSUME WalkInv PROVE ReadCoversTheWindow
    OBVIOUS
  <2>1. \A i : Has(i) => i \in ToSet(read.found)
    BY DEF Has, ToSet, WalkInv, WalkTypes
  <2> QED
    BY <2>1 DEF WalkInv, FoundInOrder, EndIsCovered, ReadCoversTheWindow
<1> QED
  BY <1>1, <1>2, WalkInvNext, PTL DEF Spec
===============================================================================
