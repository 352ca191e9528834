----------------------------- MODULE RequestGuards ----------------------------
(***************************************************************************)
(* The three global guards every request passes, in the order              *)
(* telegram.module.ts registers them: the caller key (api-key.guard.ts),   *)
(* the quota of that key (rate-limit.guard.ts) and, on the auth route, the *)
(* quota of the phone number (phone-rate-limit.guard.ts).  Each quota is a *)
(* RateLimitStore of its own: the one of the callers is the store of the   *)
(* extended module, the one of the numbers an instance of it.  Guards are  *)
(* synchronous: a request is a step.                                       *)
(***************************************************************************)
EXTENDS RateLimitStore

CONSTANTS
  ApiKeys,     \* the configured caller keys, of all a request may present (Subjects)
  Phones,      \* phone numbers as requests spell them
  NoDigits,    \* what a body without a usable number is reduced to
  Digits,      \* the digits of each spelling
  PhoneMax, PhoneWindow \* RATE_LIMIT_AUTH_MAX_REQUESTS, _WINDOW_MS

ASSUME GuardAssumption == /\ ApiKeys \subseteq Subjects
                          /\ IsFiniteSet(Phones) /\ Phones \subseteq DOMAIN Digits
                          /\ PhoneMax \in Nat \ {0} /\ PhoneWindow \in Nat \ {0}

OtherKeys == Subjects \ ApiKeys  \* no key at all is one of them
Numbers == {Digits[p] : p \in Phones} \ {NoDigits}

VARIABLES
  phoneHits, phoneStartedAt, phoneOrder, phoneDecision,
  verdict,  \* what the guards made of the last request: "none", "passed",
            \* "unauthorized", "callerLimited" or "phoneLimited"
  admitted  \* the auth requests for a number that reached the handler in the
            \* last PhoneWindow, each by its instant and its place among those
            \* of that instant; read by the properties only

callerStore == <<hits, startedAt, order, decision>>
phoneStore == <<phoneHits, phoneStartedAt, phoneOrder, phoneDecision>>
vars == <<callerStore, phoneStore, now, verdict, admitted>>

Phone == INSTANCE RateLimitStore WITH
  Subjects <- Numbers, MaxRequests <- PhoneMax, WindowMs <- PhoneWindow,
  hits <- phoneHits, startedAt <- phoneStartedAt, order <- phoneOrder,
  decision <- phoneDecision

Init == /\ RateInit /\ Phone!RateInit
        /\ verdict = "none"
        /\ admitted = [d \in Numbers |-> {}]

-------------------------------------------------------------------------------
Conclude(v) == verdict' = v /\ UNCHANGED now

\* The health probe; it is the only public route.
Health ==
  /\ Conclude("passed")
  /\ UNCHANGED <<callerStore, phoneStore, admitted>>

\* Mutant: the quota of the key is consumed before the key is looked up.
UnauthorizedCounted(key) ==
  /\ key \in OtherKeys
  /\ StartWindow(key) \/ CountHit(key)
  /\ Conclude("unauthorized")
  /\ UNCHANGED <<phoneStore, admitted>>

Unauthorized(key) ==
  /\ key \in OtherKeys
  /\ Conclude("unauthorized")
  /\ UNCHANGED <<callerStore, phoneStore, admitted>>

\* The next of the auth requests for d that reach the handler now.
Place(d) == Cardinality({e \in admitted[d] : e.at = now}) + 1
Admit(d) == admitted' = [admitted EXCEPT ![d] = @ \cup {[at |-> now, place |-> Place(d)]}]

CallerAllowed(key) == StartWindow(key) \/ CountHit(key)

CallerLimited(key) ==
  /\ RefuseSubject(key) \/ RefuseNewSubject(key)
  /\ Conclude("callerLimited")
  /\ UNCHANGED <<phoneStore, admitted>>

\* A route without a phone quota.
PlainRoute(key) ==
  /\ CallerAllowed(key)
  /\ Conclude("passed")
  /\ UNCHANGED <<phoneStore, admitted>>

\* No usable number: left to DTO validation, which rejects it.
AuthWithoutNumber(key, phone) ==
  /\ Digits[phone] = NoDigits
  /\ PlainRoute(key)

\* Mutant: an auth request that does not count for its number.
AuthPassedUncounted(key, phone) ==
  LET d == Digits[phone] IN
  /\ d # NoDigits
  /\ CallerAllowed(key)
  /\ Admit(d)
  /\ Conclude("passed")
  /\ UNCHANGED phoneStore

AuthPassed(key, phone) ==
  LET d == Digits[phone] IN
  /\ d # NoDigits
  /\ CallerAllowed(key)
  /\ Phone!StartWindow(d) \/ Phone!CountHit(d)
  /\ Admit(d)
  /\ Conclude("passed")

\* The request has used up one of its caller's by then.
AuthLimited(key, phone) ==
  LET d == Digits[phone] IN
  /\ d # NoDigits
  /\ CallerAllowed(key)
  /\ Phone!RefuseSubject(d) \/ Phone!RefuseNewSubject(d)
  /\ Conclude("phoneLimited")
  /\ UNCHANGED admitted

Tick ==
  /\ RateTick /\ Phone!RateTick
  /\ admitted' = [d \in Numbers |-> {e \in admitted[d] : e.at > now' - PhoneWindow}]
  /\ UNCHANGED verdict

Next ==
  \/ Health \/ Tick
  \/ \E key \in OtherKeys : Unauthorized(key)
  \/ \E key \in ApiKeys : CallerLimited(key) \/ PlainRoute(key)
  \/ \E key \in ApiKeys, phone \in Phones :
       AuthWithoutNumber(key, phone) \/ AuthPassed(key, phone) \/ AuthLimited(key, phone)

Spec == Init /\ [][Next]_vars

-------------------------------------------------------------------------------
\* "Counts the auth route per phone number, independently of the caller key,
\* because the SMS is charged to the Telegram application"
\* (phone-rate-limit.guard.ts:14): however many keys ask, and however they spell
\* the number, fewer than two quotas of auth requests for a number reach the
\* handler within any PhoneWindow.
NumberQuota == \A d \in Numbers : Cardinality(admitted[d]) < 2 * PhoneMax

\* "Order matters: an unauthenticated caller is rejected before any counter is
\* touched" (telegram.module.ts:27), and one that is over its own quota before the
\* number is counted: otherwise unknown keys would fill the map of the callers, or a
\* refused caller would lock a number out.  Only configured callers take a place, and
\* the count of a number is that of the requests for it which reached the handler.
QuotasAreSpentByTheirOwners ==
  /\ Tracked \subseteq ApiKeys
  /\ \A d \in Numbers : Phone!IsLive(d) =>
       phoneHits[d] = Cardinality({e \in admitted[d] : e.at >= phoneStartedAt[d]})

===============================================================================
