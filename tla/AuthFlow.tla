-------------------------------- MODULE AuthFlow ------------------------------
(***************************************************************************)
(* The multi-step login (telegram/auth.service.ts): authenticate calls     *)
(* that request a code, sign in with it and check the 2FA password, over   *)
(* one map of pending attempts by phone number.  Calls for one phone       *)
(* overlap at every await.  An attempt is identified with the client it    *)
(* owns.  Clients handed over to SessionStore are in `adopted`; what       *)
(* SessionStore does with them later is Retire.                            *)
(***************************************************************************)
EXTENDS Integers, FiniteSets

CONSTANTS Calls, Phones, Clients, NoClient

ASSUME AuthAssumption == NoClient \notin Clients /\ Phones # {}

VARIABLES
  states,     \* the pending attempt of each phone, or NoClient
  calls,      \* the authenticate calls being served
  live,       \* clients created and not yet destroyed
  authorized, \* clients Telegram has signed in
  adopted,    \* clients handed over to SessionStore
  expired,    \* attempts older than AUTH_STATE_TTL_MS
  closed      \* close() has run: no more sweeps

vars == <<states, calls, live, authorized, adopted, expired, closed>>

CallPc == {"idle", "opening", "sending", "storing", "submitting", "checking", "adopting", "saving"}
NoCall == [pc |-> "idle", phone |-> CHOOSE p \in Phones : TRUE, client |-> NoClient]

TypeOK ==
  /\ states \in [Phones -> Clients \cup {NoClient}]
  /\ calls \in [Calls -> [pc : CallPc, phone : Phones, client : Clients \cup {NoClient}]]
  /\ live \subseteq Clients /\ authorized \subseteq Clients /\ expired \subseteq Clients
  /\ adopted \subseteq Clients
  /\ closed \in BOOLEAN

Init ==
  /\ states = [p \in Phones |-> NoClient]
  /\ calls = [a \in Calls |-> NoCall]
  /\ live = {} /\ authorized = {} /\ adopted = {} /\ expired = {}
  /\ closed = FALSE

-------------------------------------------------------------------------------
Referenced(c) == \/ c \in live \cup adopted
                 \/ \E p \in Phones : states[p] = c
                 \/ \E a \in Calls : calls[a].client = c

Goto(a, pc) == calls' = [calls EXCEPT ![a].pc = pc]
Return(a) == calls' = [calls EXCEPT ![a] = NoCall]
Release(cs) == live' = live \ cs

\* Deletes the attempt of p when it is still c.
Forget(p, c) == states' = [states EXCEPT ![p] = IF @ = c THEN NoClient ELSE @]

(* Mutants of dropAuthState: an owned attempt that stays, or any attempt dropped. *)
DropOwnClientOnly(p, c) == UNCHANGED states /\ Release({c})
DropAnyState(p, c) == Forget(p, states[p]) /\ Release({c})

\* dropAuthState: with an owned attempt, only that one.
DropAuthState(p) == Forget(p, states[p]) /\ Release({states[p]})
DropOwnState(p, c) == Forget(p, c) /\ Release({c})

-------------------------------------------------------------------------------
(* Step 1: requestCode. *)
RequestCode(a, p) ==
  /\ calls[a].pc = "idle"
  /\ DropAuthState(p)
  /\ calls' = [calls EXCEPT ![a] = [pc |-> "opening", phone |-> p, client |-> NoClient]]
  /\ UNCHANGED <<authorized, adopted, expired, closed>>

Opened(a, c) ==
  /\ calls[a].pc = "opening"
  /\ ~Referenced(c)
  /\ live' = live \cup {c}
  /\ authorized' = authorized \ {c} /\ expired' = expired \ {c}
  /\ calls' = [calls EXCEPT ![a].pc = "sending", ![a].client = c]
  /\ UNCHANGED <<states, adopted, closed>>

OpenFails(a) ==
  /\ calls[a].pc = "opening"
  /\ Return(a)
  /\ UNCHANGED <<states, live, authorized, adopted, expired, closed>>

SendFails(a) ==
  /\ calls[a].pc = "sending"
  /\ Release({calls[a].client})
  /\ Return(a)
  /\ UNCHANGED <<states, authorized, adopted, expired, closed>>

\* storeAuthState: an attempt stored meanwhile is released first, and awaited.
CodeSent(a) ==
  LET p == calls[a].phone
  IN /\ calls[a].pc = "sending"
     /\ IF states[p] # NoClient
        THEN Release({states[p]}) /\ Goto(a, "storing") /\ UNCHANGED states
        ELSE /\ states' = [states EXCEPT ![p] = calls[a].client]
             /\ Return(a)
             /\ UNCHANGED live
     /\ UNCHANGED <<authorized, adopted, expired, closed>>

Store(a) ==
  /\ calls[a].pc = "storing"
  /\ states' = [states EXCEPT ![calls[a].phone] = calls[a].client]
  /\ Return(a)
  /\ UNCHANGED <<live, authorized, adopted, expired, closed>>

-------------------------------------------------------------------------------
(* Steps 2 and 3: signIn, continueLogin. *)
SignIn(a, p) ==
  /\ calls[a].pc = "idle"
  /\ states[p] # NoClient
  /\ calls' = [calls EXCEPT ![a] = [pc |-> "submitting", phone |-> p, client |-> states[p]]]
  /\ UNCHANGED <<states, live, authorized, adopted, expired, closed>>

\* Mutant: the attempt is not claimed before the await.
CompleteUnclaimed(a) ==
  /\ authorized' = authorized \cup {calls[a].client}
  /\ Goto(a, "adopting")
  /\ UNCHANGED <<states, live, adopted, expired, closed>>

\* completeLogin up to the await of adopt: the attempt is claimed first.
Complete(a) ==
  /\ authorized' = authorized \cup {calls[a].client}
  /\ Forget(calls[a].phone, calls[a].client)
  /\ Goto(a, "adopting")
  /\ UNCHANGED <<live, adopted, expired, closed>>

\* Telegram takes a code once, and answers on an open connection only.
CodeAccepted(a) ==
  /\ calls[a].pc = "submitting"
  /\ calls[a].client \in live \ authorized
  /\ Complete(a)

\* SESSION_PASSWORD_NEEDED, with a password in the request or without one.
PasswordNeeded(a) ==
  /\ calls[a].pc = "submitting"
  /\ calls[a].client \in live
  /\ Goto(a, "checking") \/ Return(a)
  /\ UNCHANGED <<states, live, authorized, adopted, expired, closed>>

PasswordAccepted(a) ==
  /\ calls[a].pc = "checking"
  /\ calls[a].client \in live
  /\ Complete(a)

StepFails(a) ==
  /\ calls[a].pc \in {"submitting", "checking"}
  /\ DropOwnState(calls[a].phone, calls[a].client)
  /\ Return(a)
  /\ UNCHANGED <<authorized, adopted, expired, closed>>

\* adopt: the client is in the cache before its session is recorded.
Adopted(a) ==
  /\ calls[a].pc = "adopting"
  /\ adopted' = adopted \cup {calls[a].client}
  /\ Goto(a, "saving")
  /\ UNCHANGED <<states, live, authorized, expired, closed>>

Recorded(a) ==
  /\ calls[a].pc = "saving"
  /\ Return(a)
  /\ UNCHANGED <<states, live, authorized, adopted, expired, closed>>

-------------------------------------------------------------------------------
(* The expiry sweep, shutdown and the environment. *)
Stale == {p \in Phones : states[p] \in expired}

\* Mutant: the sweep releases the clients and leaves their attempts.
SweepReleaseOnly ==
  /\ ~closed /\ Stale # {}
  /\ Release({states[p] : p \in Stale})
  /\ UNCHANGED <<states, calls, authorized, adopted, expired, closed>>

SweepExpired ==
  /\ ~closed /\ Stale # {}
  /\ states' = [p \in Phones |-> IF p \in Stale THEN NoClient ELSE states[p]]
  /\ Release({states[p] : p \in Stale})
  /\ UNCHANGED <<calls, authorized, adopted, expired, closed>>

Close ==
  /\ ~closed
  /\ closed' = TRUE
  /\ states' = [p \in Phones |-> NoClient]
  /\ Release({states[p] : p \in Phones})
  /\ UNCHANGED <<calls, authorized, adopted, expired>>

Expire(p) ==
  /\ states[p] # NoClient /\ states[p] \notin expired
  /\ expired' = expired \cup {states[p]}
  /\ UNCHANGED <<states, calls, live, authorized, adopted, closed>>

\* SessionStore evicts the client: size ceiling, idle sweep, rejection, close.
Retire(c) ==
  /\ c \in adopted
  /\ adopted' = adopted \ {c}
  /\ Release({c})
  /\ UNCHANGED <<states, calls, authorized, expired, closed>>

Next ==
  \/ \E a \in Calls, p \in Phones : RequestCode(a, p) \/ SignIn(a, p)
  \/ \E a \in Calls, c \in Clients : Opened(a, c)
  \/ \E a \in Calls : \/ OpenFails(a) \/ SendFails(a) \/ CodeSent(a) \/ Store(a)
                      \/ CodeAccepted(a) \/ PasswordNeeded(a) \/ PasswordAccepted(a)
                      \/ StepFails(a) \/ Adopted(a) \/ Recorded(a)
  \/ SweepExpired
  \/ Close
  \/ \E p \in Phones : Expire(p)
  \/ \E c \in Clients : Retire(c)

\* The sweep is a setInterval of the process, cleared by close only.
Spec == Init /\ [][Next]_vars /\ WF_vars(SweepExpired)

-------------------------------------------------------------------------------
Signing(a) == calls[a].pc \in {"submitting", "checking"}

\* "Claim the attempt before the await, so a concurrent step 1 cannot release
\* this client" (auth.service.ts:189): from the moment Telegram has accepted a
\* login, and for as long as SessionStore holds it, its client is destroyed by
\* SessionStore, or by another sign-in that shared the very same attempt and
\* fails late (auth.service.ts:218), and by no step 1, sweep or close.
ClaimedClientSurvives ==
  [][\A c \in live \ live' :
       \/ c \in adopted
       \/ \E a \in Calls : calls[a].pc \in {"adopting", "saving"} /\ calls[a].client = c
       => \/ c \in adopted \ adopted'
          \/ \E b \in Calls : Signing(b) /\ calls[b].client = c /\ calls'[b].pc = "idle"]_vars

\* "A failed step releases only the client it used itself" (auth.service.ts:62),
\* and "a newer attempt stored for the phone meanwhile is left in place" (:190):
\* whatever ends a sign-in, it touches no other client and no other attempt.
SignInTouchesOnlyItsAttempt ==
  [][\A a \in Calls : Signing(a) /\ calls'[a] # calls[a] =>
       /\ live \ live' \subseteq {calls[a].client}
       /\ \A p \in Phones : states[p] # calls[a].client => states'[p] = states[p]]_vars

\* A pending attempt can be signed in with: its client is open, except while a
\* newer one that has released it waits to take its place.
PendingAttemptIsOpen ==
  \A p \in Phones : states[p] # NoClient =>
    \/ states[p] \in live
    \/ \E a \in Calls : calls[a].pc = "storing" /\ calls[a].phone = p

\* An attempt nobody finishes does not stay: once it is past its lifetime the
\* sweep removes it, unless the process is shutting down.
ExpiredAttemptsGo ==
  \A p \in Phones, c \in Clients :
    states[p] = c /\ c \in expired ~> states[p] # c \/ c \notin expired \/ closed

\* "A concurrent request may have stored its own pending client meanwhile;
\* release it first" (auth.service.ts:206): every open login client is pending,
\* adopted or in the hands of a call, so that something will release it.
EveryLoginClientIsHeld ==
  \A c \in live : \/ c \in adopted
                  \/ \E p \in Phones : states[p] = c
                  \/ \E a \in Calls : calls[a].client = c
===============================================================================
