---------------------------- MODULE AuthFlow_proofs ----------------------------
(***************************************************************************)
(* The ownership of login clients, for any number of overlapping calls,    *)
(* phones and clients: a claimed client is destroyed by its owners only, a *)
(* failed sign-in touches its own attempt only, and a pending attempt can  *)
(* be signed in with.                                                      *)
(***************************************************************************)
EXTENDS AuthFlow, TLAPS

Opening(a) == calls[a].pc \in {"sending", "storing"}
Claiming(a) == calls[a].pc \in {"adopting", "saving"}

\* A client has one place at a time: with the call that opened it, as the
\* attempt of one phone, or claimed by a sign-in for the session store.  A call
\* that signs in shares the attempt of its own phone, and no other.
PlaceInv ==
  /\ \A a \in Calls : Opening(a) => calls[a].client \in live
  /\ \A a \in Calls, p \in Phones : Opening(a) => states[p] # calls[a].client
  /\ \A a, b \in Calls : Opening(a) /\ calls[b].client = calls[a].client => a = b
  /\ \A a \in Calls : Opening(a) => calls[a].client \notin adopted
  /\ \A p, q \in Phones : states[p] = states[q] /\ states[p] # NoClient => p = q
  /\ \A p \in Phones : states[p] \notin adopted
  /\ \A a \in Calls, p \in Phones : Claiming(a) => states[p] # calls[a].client
  /\ \A a \in Calls, p \in Phones : Signing(a) /\ states[p] = calls[a].client => p = calls[a].phone
  /\ \A a \in Calls : calls[a].client = NoClient <=> calls[a].pc \in {"idle", "opening"}

AuthInv == TypeOK /\ PlaceInv /\ PendingAttemptIsOpen

-------------------------------------------------------------------------------
LEMMA RestingCall ==
  /\ NoCall.pc = "idle" /\ NoCall.client = NoClient
  /\ NoCall \in [pc : CallPc, phone : Phones, client : Clients \cup {NoClient}]
<1>1. (CHOOSE p \in Phones : TRUE) \in Phones
  BY AuthAssumption
<1> QED
  BY <1>1 DEF NoCall, CallPc

\* Steps that take attempts away and no call, client or phone anywhere new.
LEMMA PlacesOnlyGo ==
  ASSUME TypeOK, PlaceInv, calls' = calls, adopted' \subseteq adopted,
         \A p \in Phones : states'[p] \in {states[p], NoClient},
         \A a \in Calls : Opening(a) => calls[a].client \in live'
  PROVE  PlaceInv'
<1>1. NoClient \notin adopted /\ NoClient \notin live
  BY AuthAssumption DEF TypeOK
<1> QED
  BY <1>1 DEF PlaceInv, Opening, Signing, Claiming

\* A call that goes on or ends: it opens no client, and whatever it claims is
\* no phone's attempt any more.
LEMMA CallGoesOn ==
  ASSUME TypeOK, PlaceInv, NEW a \in Calls,
         \A b \in Calls \ {a} : calls'[b] = calls[b],
         ~Opening(a)',
         calls'[a].client \in {calls[a].client, NoClient},
         calls'[a].client = NoClient <=> calls'[a].pc \in {"idle", "opening"},
         Signing(a)' => Signing(a) /\ calls'[a].phone = calls[a].phone,
         \A p \in Phones : states'[p] \in {states[p], NoClient},
         \A p \in Phones : Claiming(a)' => states'[p] # calls'[a].client,
         adopted' = adopted \/ (Claiming(a) /\ adopted' = adopted \cup {calls[a].client}),
         \A b \in Calls \ {a} : Opening(b) => calls[b].client \in live'
  PROVE  PlaceInv'
<1>1. NoClient \notin adopted /\ NoClient \notin live
  BY AuthAssumption DEF TypeOK
<1>2. \A b \in Calls : Opening(b)' => b # a /\ Opening(b) /\ calls'[b] = calls[b]
  BY DEF Opening
<1>3. \A b \in Calls : Opening(b)' => calls'[b].client \in live'
  BY <1>2
<1>4. \A b \in Calls, p \in Phones : Opening(b)' => states'[p] # calls'[b].client
  BY <1>1, <1>2 DEF PlaceInv
<1>5. \A b, c \in Calls : Opening(b)' /\ calls'[c].client = calls'[b].client => b = c
  BY <1>1, <1>2 DEF PlaceInv
<1>6. \A b \in Calls : Opening(b)' => calls'[b].client \notin adopted'
  BY <1>2 DEF PlaceInv
<1>7. \A p, q \in Phones : states'[p] = states'[q] /\ states'[p] # NoClient => p = q
  BY DEF PlaceInv
<1>8. \A p \in Phones : states'[p] \notin adopted'
  BY <1>1 DEF PlaceInv, Claiming
<1>9. \A b \in Calls, p \in Phones : Claiming(b)' => states'[p] # calls'[b].client
  <2> TAKE b \in Calls, p \in Phones
  <2>1. CASE b = a
    BY <2>1
  <2>2. CASE b # a
    BY <2>2 DEF PlaceInv, Claiming
  <2> QED
    BY <2>1, <2>2
<1>10. \A b \in Calls, p \in Phones : Signing(b)' /\ states'[p] = calls'[b].client => p = calls'[b].phone
  <2> TAKE b \in Calls, p \in Phones
  <2> HAVE Signing(b)' /\ states'[p] = calls'[b].client
  <2>1. calls'[b].client # NoClient
    BY DEF PlaceInv, Signing
  <2>2. Signing(b) /\ calls'[b].phone = calls[b].phone /\ calls'[b].client = calls[b].client
    BY <2>1 DEF Signing
  <2> QED
    BY <2>1, <2>2 DEF PlaceInv
<1>11. \A b \in Calls : calls'[b].client = NoClient <=> calls'[b].pc \in {"idle", "opening"}
  BY DEF PlaceInv
<1> QED
  BY <1>3, <1>4, <1>5, <1>6, <1>7, <1>8, <1>9, <1>10, <1>11 DEF PlaceInv

\* A call makes the client it opened the attempt of its phone.
LEMMA AttemptIsStored ==
  ASSUME TypeOK, PlaceInv, NEW a \in Calls, Opening(a),
         states' = [states EXCEPT ![calls[a].phone] = calls[a].client],
         Return(a), adopted' = adopted, live' = live
  PROVE  PlaceInv' /\ calls'[a].pc = "idle" /\ calls[a].phone \in Phones
<1> DEFINE c == calls[a].client
           s == calls[a].phone
<1>1. s \in Phones /\ c \in Clients \cup {NoClient} /\ c # NoClient
  BY DEF TypeOK, PlaceInv, Opening
<1>2. \A p \in Phones : states'[p] = IF p = s THEN c ELSE states[p]
  BY DEF TypeOK
<1>3. /\ calls'[a].pc = "idle" /\ calls'[a].client = NoClient
      /\ \A b \in Calls \ {a} : calls'[b] = calls[b]
  BY RestingCall DEF Return, TypeOK
<1>4. \A b \in Calls \ {a} : calls[b].client # c
  BY DEF PlaceInv
<1>5. c \notin adopted /\ \A p \in Phones : states[p] # c
  BY DEF PlaceInv
<1> HIDE DEF c, s
<1>6. \A b \in Calls : Opening(b)' => b # a /\ Opening(b)
  BY <1>3 DEF Opening
<1>7. \A b \in Calls : Opening(b)' => calls'[b].client \in live'
  BY <1>3, <1>6 DEF PlaceInv
<1>8. \A b \in Calls, p \in Phones : Opening(b)' => states'[p] # calls'[b].client
  BY <1>2, <1>3, <1>4, <1>6 DEF PlaceInv
<1>9. \A b, d \in Calls : Opening(b)' /\ calls'[d].client = calls'[b].client => b = d
  BY <1>3, <1>6 DEF PlaceInv, Opening
<1>10. \A b \in Calls : Opening(b)' => calls'[b].client \notin adopted'
  BY <1>3, <1>6 DEF PlaceInv
<1>11. \A p, q \in Phones : states'[p] = states'[q] /\ states'[p] # NoClient => p = q
  BY <1>2, <1>5 DEF PlaceInv
<1>12. \A p \in Phones : states'[p] \notin adopted'
  BY <1>2, <1>5 DEF PlaceInv
<1>13. \A b \in Calls, p \in Phones : Claiming(b)' => states'[p] # calls'[b].client
  BY <1>2, <1>3, <1>4 DEF PlaceInv, Claiming
<1>14. \A b \in Calls, p \in Phones : Signing(b)' /\ states'[p] = calls'[b].client => p = calls'[b].phone
  BY <1>2, <1>3, <1>4 DEF PlaceInv, Signing
<1>15. \A b \in Calls : calls'[b].client = NoClient <=> calls'[b].pc \in {"idle", "opening"}
  BY <1>3 DEF PlaceInv
<1> QED
  BY <1>1, <1>3, <1>7, <1>8, <1>9, <1>10, <1>11, <1>12, <1>13, <1>14, <1>15 DEF PlaceInv, s

\* The call of step 1: it opens a client nobody else refers to.
LEMMA ClientIsOpened ==
  ASSUME TypeOK, PlaceInv, NEW a \in Calls, NEW c \in Clients, Opened(a, c)
  PROVE  PlaceInv'
<1>1. /\ c \notin live /\ c \notin adopted /\ c # NoClient
      /\ \A p \in Phones : states[p] # c
      /\ \A b \in Calls : calls[b].client # c
  BY AuthAssumption DEF Opened, Referenced
<1>2. /\ calls'[a].pc = "sending" /\ calls'[a].client = c
      /\ \A b \in Calls \ {a} : calls'[b] = calls[b]
      /\ states' = states /\ adopted' = adopted /\ live' = live \cup {c}
  BY DEF Opened, TypeOK
<1> QED
  BY <1>1, <1>2 DEF PlaceInv, Opening, Signing, Claiming

\* The newer attempt waits for the release of the one it replaces.
LEMMA AttemptWaits ==
  ASSUME TypeOK, PlaceInv, NEW a \in Calls, calls[a].pc = "sending", Goto(a, "storing"),
         NEW p \in Phones, Release({states[p]}), states' = states, adopted' = adopted
  PROVE  PlaceInv' /\ calls'[a].pc = "storing" /\ calls'[a].phone = calls[a].phone
<1>1. /\ calls'[a].pc = "storing" /\ calls'[a].client = calls[a].client /\ calls'[a].phone = calls[a].phone
      /\ \A b \in Calls \ {a} : calls'[b] = calls[b]
      /\ live' = live \ {states[p]}
  BY DEF Goto, Release, TypeOK
<1>2. /\ \A b \in Calls : Opening(b)' <=> Opening(b)
      /\ \A b \in Calls : Claiming(b)' <=> Claiming(b)
      /\ \A b \in Calls : Signing(b)' <=> Signing(b)
      /\ \A b \in Calls : calls'[b].client = calls[b].client /\ calls'[b].phone = calls[b].phone
      /\ \A b \in Calls : calls'[b].pc \in {"idle", "opening"} <=> calls[b].pc \in {"idle", "opening"}
  BY <1>1 DEF Opening, Claiming, Signing
<1>3. \A b \in Calls : Opening(b) => calls[b].client \in live'
  BY <1>1 DEF PlaceInv
<1> QED
  BY <1>1, <1>2, <1>3 DEF PlaceInv

\* A sign-in starts with the attempt of its phone.
LEMMA SignInShares ==
  ASSUME TypeOK, PlaceInv, NEW a \in Calls, NEW p \in Phones, SignIn(a, p)
  PROVE  PlaceInv'
<1>1. /\ calls'[a].pc = "submitting" /\ calls'[a].client = states[p] /\ calls'[a].phone = p
      /\ \A b \in Calls \ {a} : calls'[b] = calls[b]
      /\ states' = states /\ adopted' = adopted /\ live' = live /\ states[p] # NoClient
  BY DEF SignIn, TypeOK
<1> QED
  BY <1>1 DEF PlaceInv, Opening, Signing, Claiming

-------------------------------------------------------------------------------
LEMMA TypesKeep == TypeOK /\ PlaceInv /\ [Next]_vars => TypeOK'
<1> SUFFICES ASSUME TypeOK, PlaceInv, [Next]_vars PROVE TypeOK'
  OBVIOUS
<1> USE DEF TypeOK, CallPc
<1>1. ASSUME NEW a \in Calls, NEW p \in Phones, RequestCode(a, p) \/ SignIn(a, p) PROVE TypeOK'
  <2>1. CASE RequestCode(a, p)
    BY <2>1, RestingCall DEF RequestCode, DropAuthState, Forget, Release
  <2>2. CASE SignIn(a, p)
    BY <2>2, RestingCall DEF SignIn
  <2> QED
    BY <1>1, <2>1, <2>2
<1>2. ASSUME NEW a \in Calls, NEW c \in Clients, Opened(a, c) PROVE TypeOK'
  <2>1. calls' \in [Calls -> [pc : CallPc, phone : Phones, client : Clients \cup {NoClient}]]
    <3>1. calls' = [calls EXCEPT ![a] = [@ EXCEPT !.pc = "sending", !.client = c]]
      BY <1>2 DEF Opened
    <3>2. [calls[a] EXCEPT !.pc = "sending", !.client = c]
            \in [pc : CallPc, phone : Phones, client : Clients \cup {NoClient}]
      OBVIOUS
    <3> QED
      BY <3>1, <3>2
  <2>2. UNCHANGED <<states, adopted>> /\ live' \subseteq Clients
    BY <1>2 DEF Opened
  <2> QED
    BY <1>2, <2>1, <2>2 DEF Opened
<1>3. ASSUME NEW a \in Calls, OpenFails(a) \/ SendFails(a) \/ Store(a) \/ Recorded(a) PROVE TypeOK'
  BY <1>3, RestingCall DEF OpenFails, SendFails, Store, Recorded, Return, Release
<1>4. ASSUME NEW a \in Calls, CodeSent(a) PROVE TypeOK'
  BY <1>4, RestingCall DEF CodeSent, Return, Release, Goto
<1>5. ASSUME NEW a \in Calls, CodeAccepted(a) \/ PasswordAccepted(a) PROVE TypeOK'
  BY <1>5 DEF CodeAccepted, PasswordAccepted, Complete, Forget, Goto
<1>6. ASSUME NEW a \in Calls, PasswordNeeded(a) PROVE TypeOK'
  BY <1>6, RestingCall DEF PasswordNeeded, Goto, Return
<1>7. ASSUME NEW a \in Calls, StepFails(a) PROVE TypeOK'
  BY <1>7, RestingCall DEF StepFails, DropOwnState, Forget, Release, Return
<1>8. ASSUME NEW a \in Calls, Adopted(a) PROVE TypeOK'
  <2>1. calls[a].client \in Clients
    BY <1>8 DEF Adopted, PlaceInv
  <2> QED
    BY <1>8, <2>1 DEF Adopted, Goto
<1>9. CASE SweepExpired \/ Close \/ (\E p \in Phones : Expire(p)) \/ \E c \in Clients : Retire(c)
  BY <1>9 DEF SweepExpired, Close, Expire, Retire, Release
<1>10. CASE UNCHANGED vars
  BY <1>10 DEF vars
<1> QED
  BY <1>1, <1>2, <1>3, <1>4, <1>5, <1>6, <1>7, <1>8, <1>9, <1>10 DEF Next

\* A pending attempt stays open while nobody destroys its client, and no call
\* that waits to replace it stops waiting.
LEMMA PendingKeeps ==
  ASSUME PendingAttemptIsOpen,
         \A p \in Phones : states'[p] = NoClient \/ (states'[p] = states[p] /\ (states[p] \in live => states[p] \in live')),
         \A b \in Calls : calls[b].pc = "storing" => calls'[b] = calls[b]
  PROVE  PendingAttemptIsOpen'
BY DEF PendingAttemptIsOpen

\* A call that requests a code drops the attempt of its phone first.
LEMMA RequestKeeps ==
  ASSUME AuthInv, NEW a \in Calls, NEW p \in Phones, RequestCode(a, p)
  PROVE  PlaceInv' /\ PendingAttemptIsOpen'
<1>1. /\ calls[a].pc = "idle" /\ calls'[a].pc = "opening" /\ calls'[a].client = NoClient
      /\ \A b \in Calls \ {a} : calls'[b] = calls[b]
      /\ \A q \in Phones : states'[q] = IF q = p THEN NoClient ELSE states[q]
      /\ live' = live \ {states[p]} /\ adopted' = adopted
  BY DEF RequestCode, DropAuthState, Forget, Release, AuthInv, TypeOK
<1>2. \A b \in Calls : Opening(b) => calls[b].client \in live'
  BY <1>1 DEF AuthInv, PlaceInv
<1>3. PlaceInv'
  BY <1>1, <1>2, CallGoesOn DEF AuthInv, Opening, Signing, Claiming
<1>4. \A q \in Phones : states'[q] = NoClient \/ (states'[q] = states[q] /\ (states[q] \in live => states[q] \in live'))
  BY <1>1 DEF AuthInv, PlaceInv
<1>5. PendingAttemptIsOpen'
  BY <1>1, <1>4, PendingKeeps DEF AuthInv
<1> QED
  BY <1>3, <1>5

\* A call that fails takes at most its own client with it.
LEMMA FailureKeeps ==
  ASSUME AuthInv, NEW a \in Calls, OpenFails(a) \/ SendFails(a) \/ StepFails(a) \/ Recorded(a)
  PROVE  PlaceInv' /\ PendingAttemptIsOpen'
<1> DEFINE c == calls[a].client
<1>1. /\ calls'[a].pc = "idle" /\ calls'[a].client = NoClient
      /\ \A b \in Calls \ {a} : calls'[b] = calls[b]
      /\ calls[a].pc \notin {"idle", "storing"} /\ adopted' = adopted
  BY RestingCall DEF OpenFails, SendFails, StepFails, Recorded, Return, AuthInv, TypeOK
<1>2. /\ \A q \in Phones : states'[q] \in {states[q], NoClient}
      /\ \/ live' = live
         \/ live' = live \ {c} /\ \A q \in Phones : states'[q] # c
      /\ \A b \in Calls \ {a} : Opening(b) => calls[b].client \in live'
  <2>1. CASE OpenFails(a) \/ Recorded(a)
    BY <2>1 DEF OpenFails, Recorded, AuthInv, PlaceInv
  <2>2. CASE SendFails(a)
    <3>1. Opening(a) /\ states' = states /\ live' = live \ {c}
      BY <2>2 DEF SendFails, Release, Opening
    <3> QED
      BY <3>1 DEF AuthInv, PlaceInv
  <2>3. CASE StepFails(a)
    <3>1. /\ Signing(a) /\ ~Opening(a) /\ calls[a].phone \in Phones /\ live' = live \ {c}
          /\ \A q \in Phones : states'[q] = IF q = calls[a].phone /\ states[q] = c THEN NoClient ELSE states[q]
      BY <2>3 DEF StepFails, DropOwnState, Forget, Release, Signing, Opening, AuthInv, TypeOK
    <3>2. c # NoClient
      BY <3>1 DEF AuthInv, PlaceInv, Signing
    <3> QED
      BY <3>1, <3>2 DEF AuthInv, PlaceInv
  <2> QED
    BY <2>1, <2>2, <2>3
<1>3. PlaceInv'
  BY <1>1, <1>2, CallGoesOn DEF AuthInv, Opening, Signing, Claiming
<1>4. PendingAttemptIsOpen'
  BY <1>1, <1>2, PendingKeeps DEF AuthInv
<1> QED
  BY <1>3, <1>4

\* A sign-in claims its attempt, asks for the password, or is adopted.
LEMMA SignInKeeps ==
  ASSUME AuthInv, NEW a \in Calls,
         CodeAccepted(a) \/ PasswordAccepted(a) \/ PasswordNeeded(a) \/ Adopted(a)
  PROVE  PlaceInv' /\ PendingAttemptIsOpen'
<1> DEFINE c == calls[a].client
<1>1. CASE CodeAccepted(a) \/ PasswordAccepted(a)
  <2>1. /\ Signing(a) /\ calls'[a].pc = "adopting" /\ calls'[a].client = c /\ calls'[a].phone = calls[a].phone
        /\ \A b \in Calls \ {a} : calls'[b] = calls[b]
        /\ \A q \in Phones : states'[q] = IF q = calls[a].phone /\ states[q] = c THEN NoClient ELSE states[q]
        /\ live' = live /\ adopted' = adopted
    BY <1>1 DEF CodeAccepted, PasswordAccepted, Complete, Forget, Goto, Signing, AuthInv, TypeOK
  <2>2. c # NoClient
    BY <2>1 DEF AuthInv, PlaceInv, Signing
  <2>3. \A q \in Phones : states'[q] # c
    BY <2>1, <2>2 DEF AuthInv, PlaceInv
  <2>4. PlaceInv'
    BY <2>1, <2>2, <2>3, CallGoesOn DEF AuthInv, Opening, Signing, Claiming, PlaceInv
  <2> QED
    BY <2>1, <2>4, PendingKeeps DEF AuthInv, Signing
<1>2. CASE PasswordNeeded(a)
  <2>1. /\ calls[a].pc = "submitting" /\ states' = states /\ live' = live /\ adopted' = adopted
        /\ \A b \in Calls \ {a} : calls'[b] = calls[b]
        /\ \/ calls'[a].pc = "checking" /\ calls'[a].client = c /\ calls'[a].phone = calls[a].phone
           \/ calls'[a].pc = "idle" /\ calls'[a].client = NoClient
    BY <1>2, RestingCall DEF PasswordNeeded, Goto, Return, AuthInv, TypeOK
  <2>2. c # NoClient
    BY <2>1 DEF AuthInv, PlaceInv
  <2>3. PlaceInv'
    BY <2>1, <2>2, CallGoesOn DEF AuthInv, Opening, Signing, Claiming, PlaceInv
  <2> QED
    BY <2>1, <2>3, PendingKeeps DEF AuthInv
<1>3. CASE Adopted(a)
  <2>1. /\ calls[a].pc = "adopting" /\ states' = states /\ live' = live /\ adopted' = adopted \cup {c}
        /\ \A b \in Calls \ {a} : calls'[b] = calls[b]
        /\ calls'[a].pc = "saving" /\ calls'[a].client = c
    BY <1>3 DEF Adopted, Goto, AuthInv, TypeOK
  <2>2. c # NoClient /\ \A q \in Phones : states[q] # c
    BY <2>1 DEF AuthInv, PlaceInv, Claiming
  <2>3. PlaceInv'
    BY <2>1, <2>2, CallGoesOn DEF AuthInv, Opening, Signing, Claiming, PlaceInv
  <2> QED
    BY <2>1, <2>3, PendingKeeps DEF AuthInv
<1> QED
  BY <1>1, <1>2, <1>3

\* A call whose code was sent stores its attempt, after the release of one it replaces.
LEMMA StoringKeeps ==
  ASSUME AuthInv, NEW a \in Calls, CodeSent(a) \/ Store(a)
  PROVE  PlaceInv' /\ PendingAttemptIsOpen'
<1> DEFINE c == calls[a].client
           s == calls[a].phone
<1>1. Opening(a) /\ c \in live /\ s \in Phones
  BY DEF CodeSent, Store, Opening, AuthInv, PlaceInv, TypeOK
<1>2. CASE states' = [states EXCEPT ![s] = c] /\ Return(a) /\ UNCHANGED <<live, adopted>>
  <2>1. PlaceInv' /\ calls'[a].pc = "idle"
    BY <1>1, <1>2, AttemptIsStored DEF AuthInv
  <2>2. \A b \in Calls \ {a} : calls'[b] = calls[b]
    BY <1>2 DEF Return, AuthInv, TypeOK
  <2>3. \A q \in Phones : states'[q] = IF q = s THEN c ELSE states[q]
    BY <1>2 DEF AuthInv, TypeOK
  <2> SUFFICES ASSUME NEW q \in Phones, states'[q] # NoClient
               PROVE  states'[q] \in live' \/ \E b \in Calls : calls'[b].pc = "storing" /\ calls'[b].phone = q
    BY <2>1 DEF PendingAttemptIsOpen
  <2>4. CASE q = s
    BY <1>1, <1>2, <2>3, <2>4
  <2>5. CASE q # s
    <3>1. states[q] \in live \/ \E b \in Calls : calls[b].pc = "storing" /\ calls[b].phone = q
      BY <2>3, <2>5 DEF AuthInv, PendingAttemptIsOpen
    <3>2. CASE states[q] \in live
      BY <1>2, <2>3, <2>5, <3>2
    <3>3. CASE \E b \in Calls : calls[b].pc = "storing" /\ calls[b].phone = q
      BY <2>2, <2>5, <3>3
    <3> QED
      BY <3>1, <3>2, <3>3
  <2> QED
    BY <2>4, <2>5
<1>3. CASE calls[a].pc = "sending" /\ Release({states[s]}) /\ Goto(a, "storing") /\ UNCHANGED <<states, adopted>>
  <2>1. PlaceInv' /\ calls'[a].pc = "storing" /\ calls'[a].phone = s
    BY <1>1, <1>3, AttemptWaits DEF AuthInv
  <2>2. \A b \in Calls \ {a} : calls'[b] = calls[b]
    BY <1>3 DEF Goto, AuthInv, TypeOK
  <2> SUFFICES ASSUME NEW q \in Phones, states[q] # NoClient
               PROVE  states[q] \in live' \/ \E b \in Calls : calls'[b].pc = "storing" /\ calls'[b].phone = q
    BY <1>3, <2>1 DEF PendingAttemptIsOpen
  <2>3. CASE q = s
    BY <2>1, <2>3
  <2>4. CASE q # s
    <3>1. states[q] # states[s]
      BY <1>1, <2>4 DEF AuthInv, PlaceInv
    <3> QED
      BY <1>3, <2>2, <3>1 DEF AuthInv, PendingAttemptIsOpen, Release
  <2> QED
    BY <2>3, <2>4
<1> QED
  BY <1>2, <1>3 DEF CodeSent, Store

\* The sweep, shutdown and the session store take attempts and clients away.
LEMMA RemovalsKeep ==
  ASSUME AuthInv, SweepExpired \/ Close \/ (\E p \in Phones : Expire(p)) \/ \E c \in Clients : Retire(c)
  PROVE  PlaceInv' /\ PendingAttemptIsOpen'
<1>1. /\ calls' = calls /\ adopted' \subseteq adopted
      /\ \A p \in Phones : states'[p] \in {states[p], NoClient}
      /\ \A c \in live \ live' : c \in adopted \/ \E p \in Phones : states[p] = c
      /\ \A p \in Phones : states'[p] # NoClient => (states[p] \in live => states[p] \in live')
  <2>1. CASE SweepExpired
    <3>1. /\ states' = [p \in Phones |-> IF p \in Stale THEN NoClient ELSE states[p]]
          /\ live' = live \ {states[p] : p \in Stale} /\ calls' = calls /\ adopted' = adopted
          /\ Stale \subseteq Phones
      BY <2>1 DEF SweepExpired, Release, Stale
    <3> QED
      BY <3>1 DEF AuthInv, PlaceInv
  <2>2. CASE Close
    BY <2>2 DEF Close, Release
  <2>3. CASE \E p \in Phones : Expire(p)
    BY <2>3 DEF Expire
  <2>4. CASE \E c \in Clients : Retire(c)
    BY <2>4 DEF Retire, Release, AuthInv, PlaceInv
  <2> QED
    BY <2>1, <2>2, <2>3, <2>4
<1>2. \A a \in Calls : Opening(a) => calls[a].client \in live'
  BY <1>1 DEF AuthInv, PlaceInv
<1>3. PlaceInv'
  BY <1>1, <1>2, PlacesOnlyGo DEF AuthInv
<1>4. PendingAttemptIsOpen'
  BY <1>1, PendingKeeps DEF AuthInv
<1> QED
  BY <1>3, <1>4

LEMMA AuthInvInit == Init => AuthInv
<1> SUFFICES ASSUME Init PROVE AuthInv
  OBVIOUS
<1>1. \A a \in Calls : calls[a].pc = "idle" /\ calls[a].client = NoClient
  BY RestingCall DEF Init
<1>2. \A p \in Phones : states[p] = NoClient
  BY DEF Init
<1>3. TypeOK
  BY RestingCall DEF Init, TypeOK
<1> QED
  BY <1>1, <1>2, <1>3 DEF Init, AuthInv, PlaceInv, Opening, Signing, Claiming, PendingAttemptIsOpen

LEMMA AuthInvNext == AuthInv /\ [Next]_vars => AuthInv'
<1> SUFFICES ASSUME AuthInv, [Next]_vars PROVE AuthInv'
  OBVIOUS
<1>1. TypeOK'
  BY TypesKeep DEF AuthInv
<1>2. ASSUME NEW a \in Calls, NEW p \in Phones, SignIn(a, p) PROVE PlaceInv' /\ PendingAttemptIsOpen'
  <2>1. /\ states' = states /\ live' = live
        /\ \A b \in Calls : calls[b].pc = "storing" => calls'[b] = calls[b]
    BY <1>2 DEF SignIn
  <2> QED
    BY <1>2, <2>1, SignInShares, PendingKeeps DEF AuthInv
<1>3. ASSUME NEW a \in Calls, NEW c \in Clients, Opened(a, c) PROVE PlaceInv' /\ PendingAttemptIsOpen'
  <2>1. /\ states' = states /\ live \subseteq live'
        /\ \A b \in Calls : calls[b].pc = "storing" => calls'[b] = calls[b]
    BY <1>3 DEF Opened, AuthInv, TypeOK
  <2> QED
    BY <1>3, <2>1, ClientIsOpened, PendingKeeps DEF AuthInv
<1>4. CASE UNCHANGED vars
  BY <1>4 DEF vars, AuthInv, TypeOK, PlaceInv, Opening, Signing, Claiming, PendingAttemptIsOpen
<1>5. CASE Next
  <2>1. PlaceInv' /\ PendingAttemptIsOpen'
    BY <1>2, <1>3, <1>5, RequestKeeps, FailureKeeps, SignInKeeps, StoringKeeps, RemovalsKeep DEF Next
  <2> QED
    BY <1>1, <2>1 DEF AuthInv
<1> QED
  BY <1>4, <1>5

-------------------------------------------------------------------------------
\* The login flow keeps its types for any calls, phones and clients.
THEOREM AuthTypeCorrect == Spec => []TypeOK
<1>1. AuthInv => TypeOK
  BY DEF AuthInv
<1> QED
  BY <1>1, AuthInvInit, AuthInvNext, PTL DEF Spec

\* A pending attempt can be signed in with, unless a newer one replaces it.
THEOREM PendingAttemptsAreOpen == Spec => []PendingAttemptIsOpen
<1>1. AuthInv => PendingAttemptIsOpen
  BY DEF AuthInv
<1> QED
  BY <1>1, AuthInvInit, AuthInvNext, PTL DEF Spec

\* No step 1, sweep or close destroys a client whose login Telegram accepted.
THEOREM ClaimedClientsSurvive == Spec => ClaimedClientSurvives
<1> DEFINE Held(c) == c \in adopted \/ \E a \in Calls : calls[a].pc \in {"adopting", "saving"} /\ calls[a].client = c
           Ended(c) == c \in adopted \ adopted'
                       \/ \E b \in Calls : Signing(b) /\ calls[b].client = c /\ calls'[b].pc = "idle"
<1>1. ASSUME AuthInv, Next, NEW c \in live \ live', Held(c)
      PROVE  Ended(c)
  <2>1. \A p \in Phones : states[p] # c
    BY <1>1 DEF AuthInv, PlaceInv, Claiming
  <2>2. \A a \in Calls : Opening(a) => calls[a].client # c
    BY <1>1 DEF AuthInv, PlaceInv, Opening
  <2>3. ASSUME NEW a \in Calls, NEW p \in Phones, RequestCode(a, p) \/ SignIn(a, p) PROVE FALSE
    BY <1>1, <2>1, <2>3 DEF RequestCode, SignIn, DropAuthState, Release
  <2>4. ASSUME NEW a \in Calls, NEW d \in Clients, Opened(a, d) PROVE FALSE
    BY <1>1, <2>4 DEF Opened
  <2>5. ASSUME NEW a \in Calls, OpenFails(a) \/ SendFails(a) \/ CodeSent(a) \/ Store(a) PROVE FALSE
    <3>1. calls[a].phone \in Phones
      BY <1>1 DEF AuthInv, TypeOK
    <3> QED
      BY <1>1, <2>1, <2>2, <2>5, <3>1 DEF OpenFails, SendFails, CodeSent, Store, Release, Opening
  <2>6. ASSUME NEW a \in Calls, CodeAccepted(a) \/ PasswordNeeded(a) \/ PasswordAccepted(a) \/ Adopted(a) \/ Recorded(a)
        PROVE FALSE
    BY <1>1, <2>6 DEF CodeAccepted, PasswordNeeded, PasswordAccepted, Adopted, Recorded, Complete
  <2>7. ASSUME NEW a \in Calls, StepFails(a) PROVE Ended(c)
    <3>1. Signing(a) /\ live' = live \ {calls[a].client} /\ calls'[a].pc = "idle"
      BY <1>1, <2>7, RestingCall DEF StepFails, DropOwnState, Release, Return, Signing, AuthInv, TypeOK
    <3> QED
      BY <1>1, <3>1
  <2>8. CASE SweepExpired \/ Close \/ \E p \in Phones : Expire(p)
    BY <1>1, <2>1, <2>8 DEF SweepExpired, Close, Expire, Release, Stale
  <2>9. ASSUME NEW d \in Clients, Retire(d) PROVE Ended(c)
    BY <1>1, <2>9 DEF Retire, Release
  <2> QED
    BY <1>1, <2>3, <2>4, <2>5, <2>6, <2>7, <2>8, <2>9 DEF Next
<1> DEFINE Survives ==
             \A c \in live \ live' :
               \/ c \in adopted
               \/ \E a \in Calls : calls[a].pc \in {"adopting", "saving"} /\ calls[a].client = c
               => \/ c \in adopted \ adopted'
                  \/ \E b \in Calls : Signing(b) /\ calls[b].client = c /\ calls'[b].pc = "idle"
<1>2. AuthInv /\ [Next]_vars => [Survives]_vars
  <2> SUFFICES ASSUME AuthInv, Next PROVE Survives
    OBVIOUS
  <2>1. \A c \in live \ live' : Held(c) => Ended(c)
    <3> HIDE DEF Held, Ended
    <3> QED
      BY <1>1
  <2> QED
    BY <2>1
<1> QED
  BY <1>2, AuthInvInit, AuthInvNext, PTL DEF Spec, ClaimedClientSurvives

\* Whatever ends a sign-in touches no client and no attempt but its own.
THEOREM SignInsTouchTheirOwn == Spec => SignInTouchesOnlyItsAttempt
<1> DEFINE Own(a) == /\ live \ live' \subseteq {calls[a].client}
                     /\ \A p \in Phones : states[p] # calls[a].client => states'[p] = states[p]
           Touches == \A a \in Calls : Signing(a) /\ calls'[a] # calls[a] => Own(a)
<1>1. ASSUME AuthInv, Next, NEW a \in Calls, Signing(a), calls'[a] # calls[a]
      PROVE  Own(a)
  <2>1. /\ \A p \in Phones : ~SignIn(a, p) /\ ~RequestCode(a, p)
        /\ \A c \in Clients : ~Opened(a, c)
        /\ ~OpenFails(a) /\ ~SendFails(a) /\ ~CodeSent(a) /\ ~Store(a) /\ ~Adopted(a) /\ ~Recorded(a)
    BY <1>1 DEF Signing, SignIn, RequestCode, Opened, OpenFails, SendFails, CodeSent, Store, Adopted, Recorded
  <2>2. ASSUME NEW b \in Calls, b # a,
               \/ \E p \in Phones : SignIn(b, p) \/ RequestCode(b, p)
               \/ \E c \in Clients : Opened(b, c)
               \/ OpenFails(b) \/ SendFails(b) \/ CodeSent(b) \/ Store(b)
               \/ CodeAccepted(b) \/ PasswordNeeded(b) \/ PasswordAccepted(b)
               \/ StepFails(b) \/ Adopted(b) \/ Recorded(b)
        PROVE  FALSE
    BY <1>1, <2>2 DEF SignIn, RequestCode, Opened, OpenFails, SendFails, CodeSent, Store, CodeAccepted,
         PasswordNeeded, PasswordAccepted, StepFails, Adopted, Recorded, Complete, Goto, Return, AuthInv, TypeOK
  <2>3. ~(SweepExpired \/ Close \/ (\E p \in Phones : Expire(p)) \/ \E c \in Clients : Retire(c))
    BY <1>1 DEF SweepExpired, Close, Expire, Retire
  <2>4. CodeAccepted(a) \/ PasswordNeeded(a) \/ PasswordAccepted(a) \/ StepFails(a)
    <3>1. ~\E b \in Calls, p \in Phones : RequestCode(b, p) \/ SignIn(b, p)
      BY <2>1, <2>2
    <3>2. ~\E b \in Calls, c \in Clients : Opened(b, c)
      BY <2>1, <2>2, AuthAssumption
    <3>3. PICK b \in Calls : \/ OpenFails(b) \/ SendFails(b) \/ CodeSent(b) \/ Store(b)
                             \/ CodeAccepted(b) \/ PasswordNeeded(b) \/ PasswordAccepted(b)
                             \/ StepFails(b) \/ Adopted(b) \/ Recorded(b)
      BY <1>1, <2>3, <3>1, <3>2 DEF Next
    <3>4. b = a
      BY <2>2, <3>3
    <3> QED
      BY <2>1, <3>3, <3>4
  <2>5. /\ states' = states \/ Forget(calls[a].phone, calls[a].client)
        /\ live' = live \/ live' = live \ {calls[a].client}
    BY <2>4 DEF CodeAccepted, PasswordNeeded, PasswordAccepted, StepFails, Complete, DropOwnState, Release
  <2> QED
    BY <1>1, <2>5 DEF Forget, AuthInv, TypeOK
<1>2. AuthInv /\ [Next]_vars => [Touches]_vars
  <2> SUFFICES ASSUME AuthInv, Next PROVE Touches
    OBVIOUS
  <2> HIDE DEF Own
  <2> QED
    BY <1>1
<1> QED
  BY <1>2, AuthInvInit, AuthInvNext, PTL DEF Spec, SignInTouchesOnlyItsAttempt
===============================================================================
