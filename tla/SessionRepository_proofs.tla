------------------------ MODULE SessionRepository_proofs ----------------------
(***************************************************************************)
(* A removed session leaves no trace, and is of no use to the digest, for  *)
(* any number of sessions and of operations in flight at once.             *)
(***************************************************************************)
EXTENDS SessionRepository, TLAPS

Shape ==
  /\ calls \in [Calls -> InFlight \cup {NoCall}]
  /\ record \in [Sessions -> Records]
  /\ removed \subseteq Sessions /\ forgotten \subseteq Sessions
  /\ mark \in Sessions \cup {NoSession}

\* The commands of an operation are its own.
InStep(call) ==
  /\ call.command = "set" <=> call.op = "save"
  /\ call.command \in {"readMark", "unmark", "delete"} <=> call.op = "remove"
  /\ call.command = "expire" => call.op \in {"touch", "isKnown"}
  /\ call.op # "none" /\ call.command # "getMark" => call.session \in Sessions
InSteps == \A c \in Calls : InStep(calls[c])

\* Only a session in the hands of callers is removed: the save of its login is over.
RemovedIsHandedOut ==
  /\ \A c \in Calls : calls[c].op = "remove" => IsHandedOut(calls[c].session)
  /\ \A s \in removed : IsHandedOut(s)

\* A removal about to delete its record has seen to the mark, unless the session
\* was marked meanwhile.
MarkSeenTo ==
  \A c \in Calls : At(c, "delete") /\ calls[c].isClean => mark # calls[c].session

\* Redis and the memory of the process are never both in use.
OneStore ==
  /\ hasRedis => memoryDigestSession = NoSession
  /\ ~hasRedis => mark = NoSession /\ \A c \in Calls : calls[c] = NoCall
  /\ ~hasRedis => \A s \in Sessions : record[s] = "none"

RemovalInv == Shape /\ InSteps /\ RemovedIsHandedOut /\ MarkSeenTo /\ OneStore /\ ForgottenLeavesNoTrace

LEMMA RemovalInvInit == Init => RemovalInv
  BY RepositoryAssumption
  DEF Init, RemovalInv, Shape, InSteps, InStep, RemovedIsHandedOut, MarkSeenTo, OneStore,
      ForgottenLeavesNoTrace, Records, NoCall, At

-------------------------------------------------------------------------------
\* What a step does to the operations in flight.
LEMMA BeginShape ==
  ASSUME Shape, NEW c \in Calls, NEW op, NEW s \in Sessions \cup {NoSession}, NEW command \in Commands,
         op \in {"save", "isKnown", "touch", "remove", "markDigest", "loadDigest"},
         Begin(c, op, s, command)
  PROVE  /\ calls' \in [Calls -> InFlight \cup {NoCall}]
         /\ calls'[c] = [op |-> op, session |-> s, command |-> command, isClean |-> TRUE]
         /\ \A d \in Calls \ {c} : calls'[d] = calls[d]
         /\ hasRedis /\ calls[c] = NoCall
  BY DEF Shape, Begin, InFlight, IsIdle

LEMMA ThenShape ==
  ASSUME Shape, NEW c \in Calls, NEW command \in Commands, calls[c] # NoCall, Then(c, command)
  PROVE  /\ calls' \in [Calls -> InFlight \cup {NoCall}]
         /\ calls'[c].command = command /\ calls'[c].op = calls[c].op
         /\ calls'[c].session = calls[c].session /\ calls'[c].isClean = calls[c].isClean
         /\ \A d \in Calls \ {c} : calls'[d] = calls[d]
<1> DEFINE next == [op |-> calls[c].op, session |-> calls[c].session,
                    command |-> command, isClean |-> calls[c].isClean]
<1>1. calls[c] \in InFlight
  BY DEF Shape
<1>2. next \in InFlight /\ [calls[c] EXCEPT !.command = command] = next
  BY <1>1 DEF InFlight
<1>3. calls' = [calls EXCEPT ![c] = next]
  BY <1>2 DEF Then, Shape
<1> QED
  BY <1>2, <1>3 DEF Shape

LEMMA ReturnShape ==
  ASSUME Shape, NEW c \in Calls, NEW what, NEW s, Return(c, what, s)
  PROVE  /\ calls' \in [Calls -> InFlight \cup {NoCall}]
         /\ calls'[c] = NoCall
         /\ \A d \in Calls \ {c} : calls'[d] = calls[d]
  BY DEF Shape, Return

-------------------------------------------------------------------------------
\* A call that begins, other than with a removal, or that ends: nothing it may
\* break, as long as the stored state stays.
LEMMA StartsKeep ==
  ASSUME RemovalInv, NEW c \in Calls, NEW s \in Sessions,
         StartOp(c, s) \/ LoadDigest(c) \/ Save(c, s)
  PROVE  RemovalInv'
<1>1. UNCHANGED <<hasRedis, record, mark, memoryDigestSession, removed, forgotten>>
  BY DEF StartOp, LoadDigest, Save, history
<1>2. CASE StartOp(c, s)
  <2>1. IsHandedOut(s) /\ issued' = issued
    BY <1>2 DEF StartOp
  <2>2. PICK op \in {"isKnown", "touch", "remove", "markDigest"},
             command \in {"get", "expire", "readMark", "setMark"} :
          /\ Begin(c, op, s, command)
          /\ op = "remove" <=> command = "readMark"
          /\ command = "expire" => op = "touch"
    BY <1>2 DEF StartOp
  <2>3. /\ calls' \in [Calls -> InFlight \cup {NoCall}]
        /\ calls'[c] = [op |-> op, session |-> s, command |-> command, isClean |-> TRUE]
        /\ \A d \in Calls \ {c} : calls'[d] = calls[d]
        /\ hasRedis /\ calls[c] = NoCall
    <3>1. Shape /\ command \in Commands
      BY DEF RemovalInv, Commands
    <3> QED
      BY <2>2, <3>1, BeginShape
  <2>4. InSteps' /\ MarkSeenTo'
    BY <1>1, <2>2, <2>3 DEF RemovalInv, InSteps, InStep, MarkSeenTo, At
  <2>5. \A t \in Sessions : IsHandedOut(t) => IsHandedOut(t)'
    BY <2>1, <2>2, <2>3 DEF IsHandedOut
  <2>6. RemovedIsHandedOut'
    BY <1>1, <2>1, <2>3, <2>5 DEF RemovalInv, RemovedIsHandedOut, Shape, InSteps, InStep
  <2> QED
    BY <1>1, <2>3, <2>4, <2>6 DEF RemovalInv, Shape, OneStore, ForgottenLeavesNoTrace
<1>3. CASE LoadDigest(c)
  <2>1. /\ calls' \in [Calls -> InFlight \cup {NoCall}]
        /\ calls'[c] = [op |-> "loadDigest", session |-> NoSession, command |-> "getMark", isClean |-> TRUE]
        /\ \A d \in Calls \ {c} : calls'[d] = calls[d]
        /\ hasRedis /\ calls[c] = NoCall /\ issued' = issued
    <3>1. Shape /\ "getMark" \in Commands
      BY DEF RemovalInv, Commands
    <3>2. Begin(c, "loadDigest", NoSession, "getMark") /\ issued' = issued
      BY <1>3 DEF LoadDigest
    <3> QED
      BY <3>1, <3>2, BeginShape
  <2>2. InSteps' /\ MarkSeenTo'
    BY <1>1, <2>1 DEF RemovalInv, InSteps, InStep, MarkSeenTo, At
  <2>3. RemovedIsHandedOut'
    BY <1>1, <2>1 DEF RemovalInv, RemovedIsHandedOut, IsHandedOut
  <2> QED
    BY <1>1, <2>1, <2>2, <2>3 DEF RemovalInv, Shape, OneStore, ForgottenLeavesNoTrace
<1>4. CASE Save(c, s)
  <2>1. /\ calls' \in [Calls -> InFlight \cup {NoCall}]
        /\ calls'[c] = [op |-> "save", session |-> s, command |-> "set", isClean |-> TRUE]
        /\ \A d \in Calls \ {c} : calls'[d] = calls[d]
        /\ hasRedis /\ calls[c] = NoCall /\ issued' = issued \cup {s} /\ s \notin issued
    <3>1. Shape /\ "set" \in Commands
      BY DEF RemovalInv, Commands
    <3>2. Begin(c, "save", s, "set") /\ issued' = issued \cup {s} /\ s \notin issued
      BY <1>4 DEF Save
    <3> QED
      BY <3>1, <3>2, BeginShape
  <2>2. InSteps' /\ MarkSeenTo'
    BY <1>1, <2>1 DEF RemovalInv, InSteps, InStep, MarkSeenTo, At
  <2>3. \A t \in Sessions : IsHandedOut(t) => IsHandedOut(t)'
    BY <2>1 DEF IsHandedOut
  <2>4. RemovedIsHandedOut'
    BY <1>1, <2>1, <2>3 DEF RemovalInv, RemovedIsHandedOut, Shape, InSteps, InStep
  <2> QED
    BY <1>1, <2>1, <2>2, <2>4 DEF RemovalInv, Shape, OneStore, ForgottenLeavesNoTrace
<1> QED
  BY <1>2, <1>3, <1>4

\* Sessions in the hands of callers stay there while calls only go on or end.
LEMMA HandedOutStays ==
  ASSUME NEW t, IsHandedOut(t), issued' = issued,
         \A d \in Calls : calls'[d].op = "save" => calls[d].op = "save" /\ calls'[d].session = calls[d].session
  PROVE  IsHandedOut(t)'
  BY DEF IsHandedOut

\* A call that returns, whatever it did to a record that no removal had deleted.
LEMMA ReturnKeeps ==
  ASSUME RemovalInv, NEW c \in Calls, NEW what, NEW s, Return(c, what, s), calls[c] # NoCall,
         UNCHANGED <<hasRedis, mark, memoryDigestSession, issued, removed, forgotten>>,
         record' \in [Sessions -> Records],
         \A t \in removed : record'[t] = "none"
  PROVE  RemovalInv'
<1>1. /\ calls' \in [Calls -> InFlight \cup {NoCall}]
      /\ calls'[c] = NoCall
      /\ \A d \in Calls \ {c} : calls'[d] = calls[d]
  BY ReturnShape DEF RemovalInv
<1>2. hasRedis
  BY DEF RemovalInv, OneStore
<1>3. InSteps' /\ MarkSeenTo'
  BY <1>1 DEF RemovalInv, InSteps, InStep, MarkSeenTo, At, NoCall
<1>4. \A t : IsHandedOut(t) => IsHandedOut(t)'
  BY <1>1, HandedOutStays DEF NoCall
<1>5. RemovedIsHandedOut'
  BY <1>1, <1>4 DEF RemovalInv, RemovedIsHandedOut, NoCall
<1> QED
  BY <1>1, <1>2, <1>3, <1>5 DEF RemovalInv, Shape, OneStore, ForgottenLeavesNoTrace

\* A call that goes on within the same operation and leaves the records alone.
LEMMA ThenKeeps ==
  ASSUME RemovalInv, NEW c \in Calls, NEW command \in Commands, Then(c, command), calls[c] # NoCall,
         UNCHANGED <<hasRedis, record, memoryDigestSession, issued, removed, forgotten>>,
         mark' \in {mark, NoSession},
         command \in {"set", "getMark"} => FALSE,
         command \in {"unmark", "delete", "readMark"} <=> calls[c].op = "remove",
         command = "expire" => calls[c].op = "isKnown",
         ~At(c, "getMark"), ~At(c, "set"),
         command = "delete" => mark' # calls[c].session
  PROVE  RemovalInv'
<1>1. /\ calls' \in [Calls -> InFlight \cup {NoCall}]
      /\ calls'[c].command = command /\ calls'[c].op = calls[c].op
      /\ calls'[c].session = calls[c].session /\ calls'[c].isClean = calls[c].isClean
      /\ \A d \in Calls \ {c} : calls'[d] = calls[d]
  BY ThenShape DEF RemovalInv
<1>2. hasRedis /\ calls[c] \in InFlight
  BY DEF RemovalInv, OneStore, Shape
<1>3. InSteps'
  BY <1>1, <1>2 DEF RemovalInv, InSteps, InStep, At, InFlight
<1>4. MarkSeenTo'
  <2>1. ASSUME NEW d \in Calls \ {c}, At(d, "delete"), calls[d].isClean PROVE mark' # calls[d].session
    <3>1. calls[d].op = "remove" /\ calls[d].op # "none" /\ calls[d].session \in Sessions
      BY <2>1 DEF RemovalInv, InSteps, InStep, At
    <3> QED
      BY <2>1, <3>1, RepositoryAssumption DEF RemovalInv, MarkSeenTo
  <2> QED
    BY <1>1, <2>1 DEF MarkSeenTo, At
<1>5. RemovedIsHandedOut'
  <2>1. \A t : IsHandedOut(t) => IsHandedOut(t)'
    BY <1>1, HandedOutStays
  <2> QED
    BY <1>1, <2>1 DEF RemovalInv, RemovedIsHandedOut
<1> QED
  BY <1>1, <1>2, <1>3, <1>4, <1>5, RepositoryAssumption DEF RemovalInv, Shape, OneStore, ForgottenLeavesNoTrace

-------------------------------------------------------------------------------
LEMMA CommandKeeps ==
  ASSUME RemovalInv, NEW c \in Calls, Command(c)
  PROVE  RemovalInv'
<1> DEFINE call == calls[c]
<1>1. call # NoCall /\ call \in InFlight /\ InStep(call) /\ hasRedis
  <2>1. call # NoCall
    BY DEF Command, Set, Get, Discard, Expire, ReadMark, Unmark, Delete, SetMark, GetMark,
           CommandFails, At, IsIdle, NoCall
  <2> QED
    BY <2>1 DEF RemovalInv, Shape, InSteps, OneStore
<1>2. CASE Set(c)
  <2>1. call.op = "save" /\ call.session \in Sessions
    BY <1>1, <1>2 DEF Set, At, InStep
  <2>2. call.session \notin removed
    BY <2>1 DEF RemovalInv, RemovedIsHandedOut, IsHandedOut
  <2>3. /\ record' \in [Sessions -> Records] /\ \A t \in removed : record'[t] = "none"
    BY <1>2, <2>1, <2>2 DEF Set, RemovalInv, Shape, ForgottenLeavesNoTrace, Records
  <2> QED
    BY <1>1, <1>2, <2>3, ReturnKeeps DEF Set, history
<1>3. ASSUME NEW what, NEW s, Return(c, what, s),
             UNCHANGED <<hasRedis, record, mark, memoryDigestSession, issued, removed, forgotten>>
      PROVE  RemovalInv'
  <2>1. record' \in [Sessions -> Records] /\ \A t \in removed : record'[t] = "none"
    BY <1>3 DEF RemovalInv, Shape, ForgottenLeavesNoTrace
  <2> QED
    BY <1>1, <1>3, <2>1, ReturnKeeps
<1>4. CASE Get(c)
  <2>1. UNCHANGED <<hasRedis, record, mark, memoryDigestSession, issued, removed, forgotten>>
    BY <1>4 DEF Get, history
  <2>2. CASE \E what, s : Return(c, what, s)
    BY <1>3, <2>1, <2>2
  <2>3. ASSUME NEW command \in {"discard", "expire"}, Then(c, command),
               command = "expire" => call.op = "isKnown"
        PROVE  RemovalInv'
    <3>1. call.op # "remove" /\ command \in Commands /\ ~At(c, "getMark") /\ ~At(c, "set")
      BY <1>1, <1>4, <2>3 DEF Get, At, InStep, Commands
    <3> QED
      BY <1>1, <2>1, <2>3, <3>1, ThenKeeps
  <2> QED
    BY <1>4, <2>2, <2>3 DEF Get
<1>5. CASE Discard(c)
  <2>1. call.session \in Sessions
    BY <1>1, <1>5 DEF Discard, At, InStep, InFlight
  <2>2. record' \in [Sessions -> Records] /\ \A t \in removed : record'[t] = "none"
    BY <1>5, <2>1 DEF Discard, RemovalInv, Shape, ForgottenLeavesNoTrace, Records
  <2> QED
    BY <1>1, <1>5, <2>2, ReturnKeeps DEF Discard, history
<1>6. CASE Expire(c) \/ CommandFails(c)
  BY <1>3, <1>6 DEF Expire, CommandFails, history
<1>7. CASE ReadMark(c)
  <2>1. call.op = "remove" /\ ~At(c, "getMark") /\ ~At(c, "set")
    BY <1>1, <1>7 DEF ReadMark, At, InStep
  <2>2. UNCHANGED <<hasRedis, record, mark, memoryDigestSession, issued, removed, forgotten>>
    BY <1>7 DEF ReadMark, history
  <2>3. ASSUME NEW command \in Commands, command \in {"unmark", "delete"}, Then(c, command),
               command = "delete" => mark # call.session
        PROVE  RemovalInv'
    <3>1. mark' \in {mark, NoSession} /\ (command = "delete" => mark' # call.session)
      BY <2>2, <2>3
    <3>2. /\ command \notin {"set", "getMark"} /\ command # "expire"
          /\ command \in {"unmark", "delete", "readMark"} <=> call.op = "remove"
      BY <2>1, <2>3
    <3> QED
      BY <1>1, <2>1, <2>2, <2>3, <3>1, <3>2, ThenKeeps
  <2>4. CASE mark = call.session
    <3>1. Then(c, "unmark") /\ "unmark" \in Commands
      BY <1>7, <2>4 DEF ReadMark, Commands
    <3> QED
      BY <2>3, <3>1
  <2>5. CASE mark # call.session
    <3>1. Then(c, "delete") /\ "delete" \in Commands
      BY <1>7, <2>5 DEF ReadMark, Commands
    <3> QED
      BY <2>3, <2>5, <3>1
  <2> QED
    BY <2>4, <2>5
<1>8. CASE Unmark(c)
  <2>1. call.op = "remove" /\ ~At(c, "getMark") /\ ~At(c, "set") /\ call.session \in Sessions
    BY <1>1, <1>8 DEF Unmark, At, InStep
  <2>2. "delete" \in Commands /\ mark' = NoSession /\ NoSession # call.session
    BY <1>8, <2>1, RepositoryAssumption DEF Commands, Unmark
  <2>3. /\ Then(c, "delete")
        /\ UNCHANGED <<hasRedis, record, memoryDigestSession, issued, removed, forgotten>>
    BY <1>8 DEF Unmark, history
  <2>4. ASSUME NEW command \in Commands, command = "delete", Then(c, command) PROVE RemovalInv'
    BY <1>1, <2>1, <2>2, <2>3, <2>4, ThenKeeps
  <2> QED
    BY <2>2, <2>3, <2>4
<1>9. CASE Delete(c)
  <2>1. call.op = "remove" /\ call.session \in Sessions
    BY <1>1, <1>9 DEF Delete, At, InStep
  <2>2. /\ record' = [record EXCEPT ![call.session] = "none"]
        /\ removed' = removed \cup {call.session}
        /\ forgotten' = IF call.isClean THEN forgotten \cup {call.session} ELSE forgotten
        /\ Return(c, "done", NoSession)
        /\ UNCHANGED <<hasRedis, mark, memoryDigestSession, issued>>
    BY <1>9 DEF Delete
  <2>3. /\ calls' \in [Calls -> InFlight \cup {NoCall}]
        /\ calls'[c] = NoCall
        /\ \A d \in Calls \ {c} : calls'[d] = calls[d]
    BY <2>2, ReturnShape DEF RemovalInv
  <2>4. InSteps' /\ MarkSeenTo'
    BY <2>2, <2>3 DEF RemovalInv, InSteps, InStep, MarkSeenTo, At, NoCall
  <2>5. RemovedIsHandedOut'
    <3>1. \A t : IsHandedOut(t) => IsHandedOut(t)'
      BY <2>2, <2>3, HandedOutStays DEF NoCall
    <3>2. IsHandedOut(call.session)
      BY <2>1 DEF RemovalInv, RemovedIsHandedOut
    <3> QED
      BY <2>2, <2>3, <3>1, <3>2 DEF RemovalInv, RemovedIsHandedOut, NoCall
  <2>6. call.isClean => mark # call.session
    BY <1>9 DEF Delete, RemovalInv, MarkSeenTo
  <2>7. memoryDigestSession # call.session
    BY <1>1, <2>1, RepositoryAssumption DEF RemovalInv, OneStore
  <2>8. ForgottenLeavesNoTrace'
    BY <2>1, <2>2, <2>6, <2>7 DEF RemovalInv, Shape, ForgottenLeavesNoTrace
  <2>9. Shape' /\ OneStore'
    BY <1>1, <2>1, <2>2, <2>3 DEF RemovalInv, Shape, OneStore, Records
  <2> QED
    BY <2>4, <2>5, <2>8, <2>9 DEF RemovalInv
<1>10. CASE SetMark(c)
  <2>1. call.session \in Sessions /\ call.op # "remove" /\ call.op # "save"
    BY <1>1, <1>10 DEF SetMark, At, InStep, InFlight
  <2>2. /\ mark' = call.session /\ forgotten' = forgotten \ {call.session}
        /\ UNCHANGED <<hasRedis, record, memoryDigestSession, issued, removed>>
    BY <1>10 DEF SetMark
  <2>5. /\ calls' \in [Calls -> InFlight \cup {NoCall}] /\ calls'[c] = NoCall
        /\ \A d \in Calls \ {c} :
             /\ calls'[d].op = calls[d].op /\ calls'[d].session = calls[d].session
             /\ calls'[d].command = calls[d].command
             /\ calls'[d].isClean => calls[d].isClean
             /\ calls'[d].isClean /\ calls[d].op = "remove" => calls[d].session # call.session
    <3>1. ASSUME NEW d \in Calls \ {c}, calls[d].op = "remove", calls[d].session = call.session
          PROVE  calls'[d] = [op |-> "remove", session |-> call.session, command |-> calls[d].command, isClean |-> FALSE]
                 /\ calls'[d] \in InFlight
      <4>1. calls[d] \in InFlight
        BY <3>1 DEF RemovalInv, Shape, NoCall
      <4> QED
        BY <1>10, <3>1, <4>1 DEF SetMark, InFlight
    <3>2. ASSUME NEW d \in Calls \ {c}, ~(calls[d].op = "remove" /\ calls[d].session = call.session)
          PROVE  calls'[d] = calls[d] /\ calls'[d] \in InFlight \cup {NoCall}
      BY <1>10, <3>2 DEF SetMark, RemovalInv, Shape
    <3>3. calls'[c] = NoCall /\ calls' = [d \in Calls |-> calls'[d]]
      BY <1>10 DEF SetMark
    <3> QED
      BY <3>1, <3>2, <3>3
  <2>6. InSteps'
    BY <2>2, <2>5 DEF RemovalInv, InSteps, InStep, NoCall
  <2>7. MarkSeenTo'
    BY <2>2, <2>5, <2>6 DEF MarkSeenTo, At, NoCall, InSteps, InStep
  <2>8. RemovedIsHandedOut'
    <3>1. \A t : IsHandedOut(t) => IsHandedOut(t)'
      BY <2>2, <2>5, HandedOutStays DEF NoCall
    <3> QED
      BY <2>2, <2>5, <3>1 DEF RemovalInv, RemovedIsHandedOut, NoCall
  <2>9. Shape' /\ OneStore' /\ ForgottenLeavesNoTrace'
    BY <1>1, <2>1, <2>2, <2>5 DEF RemovalInv, Shape, OneStore, ForgottenLeavesNoTrace
  <2> QED
    BY <2>6, <2>7, <2>8, <2>9 DEF RemovalInv
<1>11. CASE GetMark(c)
  <2>1. UNCHANGED <<hasRedis, record, mark, memoryDigestSession, issued, removed, forgotten>>
    BY <1>11 DEF GetMark, history
  <2>2. CASE Return(c, "none", NoSession)
    BY <1>3, <2>1, <2>2
  <2>3. CASE /\ mark # NoSession
             /\ calls' = [calls EXCEPT ![c] =
                            [op |-> "loadDigest", session |-> mark, command |-> "get", isClean |-> TRUE]]
    <3> DEFINE next == [op |-> "loadDigest", session |-> mark, command |-> "get", isClean |-> TRUE]
    <3>1. next \in InFlight
      BY DEF InFlight, RemovalInv, Shape, Commands
    <3>2. calls' = [calls EXCEPT ![c] = next]
      BY <2>3
    <3>3. /\ calls' \in [Calls -> InFlight \cup {NoCall}]
          /\ calls'[c].op = "loadDigest" /\ calls'[c].session = mark /\ calls'[c].command = "get"
          /\ \A d \in Calls \ {c} : calls'[d] = calls[d]
      BY <3>1, <3>2 DEF RemovalInv, Shape
    <3>4. call.op \notin {"remove", "save"} /\ mark \in Sessions
      BY <1>1, <1>11, <2>3 DEF GetMark, At, InStep, RemovalInv, Shape
    <3>5. InSteps' /\ MarkSeenTo'
      BY <2>1, <3>3, <3>4 DEF RemovalInv, InSteps, InStep, MarkSeenTo, At
    <3>6. \A t : IsHandedOut(t) => IsHandedOut(t)'
      BY <2>1, <3>3, <3>4, HandedOutStays
    <3>7. RemovedIsHandedOut'
      BY <2>1, <3>3, <3>4, <3>6 DEF RemovalInv, RemovedIsHandedOut
    <3> QED
      BY <1>1, <2>1, <3>3, <3>5, <3>7 DEF RemovalInv, Shape, OneStore, ForgottenLeavesNoTrace
  <2> QED
    BY <1>11, <2>2, <2>3 DEF GetMark
<1> QED
  BY <1>2, <1>4, <1>5, <1>6, <1>7, <1>8, <1>9, <1>10, <1>11 DEF Command

LEMMA MemoryKeeps ==
  ASSUME RemovalInv, NEW s \in Sessions, SaveInMemory(s) \/ RemoveInMemory(s) \/ MarkInMemory(s)
  PROVE  RemovalInv'
<1>1. /\ ~hasRedis /\ calls' = calls /\ mark' = mark /\ record' = record /\ removed' = removed
      /\ issued \subseteq issued' /\ hasRedis' = hasRedis
  BY DEF SaveInMemory, RemoveInMemory, MarkInMemory, history
<1>2. InSteps' /\ MarkSeenTo' /\ \A t : IsHandedOut(t) => IsHandedOut(t)'
  BY <1>1 DEF RemovalInv, InSteps, MarkSeenTo, At, IsHandedOut
<1>3. RemovedIsHandedOut'
  BY <1>1, <1>2 DEF RemovalInv, RemovedIsHandedOut
<1>4. forgotten' \subseteq Sessions /\ \A t \in forgotten' : memoryDigestSession' # t
  BY RepositoryAssumption
  DEF SaveInMemory, RemoveInMemory, MarkInMemory, history, RemovalInv, Shape, ForgottenLeavesNoTrace
<1> QED
  BY <1>1, <1>2, <1>3, <1>4, RepositoryAssumption DEF RemovalInv, Shape, OneStore, ForgottenLeavesNoTrace

LEMMA RestartKeeps ==
  ASSUME RemovalInv, Restart
  PROVE  RemovalInv'
<1>1. /\ calls' = [c \in Calls |-> NoCall] /\ memoryDigestSession' = NoSession
      /\ issued' = {s \in issued : IsHandedOut(s)}
      /\ UNCHANGED <<hasRedis, mark, removed, forgotten>>
  BY DEF Restart, history
<1>2. /\ record' \in [Sessions -> Records]
      /\ \A s \in Sessions : record[s] = "none" => record'[s] = "none"
  BY DEF Restart, RemovalInv, Shape, Records
<1>3. InSteps' /\ MarkSeenTo'
  BY <1>1 DEF InSteps, InStep, MarkSeenTo, At, NoCall
<1>4. RemovedIsHandedOut'
  BY <1>1 DEF RemovalInv, RemovedIsHandedOut, IsHandedOut, NoCall
<1>5. Shape' /\ OneStore'
  BY <1>1, <1>2 DEF RemovalInv, Shape, OneStore
<1>6. ForgottenLeavesNoTrace'
  BY <1>1, <1>2, RepositoryAssumption DEF RemovalInv, Shape, ForgottenLeavesNoTrace
<1> QED
  BY <1>3, <1>4, <1>5, <1>6 DEF RemovalInv

LEMMA RemovalInvNext == RemovalInv /\ [Next]_vars => RemovalInv'
<1> SUFFICES ASSUME RemovalInv, [Next]_vars PROVE RemovalInv'
  OBVIOUS
<1>1. ASSUME NEW c \in Calls, LoadFromMemory(c) PROVE RemovalInv'
  <2>1. /\ calls' = calls
        /\ UNCHANGED <<hasRedis, record, mark, memoryDigestSession, issued, removed, forgotten>>
    BY <1>1 DEF LoadFromMemory, Return, history, RemovalInv, Shape, OneStore
  <2> QED
    BY <2>1 DEF RemovalInv, Shape, InSteps, RemovedIsHandedOut, IsHandedOut, MarkSeenTo, At, OneStore,
                ForgottenLeavesNoTrace
<1>2. ASSUME NEW c \in Calls, LoadDigest(c) PROVE RemovalInv'
  <2>1. CASE Sessions # {}
    BY <1>2, <2>1, StartsKeep
  <2>2. CASE Sessions = {}
    <3>1. /\ calls' \in [Calls -> InFlight \cup {NoCall}]
          /\ calls'[c] = [op |-> "loadDigest", session |-> NoSession, command |-> "getMark", isClean |-> TRUE]
          /\ \A d \in Calls \ {c} : calls'[d] = calls[d] /\ hasRedis /\ calls[c] = NoCall
          /\ hasRedis
          /\ UNCHANGED <<hasRedis, record, mark, memoryDigestSession, issued, removed, forgotten>>
      BY <1>2 DEF LoadDigest, Begin, IsIdle, InFlight, Commands, history, RemovalInv, Shape
    <3> QED
      BY <2>2, <3>1 DEF RemovalInv, Shape, InSteps, InStep, RemovedIsHandedOut, IsHandedOut, MarkSeenTo, At,
                        OneStore, ForgottenLeavesNoTrace
  <2> QED
    BY <2>1, <2>2
<1>3. ASSUME NEW s \in Sessions, Lapse(s) PROVE RemovalInv'
  <2>1. /\ record' \in [Sessions -> Records] /\ record'[s] = "none"
        /\ \A t \in Sessions : record[t] = "none" => record'[t] = "none"
        /\ UNCHANGED <<hasRedis, mark, memoryDigestSession, calls, issued, removed, forgotten>>
    BY <1>3 DEF Lapse, history, RemovalInv, Shape, Records
  <2> QED
    BY <2>1 DEF RemovalInv, Shape, InSteps, RemovedIsHandedOut, IsHandedOut, MarkSeenTo, At, OneStore,
                ForgottenLeavesNoTrace
<1>4. CASE UNCHANGED vars
  BY <1>4 DEF vars, history, RemovalInv, Shape, InSteps, RemovedIsHandedOut, IsHandedOut, MarkSeenTo, At,
              OneStore, ForgottenLeavesNoTrace
<1> QED
  BY <1>1, <1>2, <1>3, <1>4, CommandKeeps, StartsKeep, MemoryKeeps, RestartKeeps DEF Next

-------------------------------------------------------------------------------
\* However removals, marks, touches and lookups interleave, and whatever fails, a
\* removed session is not stored, and not marked unless marked after all.
THEOREM RemovedSessionsLeaveNoTrace == Spec => []ForgottenLeavesNoTrace
<1>1. RemovalInv => ForgottenLeavesNoTrace
  BY DEF RemovalInv
<1> QED
  BY <1>1, RemovalInvInit, RemovalInvNext, PTL DEF Spec

-------------------------------------------------------------------------------
\* The answers are those of the calls, and a process without Redis removes no record.
AnswerInv ==
  /\ answer = [c \in Calls |-> answer[c]]
  /\ hasRedis \/ removed = {}

\* A step that answers one call at most, with anything but a session.
OtherAnswer ==
  \E c \in Calls : \E reply :
    /\ reply.what # "session"
    /\ answer' = [answer EXCEPT ![c] = reply]

LEMMA ReturnAnswers ==
  ASSUME NEW c \in Calls, NEW what, NEW s, Return(c, what, s), what # "session"
  PROVE  OtherAnswer
<1> DEFINE reply == [what |-> what, session |-> s]
<1>1. reply.what # "session" /\ answer' = [answer EXCEPT ![c] = reply]
  BY DEF Return
<1> QED
  BY <1>1 DEF OtherAnswer

LEMMA BeginAnswers ==
  ASSUME NEW c \in Calls, NEW op, NEW s, NEW command, Begin(c, op, s, command)
  PROVE  OtherAnswer
<1>1. Nothing.what # "session" /\ answer' = [answer EXCEPT ![c] = Nothing]
  BY DEF Begin, Nothing
<1> QED
  BY <1>1 DEF OtherAnswer

\* What a step may answer: a session only out of its record, or out of the memory of
\* a process that has no Redis.
LEMMA StepAnswers ==
  ASSUME [Next]_vars
  PROVE  \/ UNCHANGED answer
         \/ OtherAnswer
         \/ answer' = [c \in Calls |-> Nothing]
         \/ \E c \in Calls : /\ record[calls[c].session] = "sealed" /\ calls[c] # NoCall
                             /\ answer' = [answer EXCEPT ![c] =
                                             [what |-> "session", session |-> calls[c].session]]
         \/ ~hasRedis
<1>1. ASSUME NEW c \in Calls, Command(c)
      PROVE  \/ UNCHANGED answer
             \/ OtherAnswer
             \/ /\ record[calls[c].session] = "sealed" /\ calls[c] # NoCall
                /\ answer' = [answer EXCEPT ![c] = [what |-> "session", session |-> calls[c].session]]
  <2>1. CASE Get(c)
    <3>1. \/ \E what \in {"unknown", "none"} : Return(c, what, NoSession)
          \/ \E command : Then(c, command)
          \/ record[calls[c].session] = "sealed" /\ Return(c, "session", calls[c].session)
      BY <2>1 DEF Get
    <3>2. calls[c] # NoCall
      BY <2>1 DEF Get, At, NoCall
    <3> QED
      BY <3>1, <3>2, ReturnAnswers DEF Then, Return
  <2>2. CASE Set(c) \/ Discard(c) \/ Expire(c) \/ Delete(c) \/ CommandFails(c)
    <3>1. \E what \in {"done", "unknown", "none", "known", "unavailable"} : Return(c, what, NoSession)
      BY <2>2 DEF Set, Discard, Expire, Delete, CommandFails
    <3> QED
      BY <3>1, ReturnAnswers
  <2>3. CASE ReadMark(c) \/ Unmark(c)
    BY <2>3 DEF ReadMark, Unmark, Then
  <2>4. CASE SetMark(c)
    <3> DEFINE reply == [what |-> "done", session |-> NoSession]
    <3>1. reply.what # "session" /\ answer' = [answer EXCEPT ![c] = reply]
      BY <2>4 DEF SetMark
    <3> QED
      BY <3>1 DEF OtherAnswer
  <2>5. CASE GetMark(c)
    BY <2>5, ReturnAnswers DEF GetMark
  <2> QED
    BY <1>1, <2>1, <2>2, <2>3, <2>4, <2>5 DEF Command
<1>2. ASSUME NEW c \in Calls, LoadDigest(c) PROVE OtherAnswer
  BY <1>2, BeginAnswers DEF LoadDigest
<1>3. ASSUME NEW c \in Calls, NEW s \in Sessions, Save(c, s) \/ StartOp(c, s) PROVE OtherAnswer
  <2>1. \E op, command : Begin(c, op, s, command)
    BY <1>3 DEF Save, StartOp
  <2> QED
    BY <2>1, BeginAnswers
<1>4. ASSUME NEW s \in Sessions, SaveInMemory(s) \/ RemoveInMemory(s) \/ MarkInMemory(s) \/ Lapse(s)
      PROVE  UNCHANGED answer
  BY <1>4 DEF SaveInMemory, RemoveInMemory, MarkInMemory, Lapse
<1>5. ASSUME NEW c \in Calls, LoadFromMemory(c) PROVE ~hasRedis
  BY <1>5 DEF LoadFromMemory
<1>6. CASE Restart
  BY <1>6 DEF Restart
<1>7. CASE UNCHANGED vars
  BY <1>7 DEF vars
<1> QED
  BY <1>1, <1>2, <1>3, <1>4, <1>5, <1>6, <1>7 DEF Next

LEMMA AnswerInvInit == Init => AnswerInv
  BY DEF Init, AnswerInv

LEMMA AnswerInvNext == RemovalInv /\ AnswerInv /\ [Next]_vars => AnswerInv'
<1> SUFFICES ASSUME RemovalInv, AnswerInv, [Next]_vars PROVE AnswerInv'
  OBVIOUS
<1>1. hasRedis' = hasRedis
  BY DEF Next, Command, Set, Get, Discard, Expire, ReadMark, Unmark, Delete, SetMark, GetMark,
         CommandFails, LoadDigest, LoadFromMemory, Save, StartOp, SaveInMemory, RemoveInMemory,
         MarkInMemory, Lapse, Restart, vars
<1>2. ~hasRedis => removed' = removed
  <2>1. ASSUME NEW c \in Calls, Delete(c) PROVE hasRedis
    BY <2>1 DEF Delete, At, RemovalInv, OneStore, NoCall
  <2> QED
    BY <2>1 DEF Next, Command, Set, Get, Discard, Expire, ReadMark, Unmark, SetMark, GetMark,
         CommandFails, LoadDigest, LoadFromMemory, Save, StartOp, SaveInMemory, RemoveInMemory,
         MarkInMemory, Lapse, Restart, vars, history
<1>3. (answer = [c \in Calls |-> answer[c]])'
  <2>1. ASSUME NEW c \in Calls, LoadFromMemory(c)
        PROVE \E reply : answer' = [answer EXCEPT ![c] = reply]
    BY <2>1 DEF LoadFromMemory, Return
  <2>2. \/ UNCHANGED answer
        \/ \E c \in Calls : \E reply : answer' = [answer EXCEPT ![c] = reply]
        \/ answer' = [c \in Calls |-> Nothing]
    <3>1. CASE \E c \in Calls : LoadFromMemory(c)
      BY <2>1, <3>1
    <3>2. CASE ~\E c \in Calls : LoadFromMemory(c)
      <4>1. ASSUME ~hasRedis PROVE UNCHANGED answer \/ answer' = [c \in Calls |-> Nothing]
        <5>1. \A c \in Calls : calls[c] = NoCall
          BY <4>1 DEF RemovalInv, OneStore
        <5>2. ASSUME NEW c \in Calls PROVE ~Command(c)
          <6>1. calls[c] = NoCall /\ NoCall.command = "none"
            <7>1. calls[c] = NoCall
              BY <5>1
            <7> QED
              BY <7>1 DEF NoCall
          <6> QED
            BY <6>1 DEF Command, Set, Get, Discard, Expire, ReadMark, Unmark, Delete, SetMark, GetMark,
                        CommandFails, At, IsIdle
        <5>3. \A c \in Calls : ~LoadDigest(c) /\ \A s \in Sessions : ~Save(c, s) /\ ~StartOp(c, s)
          BY <4>1 DEF LoadDigest, Save, StartOp, Begin
        <5> QED
          BY <3>2, <5>2, <5>3 DEF Next, SaveInMemory, RemoveInMemory, MarkInMemory, Lapse, Restart, vars
      <4>2. CASE hasRedis
        BY <4>2, StepAnswers DEF OtherAnswer
      <4> QED
        BY <4>1, <4>2
    <3> QED
      BY <3>1, <3>2
  <2>3. ASSUME NEW c \in Calls, NEW reply, answer' = [answer EXCEPT ![c] = reply]
        PROVE  (answer = [d \in Calls |-> answer[d]])'
    BY <2>3 DEF AnswerInv
  <2> QED
    BY <2>2, <2>3 DEF AnswerInv
<1> QED
  BY <1>1, <1>2, <1>3 DEF AnswerInv

\* Whatever marks, removals and restarts went before, no answer to the digest
\* holds a session whose record a removal has deleted.
THEOREM RemovedSessionsAreNotRead == Spec => DigestNeverGetsARemovedSession
<1> DEFINE Safe == \A c \in Calls : answer'[c].what = "session" /\ answer[c].what # "session" =>
                     answer'[c].session \notin removed
<1>1. RemovalInv /\ AnswerInv /\ [Next]_vars => [Safe]_vars
  <2> SUFFICES ASSUME RemovalInv, AnswerInv, [Next]_vars, NEW d \in Calls,
                      answer'[d].what = "session", answer[d].what # "session"
               PROVE  answer'[d].session \notin removed
    OBVIOUS
  <2>1. ~hasRedis => removed = {}
    BY DEF AnswerInv
  <2>2. ASSUME NEW c \in Calls, NEW reply, answer' = [answer EXCEPT ![c] = reply] PROVE answer'[d] = reply
    BY <2>2 DEF AnswerInv
  <2>3. ~OtherAnswer
    BY <2>2 DEF OtherAnswer
  <2>4. answer' # [c \in Calls |-> Nothing]
    BY DEF Nothing
  <2>5. ASSUME NEW c \in Calls, record[calls[c].session] = "sealed",
               answer' = [answer EXCEPT ![c] = [what |-> "session", session |-> calls[c].session]]
        PROVE  answer'[d].session \notin removed
    <3>1. answer'[d] = [what |-> "session", session |-> calls[c].session]
      BY <2>2, <2>5
    <3>2. calls[c].session \notin removed
      BY <2>5 DEF RemovalInv, ForgottenLeavesNoTrace
    <3> QED
      BY <3>1, <3>2
  <2> QED
    BY <2>1, <2>3, <2>4, <2>5, StepAnswers
<1> QED
  BY <1>1, RemovalInvInit, RemovalInvNext, AnswerInvInit, AnswerInvNext, PTL
  DEF Spec, DigestNeverGetsARemovedSession

-------------------------------------------------------------------------------
(* The types. *)
Replies == [what : {"nothing", "done", "known", "unknown", "session", "none", "unavailable"},
            session : Sessions \cup {NoSession}]

\* What RemovalInv leaves out of TypeOK.
RestInv ==
  /\ hasRedis \in BOOLEAN /\ issued \subseteq Sessions
  /\ memoryDigestSession \in Sessions \cup {NoSession}
  /\ answer \in [Calls -> Replies]

LEMMA ReturnReplies ==
  ASSUME RestInv, NEW c \in Calls, NEW s \in Sessions \cup {NoSession},
         NEW what \in {"done", "known", "unknown", "session", "none", "unavailable"}, Return(c, what, s)
  PROVE  answer' \in [Calls -> Replies]
<1>1. [what |-> what, session |-> s] \in Replies
  BY DEF Replies
<1> QED
  BY <1>1 DEF RestInv, Return

LEMMA BeginReplies ==
  ASSUME RestInv, NEW c \in Calls, NEW op, NEW s, NEW command, Begin(c, op, s, command)
  PROVE  answer' \in [Calls -> Replies]
<1>1. Nothing \in Replies
  BY DEF Nothing, Replies
<1> QED
  BY <1>1 DEF RestInv, Begin

LEMMA RestInvNext == RemovalInv /\ RestInv /\ [Next]_vars => RestInv'
<1> SUFFICES ASSUME RemovalInv, RestInv, [Next]_vars PROVE RestInv'
  OBVIOUS
<1>1. ASSUME UNCHANGED <<hasRedis, memoryDigestSession, issued>>, answer' \in [Calls -> Replies] PROVE RestInv'
  BY <1>1 DEF RestInv
<1>2. ASSUME NEW c \in Calls, Command(c) PROVE RestInv'
  <2>1. UNCHANGED <<hasRedis, memoryDigestSession, issued>>
    BY <1>2 DEF Command, Set, Get, Discard, Expire, ReadMark, Unmark, Delete, SetMark, GetMark, CommandFails
  <2>2. CASE Get(c)
    <3>1. calls[c].session \in Sessions
      <4>1. calls[c].command = "get" /\ calls[c] \in InFlight \cup {NoCall} /\ InStep(calls[c])
        BY <2>2 DEF Get, At, RemovalInv, Shape, InSteps
      <4> QED
        BY <4>1 DEF InStep, InFlight, NoCall
    <3>2. \/ \E what \in {"unknown", "none"} : Return(c, what, NoSession)
          \/ answer' = answer
          \/ Return(c, "session", calls[c].session)
      BY <2>2 DEF Get, Then
    <3>3. answer' \in [Calls -> Replies]
      BY <3>1, <3>2, ReturnReplies DEF RestInv
    <3> QED
      BY <1>1, <2>1, <3>3
  <2>3. CASE Set(c) \/ Discard(c) \/ Expire(c) \/ Delete(c) \/ CommandFails(c)
    <3>1. \E what \in {"done", "unknown", "none", "known", "unavailable"} : Return(c, what, NoSession)
      BY <2>3 DEF Set, Discard, Expire, Delete, CommandFails
    <3> QED
      BY <1>1, <2>1, <3>1, ReturnReplies
  <2>4. CASE ReadMark(c) \/ Unmark(c)
    BY <1>1, <2>1, <2>4 DEF ReadMark, Unmark, Then, RestInv
  <2>5. CASE SetMark(c)
    <3> DEFINE reply == [what |-> "done", session |-> NoSession]
    <3>1. reply \in Replies
      BY DEF Replies
    <3>2. answer' = [answer EXCEPT ![c] = reply]
      BY <2>5 DEF SetMark
    <3>3. answer' \in [Calls -> Replies]
      BY <3>1, <3>2 DEF RestInv
    <3> QED
      BY <1>1, <2>1, <3>3
  <2>6. CASE GetMark(c)
    <3>1. answer' = answer \/ Return(c, "none", NoSession)
      BY <2>6 DEF GetMark
    <3>2. answer' \in [Calls -> Replies]
      BY <3>1, ReturnReplies DEF RestInv
    <3> QED
      BY <1>1, <2>1, <3>2
  <2> QED
    BY <1>2, <2>2, <2>3, <2>4, <2>5, <2>6 DEF Command
<1>3. ASSUME NEW c \in Calls, LoadDigest(c) PROVE RestInv'
  BY <1>1, <1>3, BeginReplies DEF LoadDigest
<1>4. ASSUME NEW c \in Calls, LoadFromMemory(c) PROVE RestInv'
  <2> DEFINE what == IF memoryDigestSession = NoSession THEN "none" ELSE "session"
  <2>1. Return(c, what, memoryDigestSession) /\ memoryDigestSession \in Sessions \cup {NoSession}
    BY <1>4 DEF LoadFromMemory, RestInv
  <2>2. answer' \in [Calls -> Replies]
    BY <2>1, ReturnReplies
  <2> QED
    BY <1>1, <1>4, <2>2 DEF LoadFromMemory
<1>5. ASSUME NEW c \in Calls, NEW s \in Sessions, Save(c, s) \/ StartOp(c, s) PROVE RestInv'
  <2>1. \E op, command : Begin(c, op, s, command)
    BY <1>5 DEF Save, StartOp
  <2>2. answer' \in [Calls -> Replies]
    BY <2>1, BeginReplies
  <2> QED
    BY <1>5, <2>2 DEF Save, StartOp, RestInv
<1>6. ASSUME NEW s \in Sessions, SaveInMemory(s) \/ RemoveInMemory(s) \/ MarkInMemory(s) \/ Lapse(s)
      PROVE  RestInv'
  BY <1>6 DEF SaveInMemory, RemoveInMemory, MarkInMemory, Lapse, RestInv
<1>7. CASE Restart
  <2>1. Nothing \in Replies
    BY DEF Nothing, Replies
  <2> QED
    BY <1>7, <2>1 DEF Restart, RestInv
<1>8. CASE UNCHANGED vars
  BY <1>8 DEF vars, RestInv
<1> QED
  BY <1>2, <1>3, <1>4, <1>5, <1>6, <1>7, <1>8 DEF Next

\* The records, marks, calls and answers keep their types, and the memory of the process
\* and Redis are never both in use.
THEOREM RepositoryTypeCorrect == Spec => []TypeOK
<1>1. Init => RestInv
  BY DEF Init, RestInv, Replies, Nothing
<1>2. RemovalInv /\ RestInv => TypeOK
  BY DEF RemovalInv, Shape, OneStore, RestInv, Replies, TypeOK
<1> QED
  BY <1>1, <1>2, RemovalInvInit, RemovalInvNext, RestInvNext, PTL DEF Spec
===============================================================================
