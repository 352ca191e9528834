---------------------------- MODULE SessionRepository -------------------------
(***************************************************************************)
(* The durable record of issued sessions and the mark of the session the   *)
(* digest reads with (telegram/session-repository.ts).  Every operation is *)
(* a sequence of Redis commands; a command is one step, commands of        *)
(* concurrent calls interleave, and any of them may fail.  Without Redis   *)
(* only the mark exists, in memory, and every operation is one step.       *)
(***************************************************************************)
EXTENDS Integers, FiniteSets

CONSTANTS Sessions, NoSession,
          Calls \* bound of the model: operations in flight at once

ASSUME RepositoryAssumption == NoSession \notin Sessions

VARIABLES
  hasRedis,            \* the process has Redis and its encryption key
  record,              \* what Redis holds for each session
  mark,                \* what DIGEST_SESSION_KEY points at
  memoryDigestSession,
  calls,               \* the operations in flight, at their next command
  answer,              \* what each call last returned
  issued,              \* sessions a login is saving or has handed out
  removed,             \* sessions whose record a removal has deleted
  forgotten            \* removed sessions not marked since that removal began;
                       \* both are read by the properties only

history == <<removed, forgotten>>
vars == <<hasRedis, record, mark, memoryDigestSession, calls, answer, issued, history>>

\* "foreign": sealed with a key the service no longer has.
Records == {"none", "sealed", "foreign"}
Commands == {"set", "get", "expire", "discard", "readMark", "unmark", "delete", "setMark", "getMark"}
NoCall == [op |-> "none", session |-> NoSession, command |-> "none", isClean |-> TRUE]
InFlight == [op : {"save", "isKnown", "touch", "remove", "markDigest", "loadDigest"},
             session : Sessions \cup {NoSession}, command : Commands, isClean : BOOLEAN]
Nothing == [what |-> "nothing", session |-> NoSession]

TypeOK ==
  /\ hasRedis \in BOOLEAN
  /\ record \in [Sessions -> Records]
  /\ mark \in Sessions \cup {NoSession}
  /\ memoryDigestSession \in Sessions \cup {NoSession}
  /\ calls \in [Calls -> InFlight \cup {NoCall}]
  /\ answer \in [Calls -> [what : {"nothing", "done", "known", "unknown", "session", "none", "unavailable"},
                           session : Sessions \cup {NoSession}]]
  /\ issued \subseteq Sessions
  /\ removed \subseteq Sessions /\ forgotten \subseteq Sessions
  /\ hasRedis => memoryDigestSession = NoSession
  /\ ~hasRedis => mark = NoSession /\ \A c \in Calls : calls[c] = NoCall

Init ==
  /\ hasRedis \in BOOLEAN
  /\ record = [s \in Sessions |-> "none"]
  /\ mark = NoSession /\ memoryDigestSession = NoSession
  /\ calls = [c \in Calls |-> NoCall]
  /\ answer = [c \in Calls |-> Nothing]
  /\ issued = {} /\ removed = {} /\ forgotten = {}

-------------------------------------------------------------------------------
IsIdle(c) == calls[c] = NoCall
At(c, command) == calls[c].command = command

\* A session is in other hands than its login's once its save has ended.
IsHandedOut(s) ==
  s \in issued /\ ~\E c \in Calls : calls[c].op = "save" /\ calls[c].session = s

Begin(c, op, s, command) ==
  /\ hasRedis /\ IsIdle(c)
  /\ calls' = [calls EXCEPT ![c] =
                 [op |-> op, session |-> s, command |-> command, isClean |-> TRUE]]
  /\ answer' = [answer EXCEPT ![c] = Nothing]

Then(c, command) ==
  /\ calls' = [calls EXCEPT ![c].command = command]
  /\ UNCHANGED answer

Return(c, what, s) ==
  /\ calls' = [calls EXCEPT ![c] = NoCall]
  /\ answer' = [answer EXCEPT ![c] = [what |-> what, session |-> s]]

\* A login stores its new session string.
Save(c, s) ==
  /\ s \notin issued
  /\ issued' = issued \cup {s}
  /\ Begin(c, "save", s, "set")
  /\ UNCHANGED <<hasRedis, record, mark, memoryDigestSession, history>>

Set(c) ==
  /\ At(c, "set")
  /\ record' = [record EXCEPT ![calls[c].session] = "sealed"]
  /\ Return(c, "done", NoSession)
  /\ UNCHANGED <<hasRedis, mark, memoryDigestSession, issued, history>>

StartOp(c, s) ==
  /\ IsHandedOut(s)
  /\ \/ Begin(c, "isKnown", s, "get")
     \/ Begin(c, "touch", s, "expire")
     \/ Begin(c, "remove", s, "readMark")
     \/ Begin(c, "markDigest", s, "setMark")
  /\ UNCHANGED <<hasRedis, record, mark, memoryDigestSession, issued, history>>

LoadDigest(c) ==
  /\ Begin(c, "loadDigest", NoSession, "getMark")
  /\ UNCHANGED <<hasRedis, record, mark, memoryDigestSession, issued, history>>

-------------------------------------------------------------------------------
\* The GET of read.
Get(c) ==
  LET call == calls[c] IN
  /\ At(c, "get")
  /\ \/ record[call.session] = "none" /\ call.op = "isKnown" /\ Return(c, "unknown", NoSession)
     \/ record[call.session] = "none" /\ call.op = "loadDigest" /\ Return(c, "none", NoSession)
     \/ record[call.session] = "foreign" /\ Then(c, "discard")
     \/ record[call.session] = "sealed" /\ call.op = "isKnown" /\ Then(c, "expire")
     \/ record[call.session] = "sealed" /\ call.op = "loadDigest" /\ Return(c, "session", call.session)
  /\ UNCHANGED <<hasRedis, record, mark, memoryDigestSession, issued, history>>

\* read deletes a record it cannot decrypt.
Discard(c) ==
  /\ At(c, "discard")
  /\ record' = [record EXCEPT ![calls[c].session] = "none"]
  /\ Return(c, IF calls[c].op = "isKnown" THEN "unknown" ELSE "none", NoSession)
  /\ UNCHANGED <<hasRedis, mark, memoryDigestSession, issued, history>>

\* Mutant: a touch that stores the record again.
ExpireStoring(c) ==
  /\ At(c, "expire")
  /\ record' = [record EXCEPT ![calls[c].session] = "sealed"]
  /\ Return(c, IF calls[c].op = "isKnown" THEN "known" ELSE "done", NoSession)
  /\ UNCHANGED <<hasRedis, mark, memoryDigestSession, issued, history>>

\* EXPIRE is a no-op on a key that is gone.
Expire(c) ==
  /\ At(c, "expire")
  /\ record' = record
  /\ Return(c, IF calls[c].op = "isKnown" THEN "known" ELSE "done", NoSession)
  /\ UNCHANGED <<hasRedis, mark, memoryDigestSession, issued, history>>

-------------------------------------------------------------------------------
ReadMark(c) ==
  /\ At(c, "readMark")
  /\ Then(c, IF mark = calls[c].session THEN "unmark" ELSE "delete")
  /\ UNCHANGED <<hasRedis, record, mark, memoryDigestSession, issued, history>>

Unmark(c) ==
  /\ At(c, "unmark")
  /\ mark' = NoSession
  /\ Then(c, "delete")
  /\ UNCHANGED <<hasRedis, record, memoryDigestSession, issued, history>>

Delete(c) ==
  /\ At(c, "delete")
  /\ record' = [record EXCEPT ![calls[c].session] = "none"]
  /\ removed' = removed \cup {calls[c].session}
  /\ forgotten' = IF calls[c].isClean THEN forgotten \cup {calls[c].session} ELSE forgotten
  /\ Return(c, "done", NoSession)
  /\ UNCHANGED <<hasRedis, mark, memoryDigestSession, issued>>

\* Removals of s that are under way are no longer expected to leave it unmarked.
SetMark(c) ==
  LET s == calls[c].session IN
  /\ At(c, "setMark")
  /\ mark' = s
  /\ forgotten' = forgotten \ {s}
  /\ calls' = [d \in Calls |->
       IF d = c THEN NoCall
       ELSE IF calls[d].op = "remove" /\ calls[d].session = s
       THEN [calls[d] EXCEPT !.isClean = FALSE] ELSE calls[d]]
  /\ answer' = [answer EXCEPT ![c] = [what |-> "done", session |-> NoSession]]
  /\ UNCHANGED <<hasRedis, record, memoryDigestSession, issued, removed>>

\* Mutant: the mark is answered without a look at the record.
GetMarkTrusting(c) ==
  /\ At(c, "getMark")
  /\ Return(c, IF mark = NoSession THEN "none" ELSE "session", mark)
  /\ UNCHANGED <<hasRedis, record, mark, memoryDigestSession, issued, history>>

GetMark(c) ==
  /\ At(c, "getMark")
  /\ IF mark = NoSession
     THEN Return(c, "none", NoSession)
     ELSE /\ calls' = [calls EXCEPT ![c] =
                         [op |-> "loadDigest", session |-> mark, command |-> "get", isClean |-> TRUE]]
          /\ UNCHANGED answer
  /\ UNCHANGED <<hasRedis, record, mark, memoryDigestSession, issued, history>>

\* Every Redis failure surfaces as the same 503.  A command that took effect and
\* whose answer was lost is the command followed by this, or by the return.
CommandFails(c) ==
  /\ ~IsIdle(c)
  /\ Return(c, "unavailable", NoSession)
  /\ UNCHANGED <<hasRedis, record, mark, memoryDigestSession, issued, history>>

-------------------------------------------------------------------------------
\* Without Redis: save and touch do nothing, no session is known.
SaveInMemory(s) ==
  /\ ~hasRedis /\ s \notin issued
  /\ issued' = issued \cup {s}
  /\ UNCHANGED <<hasRedis, record, mark, memoryDigestSession, calls, answer, history>>

RemoveInMemory(s) ==
  /\ ~hasRedis /\ s \in issued
  /\ memoryDigestSession' = IF memoryDigestSession = s THEN NoSession ELSE memoryDigestSession
  /\ forgotten' = forgotten \cup {s}
  /\ UNCHANGED <<hasRedis, record, mark, calls, answer, issued, removed>>

MarkInMemory(s) ==
  /\ ~hasRedis /\ s \in issued
  /\ memoryDigestSession' = s
  /\ forgotten' = forgotten \ {s}
  /\ UNCHANGED <<hasRedis, record, mark, calls, answer, issued, removed>>

LoadFromMemory(c) ==
  /\ ~hasRedis
  /\ Return(c, IF memoryDigestSession = NoSession THEN "none" ELSE "session", memoryDigestSession)
  /\ UNCHANGED <<hasRedis, record, mark, memoryDigestSession, issued, history>>

-------------------------------------------------------------------------------
\* SESSION_STORE_TTL_S passed without a touch.
Lapse(s) ==
  /\ record[s] # "none"
  /\ record' = [record EXCEPT ![s] = "none"]
  /\ UNCHANGED <<hasRedis, mark, memoryDigestSession, calls, answer, issued, history>>

\* The process dies and comes back, with the same key or with a new one.  The
\* session of a login that was still saving is lost with it.
Restart ==
  /\ calls' = [c \in Calls |-> NoCall]
  /\ answer' = [c \in Calls |-> Nothing]
  /\ memoryDigestSession' = NoSession
  /\ \/ UNCHANGED record
     \/ record' = [s \in Sessions |-> IF record[s] = "none" THEN "none" ELSE "foreign"]
  /\ issued' = {s \in issued : IsHandedOut(s)}
  /\ UNCHANGED <<hasRedis, mark, history>>

Command(c) ==
  \/ Set(c) \/ Get(c) \/ Discard(c) \/ Expire(c)
  \/ ReadMark(c) \/ Unmark(c) \/ Delete(c) \/ SetMark(c) \/ GetMark(c)
  \/ CommandFails(c)

Next ==
  \/ \E c \in Calls : Command(c) \/ LoadDigest(c) \/ LoadFromMemory(c)
  \/ \E c \in Calls, s \in Sessions : Save(c, s) \/ StartOp(c, s)
  \/ \E s \in Sessions : SaveInMemory(s) \/ RemoveInMemory(s) \/ MarkInMemory(s) \/ Lapse(s)
  \/ Restart

Spec == Init /\ [][Next]_vars

-------------------------------------------------------------------------------
\* "Forgets the session, and the digest mark when it points at this session"
\* (session-repository.ts:58): a removed session is never stored again by a touch,
\* a read or a removal that overlapped the removal, and it is not marked, unless
\* it was marked again meanwhile.
ForgottenLeavesNoTrace ==
  /\ \A s \in removed : record[s] = "none"
  /\ \A s \in forgotten : mark # s /\ memoryDigestSession # s

\* The digest is never handed a session whose record was removed: a mark set
\* after the removal by a call that had checked the session before it
\* (telegram.service.ts:87) is of no use without the record.
DigestNeverGetsARemovedSession ==
  [][\A c \in Calls : answer'[c].what = "session" /\ answer[c].what # "session" =>
       answer'[c].session \notin removed]_vars

\* "Forgets the session, and the digest mark when it points at this session"
\* (session-repository.ts:58): a removal takes away the mark of its own session
\* only.
RemovalSparesOtherMarks ==
  [][\A c \in Calls : At(c, "unmark") /\ calls'[c].command = "delete" =>
       mark \in {calls[c].session, NoSession}]_vars
===============================================================================
