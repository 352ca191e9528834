---------------------------- MODULE MCDigestContent ----------------------------
(***************************************************************************)
(* DigestContent on three posts of which two are kept: two batches of       *)
(* translations, one retry of each request, two follow-ups of the summary.  *)
(***************************************************************************)
EXTENDS DigestContent

MCPosts == 1 .. 3
MCDates == {<<1, 1, 2>>, <<2, 1, 1>>, <<1, 2, 1>>}
MCSizes == <<1, 2, 1>>

MCCharacters == STRING

\* A text with an entity, and two that are blocks of their own in one message.
MCTexts == <<<<"*", "a", "&", "lt", ";", "b">>, <<"*", "c", "d">>, <<"*", "e">>>>

\* The limit falls into the second entity of the first thesis and near the empty
\* line of the second topic.
MCTheses == <<<<<<"*", "f", "&", "amp", ";", "g", "h", "i", "j", "&", "gt", ";", "m">>>>,
              <<<<"*", "n", "o", NewLine, NewLine, "p">>, <<"q", "&", "lt", ";">>>>,
              <<<<"*", "s", "&", "amp", ";">>, <<"t">>>>,
              <<<<"*", "r">>>>>>
MCLabels == <<"first", "second", "third">>
MCCollectorLines == <<"unavailable", "truncated">>

\* Requests that come late are followed in the chats of up to five messages.
Bounded == Len(messages) <= 5 \/ late = {}

\* What is sent depends on the number of the messages only; the invariants about
\* their text are about the state before the notifier gets them.
View == IF messages = <<>> THEN contentVars
        ELSE <<stage, Len(messages), attempt, round, chat, late>>
===============================================================================
