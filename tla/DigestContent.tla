----------------------------- MODULE DigestContent -----------------------------
(***************************************************************************)
(* What one digest run makes of its posts (digest.service.ts:138-189 and   *)
(* the services it calls): the newest posts are kept, translated in        *)
(* batches, folded into topics by a model that may answer anything, set in  *)
(* blocks, split into messages and sent one by one.  Every request to Grok  *)
(* or to the bot is a step that may fail, be refused for good, or be        *)
(* answered too late.                                                       *)
(***************************************************************************)
EXTENDS Integers, FiniteSets, SequencesExt, MessageSplitter

CONSTANTS Posts,            \* the collected posts, 1 .. n in collected order
          Dates,            \* bound: the functions from posts to dates to look at
          Sizes,            \* characters of each post in a translation request
          Characters,       \* what the texts are written in
          Texts,            \* what the digest says of a post on its own, as it reads
          MaxTopics,        \* bound: topics of the model's first answer
          Theses,           \* bound: the thesis and viewpoints of the topics, as they read
          Labels,           \* the link to each post, as it reads
          CollectorLines,   \* what the footer tells of the channels
          LinksPerLine,     \* DIGEST_LINKS_PER_LINE
          BatchBudget,      \* GROK_TRANSLATE_BATCH_CHARS
          MaxPosts,         \* DIGEST_MAX_POSTS
          GrokRetries,      \* GROK_MAX_RETRIES
          SummaryRetries,   \* GROK_SUMMARY_MAX_RETRIES
          MissingRetries,   \* TRANSLATION_MISSING_RETRIES
          CoverageRetries,  \* SUMMARY_COVERAGE_RETRIES
          BotRetries        \* BOT_MAX_RETRIES

ASSUME ContentAssumption ==
  /\ IsFiniteSet(Posts) /\ Posts = 1 .. Cardinality(Posts)
  /\ Dates \subseteq [Posts -> Nat]
  /\ Sizes \in [Posts -> Nat] /\ BatchBudget \in Nat /\ MaxPosts \in Nat
  /\ LinksPerLine \in Nat \ {0} /\ MaxTopics \in Nat
  /\ {GrokRetries, SummaryRetries, MissingRetries, CoverageRetries, BotRetries} \subseteq Nat

\* The tags of a message and how each is closed.
ClosingTag == [tag \in {"<b>", "<a>", "<i>"} |->
                 CASE tag = "<b>" -> "</b>" [] tag = "<a>" -> "</a>" [] tag = "<i>" -> "</i>"]
Tags == DOMAIN ClosingTag \cup {ClosingTag[tag] : tag \in DOMAIN ClosingTag}

\* What escapeHtml leaves of a line: no tag, and no "&" but the start of an entity, which
\* is shorter than a message.  A character that stands for words is none of these.
IsEscaped(line) ==
  \A i \in DOMAIN line :
    /\ line[i] \notin Tags
    /\ line[i] = "&" =>
         \E j \in DOMAIN line : /\ i < j /\ j - i < MaxChars /\ line[j] = ";"
                               /\ \A k \in i + 1 .. j - 1 : line[k] # "&"
IsEscapedText(words) ==
  /\ words \in Seq(Characters) \ {<<>>}
  /\ \A i \in DOMAIN Lines(words) : IsEscaped(Lines(words)[i])
IsWords(c) == c \in Characters \ (Tags \cup {"&", NewLine})

\* DIGEST_LINKS_PER_LINE links, each with its tags and what sets it off from the next,
\* are shorter than BOT_MESSAGE_MAX_CHARS.
ASSUME TextAssumption ==
  /\ 4 * LinksPerLine <= MaxChars
  /\ \A i \in 1 .. MaxTopics + 1 :
       /\ Theses[i] \in Seq(Seq(Characters)) \ {<<>>}
       /\ \A k \in DOMAIN Theses[i] : IsEscapedText(Theses[i][k])
  /\ \A p \in Posts : IsEscapedText(Texts[p]) /\ IsWords(Labels[p])
  /\ CollectorLines \in Seq(Characters) /\ \A i \in DOMAIN CollectorLines : IsWords(CollectorLines[i])

VARIABLES date,          \* when each post was written
          text,          \* the posts that have text
          mode,          \* DIGEST_TRANSLATION: "on" or "off"
          kept,          \* the posts of the digest
          stage,         \* what is awaited
          attempt,       \* failed attempts of the request under way
          round,         \* follow-ups of this batch or of the summary, then messages sent
          batches,       \* batches still to translate; the first is under way
          translations,  \* the posts whose text or thesis is translated
          untranslated,  \* untranslatedCount
          topics,        \* the topics so far
          listed,        \* isSummaryFallback
          messages,      \* what the notifier is given
          chat,          \* the messages Telegram has taken, in order
          late           \* failed attempts Telegram may still take: message and attempt

posts == <<date, text, mode, kept>>
outbox == <<messages, chat, late>>
contentVars == <<posts, stage, attempt, round, batches, translations, untranslated, topics,
                 listed, outbox>>

-------------------------------------------------------------------------------
WithText == kept \cap text
Topic(refs, isFallback, lines) ==
  [refs |-> refs, isFallback |-> isFallback, lines |-> lines]

\* The numbers of a set, the smallest first.
InOrder(S) ==
  [i \in 1 .. Cardinality(S) |-> CHOOSE p \in S : Cardinality({q \in S : q < p}) = i - 1]

\* Array.sort is stable: of two posts of one date the first collected comes first.
Newer(p, q) == date[p] > date[q] \/ (date[p] = date[q] /\ p < q)

LimitPosts == {p \in Posts : Cardinality({q \in Posts : Newer(q, p)}) < MaxPosts}

\* A batch is the set of its posts: the answer to it names them in any order.
SizeOf(batch) == MapThenSumSet(LAMBDA p : Sizes[p], batch)
AddToBatch(done, p) ==
  IF done # <<>> /\ SizeOf(Last(done)) + Sizes[p] <= BatchBudget
  THEN [done EXCEPT ![Len(done)] = @ \cup {p}]
  ELSE Append(done, {p})
BatchBySize(items) ==
  LET batchesOf[n \in 0 .. Len(items)] ==
        IF n = 0 THEN <<>> ELSE AddToBatch(batchesOf[n - 1], items[n])
  IN batchesOf[Len(items)]

DropUnknownRefs(made) ==
  LET known(i) == made[i].refs \cap WithText
      places == {i \in DOMAIN made : known(i) # {}}
  IN [k \in 1 .. Cardinality(places) |->
        LET i == InOrder(places)[k] IN [made[i] EXCEPT !.refs = known(i)]]
Covered(made) == UNION {made[i].refs : i \in DOMAIN made}
Missing(made) == WithText \ Covered(made)
Fallback(S) ==
  [i \in 1 .. Cardinality(S) |-> LET p == InOrder(S)[i] IN Topic({p}, TRUE, <<Texts[p]>>)]

\* The texts the theses translation is asked for: one per fallback block.
FallbackPosts(made) == UNION {made[i].refs : i \in {j \in DOMAIN made : made[j].isFallback}}

-------------------------------------------------------------------------------
ContentInit ==
  /\ date \in Dates /\ text \in SUBSET Posts /\ mode \in {"on", "off"}
  /\ kept = {} /\ stage = "collected" /\ attempt = 0 /\ round = 0 /\ batches = <<>>
  /\ translations = {} /\ untranslated = 0 /\ topics = <<>> /\ listed = FALSE
  /\ messages = <<>> /\ chat = <<>> /\ late = {}

\* translateItems with `items`, the text posts or the fallback theses.
Translate(items, state) ==
  /\ batches' = BatchBySize(InOrder(items))
  /\ untranslated' = Cardinality(items)
  /\ stage' = state

PrepareTexts ==
  /\ stage = "collected"
  /\ kept' = LimitPosts
  /\ \/ mode = "on" /\ Translate(kept' \cap text, "translating")
     \/ mode = "off" /\ stage' = "translated" /\ UNCHANGED <<batches, untranslated>>
  /\ UNCHANGED <<date, text, mode, attempt, round, translations, topics, listed, outbox>>

\* The summary of no text is no topic and no request.
TextsReady ==
  /\ stage = "translated"
  /\ stage' = IF WithText = {} THEN "summarized" ELSE "summarizing"
  /\ UNCHANGED <<posts, attempt, round, batches, translations, untranslated, topics, listed, outbox>>

-------------------------------------------------------------------------------
(* Translation: one batch at a time.  *)
IsTranslating == stage \in {"translating", "theses"}
AfterTranslation == IF stage = "translating" THEN "translated" ELSE "formatting"

\* No batch left, or the budget of time is used up.
TranslationEnds ==
  /\ IsTranslating /\ attempt = 0 /\ round = 0
  /\ stage' = AfterTranslation
  /\ batches' = <<>>
  /\ UNCHANGED <<posts, attempt, round, translations, untranslated, topics, listed, outbox>>

\* The model answers for some of the pending texts, and for others; the texts
\* it left out are asked for again, MissingRetries times.
Translated(answer) ==
  LET pending == Head(batches) \ answer
      got == Head(batches) \cap answer
      isDone == pending = {} \/ round = MissingRetries
  IN /\ IsTranslating /\ batches # <<>>
     /\ translations' = translations \cup got
     /\ untranslated' = untranslated - Cardinality(got)
     /\ batches' = IF isDone THEN Tail(batches) ELSE <<pending>> \o Tail(batches)
     /\ round' = IF isDone THEN 0 ELSE round + 1
     /\ attempt' = 0
     /\ UNCHANGED <<posts, stage, topics, listed, outbox>>

\* Grok failed after its retries: the rest keeps the original text.
TranslationFails ==
  /\ IsTranslating /\ batches # <<>>
  /\ stage' = AfterTranslation
  /\ batches' = <<>> /\ round' = 0 /\ attempt' = 0
  /\ UNCHANGED <<posts, translations, untranslated, topics, listed, outbox>>

-------------------------------------------------------------------------------
(* Summary.  *)
Summarized(answer) ==
  /\ stage = "summarizing"
  /\ topics' = DropUnknownRefs(answer)
  /\ stage' = "covering" /\ attempt' = 0
  /\ UNCHANGED <<posts, round, batches, translations, untranslated, listed, outbox>>

\* postsAsTopics: the posts go out one block each.
SummaryFails ==
  /\ stage = "summarizing"
  /\ topics' = Fallback(WithText) /\ listed' = TRUE
  /\ stage' = "summarized" /\ attempt' = 0
  /\ UNCHANGED <<posts, round, batches, translations, untranslated, outbox>>

IsFollowUpDue == stage = "covering" /\ Missing(topics) # {} /\ round < CoverageRetries

\* applyCoverage: a bad topic number is ignored, new topics are appended.
Applied(number, refs, new) ==
  [i \in DOMAIN topics |-> IF i = number THEN [topics[i] EXCEPT !.refs = @ \cup refs]
                           ELSE topics[i]] \o new

Placed(number, refs, new) ==
  /\ IsFollowUpDue
  /\ topics' = DropUnknownRefs(Applied(number, refs, new))
  /\ round' = round + 1 /\ attempt' = 0
  /\ UNCHANGED <<posts, stage, batches, translations, untranslated, listed, outbox>>

PlacingFails ==
  /\ IsFollowUpDue
  /\ round' = round + 1 /\ attempt' = 0
  /\ UNCHANGED <<posts, stage, batches, translations, untranslated, topics, listed, outbox>>

\* Mutant: the topics of the model are all there is.
CoveredByTheModel ==
  /\ stage = "covering" /\ ~IsFollowUpDue
  /\ stage' = "summarized" /\ round' = 0
  /\ UNCHANGED <<posts, attempt, batches, translations, untranslated, topics, listed, outbox>>

\* What no topic mentions becomes a block of its own.
CoverageEnds ==
  /\ stage = "covering" /\ ~IsFollowUpDue
  /\ topics' = topics \o Fallback(Missing(topics))
  /\ stage' = "summarized" /\ round' = 0
  /\ UNCHANGED <<posts, attempt, batches, translations, untranslated, listed, outbox>>

\* Fallback theses cut from originals are translated now.
TranslateFallbackTheses ==
  /\ stage = "summarized"
  /\ \/ mode = "on" /\ stage' = "formatting" /\ UNCHANGED <<batches, untranslated>>
     \/ mode = "off" /\ Translate(FallbackPosts(topics), "theses")
  /\ UNCHANGED <<posts, attempt, round, translations, topics, listed, outbox>>

-------------------------------------------------------------------------------
(* completeJson: a retryable failure, with a retry left.  *)
MaxRetries == IF stage = "summarizing" THEN SummaryRetries ELSE GrokRetries

GrokRetry ==
  /\ (IsTranslating /\ batches # <<>>) \/ stage = "summarizing" \/ IsFollowUpDue
  /\ attempt < MaxRetries
  /\ attempt' = attempt + 1
  /\ UNCHANGED <<posts, stage, round, batches, translations, untranslated, topics, listed, outbox>>

-------------------------------------------------------------------------------
(* Messages: a header, a block per topic and a footer, split by the splitter. *)
HeaderBlock == <<"<b>", "title", "</b>", NewLine, "counts">>

Link(p) == <<"<a>", Labels[p], "</a>">>
LinkLines(links) ==
  [line \in 1 .. (Len(links) + LinksPerLine - 1) \div LinksPerLine |->
     LET first == (line - 1) * LinksPerLine + 1
         last == IF line * LinksPerLine < Len(links) THEN line * LinksPerLine ELSE Len(links)
     IN Join(SubSeq(links, first, last), <<",">>)]

\* The thesis, the viewpoints, and the links to the posts of the digest.
TopicBlock(topic) ==
  LET links == [i \in 1 .. Cardinality(topic.refs) |-> Link(InOrder(topic.refs)[i])]
  IN Join(topic.lines \o LinkLines(links), LineSeparator)

Shown(isShown, line) == IF isShown THEN <<line>> ELSE <<>>
FooterLines ==
  <<"counted">> \o CollectorLines
  \o Shown(kept # Posts, "skipped") \o Shown(untranslated > 0, "untranslated")
  \o Shown(FallbackPosts(topics) # {}, "fallback") \o Shown(listed, "listed")

\* Mutant: the tag is opened once for the whole footer.
FooterInOneTag == <<"<i>">> \o Join([i \in DOMAIN FooterLines |-> <<FooterLines[i]>>],
                                    LineSeparator) \o <<"</i>">>

\* Tags per line: a split between lines must never leave a tag open.
FooterBlock ==
  Join([i \in DOMAIN FooterLines |-> <<"<i>", FooterLines[i], "</i>">>], LineSeparator)

Blocks == <<HeaderBlock>> \o [i \in DOMAIN topics |-> TopicBlock(topics[i])] \o <<FooterBlock>>
Messages == SplitMessages(Blocks)

FormatDigest ==
  /\ stage = "formatting"
  /\ messages' = Messages /\ stage' = "sending"
  /\ UNCHANGED <<posts, attempt, round, batches, translations, untranslated, topics, listed, chat,
                 late>>

MessageCount == Len(messages)
NextMessage == round + 1

IsAttempt ==
  /\ stage = "sending"
  /\ UNCHANGED <<posts, batches, translations, untranslated, topics, listed, messages>>

Accepted ==
  /\ IsAttempt
  /\ chat' = Append(chat, NextMessage)
  /\ round' = NextMessage /\ attempt' = 0
  /\ stage' = IF NextMessage = MessageCount THEN "delivered" ELSE stage
  /\ UNCHANGED late

\* A request the notifier has given up, after a 5xx, a network failure or its timeout, is
\* not taken back: Telegram may take it at once, after its retry, after later messages,
\* or never.
LeavesRequest == late' = late \cup {<<NextMessage, attempt>>}

TakenLate(request) ==
  /\ late' = late \ {request}
  /\ chat' = Append(chat, request[1])
  /\ UNCHANGED <<posts, stage, attempt, round, batches, translations, untranslated, topics, listed,
                 messages>>

\* Mutant: a message that failed is left out.
RetryWithTheNext ==
  /\ IsAttempt
  /\ attempt < BotRetries /\ NextMessage < MessageCount
  /\ attempt' = attempt + 1 /\ round' = NextMessage
  /\ UNCHANGED <<stage, chat, late>>

\* A 429, a 5xx, a network failure or a timeout.
RetryMessage ==
  /\ IsAttempt
  /\ attempt < BotRetries
  /\ LeavesRequest \/ UNCHANGED late
  /\ attempt' = attempt + 1
  /\ UNCHANGED <<stage, round, chat>>

\* Refused for good, asked to wait too long, or out of attempts.
MessageFails ==
  /\ IsAttempt
  /\ (attempt = BotRetries /\ LeavesRequest) \/ UNCHANGED late
  /\ stage' = "undelivered"
  /\ UNCHANGED <<attempt, round, chat>>

-------------------------------------------------------------------------------
\* What the model may answer: any number of topics up to the bound, each with
\* references to any posts, known or not, some or none or all of them.
ModelTopic(i, refs) == Topic(refs, FALSE, Theses[i])
Answers == UNION {{[i \in 1 .. n |-> ModelTopic(i, refs[i])] : refs \in [1 .. n -> SUBSET Posts]} :
                    n \in 0 .. MaxTopics}

\* Bound: a follow-up adds to one topic, of a good or a bad number, and one new topic.
NewTopics == {<<>>} \cup {<<ModelTopic(MaxTopics + 1, refs)>> : refs \in SUBSET Posts}

ContentNext ==
  \/ PrepareTexts \/ TextsReady \/ TranslationEnds \/ TranslationFails
  \/ SummaryFails \/ PlacingFails \/ CoverageEnds \/ TranslateFallbackTheses \/ GrokRetry
  \/ FormatDigest \/ Accepted \/ RetryMessage \/ MessageFails
  \/ \E request \in late : TakenLate(request)
  \/ \E answer \in SUBSET Posts : Translated(answer)
  \/ \E answer \in Answers : Summarized(answer)
  \/ \E number \in 0 .. Len(topics), refs \in SUBSET Posts, new \in NewTopics :
       Placed(number, refs, new)

ContentSpec == ContentInit /\ [][ContentNext]_contentVars

-------------------------------------------------------------------------------
IsReady == stage = "formatting"

EveryPostIsPlaced == WithText \subseteq Covered(topics)
NothingIsInvented ==
  /\ Covered(topics) \subseteq WithText
  /\ \A i \in DOMAIN topics : topics[i].refs # {}
  /\ \A i \in DOMAIN topics : topics[i].isFallback => Cardinality(topics[i].refs) = 1
OnlyTheOldestAreLeftOut ==
  /\ Cardinality(kept) = IF Cardinality(Posts) < MaxPosts THEN Cardinality(Posts) ELSE MaxPosts
  /\ \A p \in kept, q \in Posts \ kept : date[p] >= date[q]
TranslationGapsAreCounted ==
  LET items == IF mode = "on" THEN WithText ELSE FallbackPosts(topics)
  IN untranslated = Cardinality(items \ translations)

\* "guarantees coverage: every post with text ends up in at least one topic"
\* (summary.service.ts:31): whatever the model answers, invents or leaves out and
\* wherever Grok gives up, a digest that goes out holds every kept post with text,
\* nothing else, only the oldest posts are missing from it, and its footer counts the
\* texts that stayed untranslated.
DigestIsHonest ==
  IsReady => /\ EveryPostIsPlaced /\ NothingIsInvented
             /\ OnlyTheOldestAreLeftOut /\ TranslationGapsAreCounted

\* `round` counts the messages sent only while there are any.
ContentPhase == CASE stage \in {"sending", "delivered"} -> stage
                  [] stage = "undelivered" -> "stopped"
                  [] OTHER -> "making"
ContentSent == IF ContentPhase = "making" THEN 0 ELSE round

Copies(m) == Cardinality({i \in DOMAIN chat : chat[i] = m})
Pending(m) == Cardinality({request \in late : request[1] = m})
NoneIsEarly == \A i \in DOMAIN chat : chat[i] = 1 \/ \E j \in 1 .. i - 1 : chat[j] = chat[i] - 1

\* "Sends every message in order; the first message that cannot be delivered throws"
\* (bot-notifier.ts:41).  What holds of that in the chat, whenever Telegram takes the
\* requests the notifier has given up: no message is there before the one it follows;
\* all that count as sent are there, and of the others the one under way at most; none
\* can ever be there more often than it was tried.  What does not hold: a request that
\* timed out may be taken after its retry and after the next message, so an old
\* message may come again behind a newer one.
ChatIsInOrder ==
  /\ NoneIsEarly
  /\ 1 .. ContentSent \subseteq ToSet(chat) /\ ToSet(chat) \subseteq 1 .. ContentSent + 1
  /\ stage = "delivered" => ToSet(chat) = 1 .. MessageCount
  /\ \A m \in ToSet(chat) : Copies(m) + Pending(m) <= BotRetries + 1

Content == INSTANCE DigestDelivery WITH phase <- ContentPhase, size <- MessageCount,
                                        sent <- ContentSent

\* What DigestRun takes for granted of its messages: there is at least one, and a
\* retry never counts twice (digest.service.ts:118, bot-notifier.ts:42).
ContentDelivers == Content!DeliverySpec

HasNoEntityCut(message) ==
  \A i \in DOMAIN message : message[i] = "&" =>
    \E j \in i + 1 .. Len(message) :
      message[j] = ";" /\ \A k \in i + 1 .. j - 1 : message[k] # "&"

\* A tag that opens is the last one before its closing tag.
AreTagPair(message, i, j) ==
  /\ i < j /\ message[i] \in DOMAIN ClosingTag /\ message[j] = ClosingTag[message[i]]
  /\ \A k \in i + 1 .. j - 1 : message[k] \notin Tags
HasNoOpenTag(message) ==
  \A i \in DOMAIN message : message[i] \in Tags =>
    \E j \in DOMAIN message : AreTagPair(message, i, j) \/ AreTagPair(message, j, i)

IsPartOf(block, message) ==
  \E start \in 1 .. Len(message) - Len(block) + 1 :
    SubSeq(message, start, start + Len(block) - 1) = block
BlocksStayWhole(given) ==
  \A block \in ToSet(Blocks) :
    Len(block) <= MaxChars => \E message \in given : IsPartOf(block, message)

Letters(line) == FlattenSeq([i \in DOMAIN line |-> IF line[i] = NewLine THEN <<>> ELSE <<line[i]>>])
Written(texts) == Letters(FlattenSeq(texts))
NothingIsDropped == Written(Messages) = Written(Blocks)

\* "each within BOT_MESSAGE_MAX_CHARS" (digest-formatter.ts:10), "without splitting
\* an HTML entity. Nothing is dropped and order is kept" (message-splitter.ts:7) and "a
\* split between lines must never leave a tag open" (digest-formatter.ts:83): whatever
\* the topics are, a message of the digest is not empty, not too long and its HTML is
\* whole, a block is cut only when it is too long itself, and the messages hold every
\* character of the blocks in order, line breaks aside.  A surrogate pair is one
\* character here; that cutLine may cut one is told in the README.
MessagesFit ==
  IsReady =>
    LET given == ToSet(Messages)
    IN /\ \A message \in given :
            /\ message # <<>> /\ Len(message) <= MaxChars
            /\ HasNoEntityCut(message) /\ HasNoOpenTag(message)
       /\ BlocksStayWhole(given) /\ NothingIsDropped
===============================================================================
