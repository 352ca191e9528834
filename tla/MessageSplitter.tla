---------------------------- MODULE MessageSplitter ----------------------------
(***************************************************************************)
(* message-splitter.ts: how the blocks of a digest become messages that     *)
(* Telegram takes.  A text is a sequence of characters; an HTML tag counts  *)
(* as one character, an entity is an "&", what it names and a ";".          *)
(***************************************************************************)
EXTENDS Integers, SequencesExt

CONSTANT MaxChars           \* BOT_MESSAGE_MAX_CHARS

ASSUME SplitterAssumption == MaxChars \in Nat \ {0}

NewLine == "newline"
LineSeparator == <<NewLine>>
BlockSeparator == <<NewLine, NewLine>>

\* The parts `separator` joins, and the lines `split` finds in a text.
Join(parts, separator) ==
  FlattenSeq([i \in DOMAIN parts |-> IF i = 1 THEN parts[1] ELSE separator \o parts[i]])
ReadChar(lines, c) == IF c = NewLine THEN Append(lines, <<>>)
                      ELSE Front(lines) \o <<Append(Last(lines), c)>>
Lines(text) ==
  LET linesOf[n \in 0 .. Len(text)] ==
        IF n = 0 THEN <<<<>>>> ELSE ReadChar(linesOf[n - 1], text[n])
  IN linesOf[Len(text)]

\* The last of `messages` is `current`, the message being filled.
AddPiece(messages, piece, separator) ==
  LET current == Last(messages)
      candidate == IF current = <<>> THEN piece ELSE current \o separator \o piece
  IN IF Len(candidate) <= MaxChars THEN Front(messages) \o <<candidate>>
                                   ELSE Append(messages, piece)
Pack(pieces, separator) ==
  LET packed[n \in 0 .. Len(pieces)] ==
        IF n = 0 THEN <<<<>>>> ELSE AddPiece(packed[n - 1], pieces[n], separator)
      messages == packed[Len(pieces)]
  IN IF Last(messages) = <<>> THEN Front(messages) ELSE messages

\* Mutant: an oversized line is cut wherever the limit falls.
EndAtTheLimit(rest) == MaxChars

\* Where the next part of an oversized line ends: never inside an entity.
EndOfPart(rest) ==
  LET starts == {i \in 2 .. MaxChars : rest[i] = "&"}
      entityStart == CHOOSE i \in starts : \A j \in starts : j <= i
  IN IF starts # {} /\ ~ \E i \in entityStart .. MaxChars : rest[i] = ";"
     THEN entityStart - 1 ELSE MaxChars

\* The last of `parts` is `rest`; the loop has ended after Len(line) turns at most.
CutOnce(parts) ==
  LET rest == Last(parts)
      end == EndOfPart(rest)
  IN IF Len(rest) <= MaxChars THEN parts
     ELSE Front(parts) \o <<SubSeq(rest, 1, end), SubSeq(rest, end + 1, Len(rest))>>
CutLine(line) ==
  LET partsOf[n \in 0 .. Len(line)] == IF n = 0 THEN <<line>> ELSE CutOnce(partsOf[n - 1])
  IN partsOf[Len(line)]

\* Cutting only between blocks, between the lines of a block that is too long, and
\* inside a line only when the line itself is too long.
LinePieces(line) == IF Len(line) <= MaxChars THEN <<line>> ELSE CutLine(line)
SplitBlock(block) ==
  LET lines == Lines(block)
  IN Pack(FlattenSeq([i \in DOMAIN lines |-> LinePieces(lines[i])]), LineSeparator)

BlockPieces(block) == IF Len(block) <= MaxChars THEN <<block>> ELSE SplitBlock(block)
SplitMessages(blocks) ==
  Pack(FlattenSeq([i \in DOMAIN blocks |-> BlockPieces(blocks[i])]), BlockSeparator)
===============================================================================
