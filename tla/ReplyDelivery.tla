---------------------------- MODULE ReplyDelivery ----------------------------
(***************************************************************************)
(* How the bot hands a reply to Telegram (apps/bot/src/index.js,           *)
(* format.js): the answer of the model is cut into chunks on paragraph     *)
(* boundaries, and each chunk is sent as HTML or else as plain text.       *)
(*                                                                         *)
(* A reply is a sequence of paragraphs of visible characters, which are    *)
(* told apart by where they stand: <<k, i>> is the i-th one of the k-th    *)
(* paragraph.  Telegram, outside, takes a text that is neither blank nor   *)
(* longer than TelegramLimit, and may refuse any HTML: markup makes a text *)
(* longer and may not nest.                                                *)
(***************************************************************************)
EXTENDS Naturals, SequencesExt

CONSTANTS
    Answers,        \* the lengths of the paragraphs of each answer in a run
    ChunkMax,       \* chunkForTelegram's max
    TelegramLimit,  \* the longest message Telegram takes
    MaxFailures     \* bound: calls that fail, in one turn

ASSUME ReplyConstants ==
    /\ Answers \subseteq Seq(Nat) \ {<<>>}
    /\ ChunkMax \in Nat \ {0}
    /\ TelegramLimit \in Nat /\ ChunkMax <= TelegramLimit
    /\ MaxFailures \in Nat

VARIABLES
    turn,     \* where the turn is
    reply,    \* the reply's paragraphs
    chunks,   \* chunks not sent yet
    arrived,  \* the messages in the chat
    failures

replyVars == <<turn, reply, chunks, arrived, failures>>

Newline == <<0, 0>>
Break == <<Newline, Newline>>

\* A reply with paragraphs of the given lengths.
Written(lengths) == [k \in DOMAIN lengths |-> [i \in 1..lengths[k] |-> <<k, i>>]]

Text(paragraphs) ==
    FoldLeft(LAMBDA s, p : s \o Break \o p, Head(paragraphs), Tail(paragraphs))

\* The reply when the query yields no result.
NoResponse == Written(<<1>>)

TrimEnd(s) ==
    LET visible == {i \in DOMAIN s : s[i] # Newline}
    IN  SubSeq(s, 1, CHOOSE n \in 0..Len(s) :
            (n = 0 \/ n \in visible) /\ \A i \in visible : i <= n)

Blank(s) == TrimEnd(s) = <<>>

-----------------------------------------------------------------------------
(* chunkForTelegram. *)

\* Mutant: a full slice ends one character early.
SlicesShort(s) ==
    [k \in 1..((Len(s) + ChunkMax - 1) \div ChunkMax) |->
        SubSeq(s, (k - 1) * ChunkMax + 1,
               IF k * ChunkMax < Len(s) THEN k * ChunkMax - 1 ELSE Len(s))]

Slices(s) ==
    [k \in 1..((Len(s) + ChunkMax - 1) \div ChunkMax) |->
        SubSeq(s, (k - 1) * ChunkMax + 1, IF k * ChunkMax < Len(s) THEN k * ChunkMax ELSE Len(s))]

Flushed(acc) == IF acc.buf = <<>> THEN acc.out ELSE Append(acc.out, TrimEnd(acc.buf))

\* Mutant: a paragraph that does not fit any more is cut like a long one.
TakeCutting(acc, paragraph) ==
    LET piece == paragraph \o Break
    IN  IF Len(acc.buf \o piece) <= ChunkMax
        THEN [acc EXCEPT !.buf = acc.buf \o piece]
        ELSE [out |-> acc.out \o Slices(acc.buf \o piece), buf |-> <<>>]

\* One paragraph: it joins the buffer if it fits, is cut if it fits nowhere, and
\* starts a new buffer otherwise.
Take(acc, paragraph) ==
    LET piece == paragraph \o Break
    IN  IF Len(acc.buf \o piece) <= ChunkMax
        THEN [acc EXCEPT !.buf = acc.buf \o piece]
        ELSE IF Len(piece) > ChunkMax
             THEN [out |-> Flushed(acc) \o Slices(piece), buf |-> <<>>]
             ELSE [out |-> Flushed(acc), buf |-> piece]

ChunkForTelegram(paragraphs) ==
    IF Len(Text(paragraphs)) <= ChunkMax
    THEN <<Text(paragraphs)>>
    ELSE Flushed(FoldLeft(Take, [out |-> <<>>, buf |-> <<>>], paragraphs))

-----------------------------------------------------------------------------
(* runAndReply, from the model's answer on. *)

ReplyInit ==
    /\ turn = "ask"
    /\ reply = <<<<>>>>
    /\ chunks = <<>>
    /\ arrived = <<>>
    /\ failures = 0

\* The result, or the message of the error the query threw.
Answer(lengths) ==
    /\ turn = "ask"
    /\ reply' = IF Text(Written(lengths)) = <<>> THEN NoResponse ELSE Written(lengths)
    /\ turn' = "append"
    /\ UNCHANGED <<chunks, arrived, failures>>

\* The reply is stored in the chat session first.
AppendReply ==
    /\ turn = "append"
    /\ chunks' = ChunkForTelegram(reply)
    /\ turn' = "html"
    /\ UNCHANGED <<reply, arrived, failures>>

Deliver == arrived' = Append(arrived, Head(chunks))

NextChunk ==
    /\ chunks' = Tail(chunks)
    /\ turn' = IF Tail(chunks) = <<>> THEN "over" ELSE "html"

Taken(s) == ~Blank(s) /\ Len(s) <= TelegramLimit

SendHtml ==
    /\ turn = "html"
    /\ Taken(Head(chunks))
    /\ Deliver
    /\ NextChunk
    /\ UNCHANGED <<reply, failures>>

HtmlRefused ==
    /\ turn = "html"
    /\ turn' = "plain"
    /\ UNCHANGED <<reply, chunks, arrived, failures>>

\* What Telegram refuses now is logged and dropped.
SendPlain ==
    /\ turn = "plain"
    /\ IF Taken(Head(chunks)) THEN Deliver ELSE UNCHANGED arrived
    /\ NextChunk
    /\ UNCHANGED <<reply, failures>>

-----------------------------------------------------------------------------
Failure == failures < MaxFailures /\ failures' = failures + 1

\* The database refuses a statement before the reply is stored: the handler ends,
\* nothing is sent.
TurnFails ==
    /\ Failure
    /\ turn \in {"ask", "append"}
    /\ turn' = "over"
    /\ UNCHANGED <<reply, chunks, arrived>>

\* The message arrives and its acknowledgement does not: it is sent again.
HtmlReplyLost ==
    /\ Failure
    /\ turn = "html"
    /\ Taken(Head(chunks))
    /\ Deliver
    /\ turn' = "plain"
    /\ UNCHANGED <<reply, chunks>>

PlainLost ==
    /\ Failure
    /\ turn = "plain"
    /\ NextChunk
    /\ UNCHANGED <<reply, arrived>>

NextTurn ==
    /\ turn = "over"
    /\ turn' = "ask"
    /\ reply' = <<<<>>>> /\ chunks' = <<>> /\ arrived' = <<>> /\ failures' = 0

ReplyNext ==
    \/ \E lengths \in Answers : Answer(lengths)
    \/ AppendReply \/ SendHtml \/ HtmlRefused \/ SendPlain
    \/ TurnFails \/ HtmlReplyLost \/ PlainLost
    \/ NextTurn

ReplySpec == ReplyInit /\ [][ReplyNext]_replyVars

-----------------------------------------------------------------------------
(* What a user relies on. *)

Visible(text) == ToSet(text) \ {Newline}

VisibleIn(texts) == UNION {Visible(texts[k]) : k \in DOMAIN texts}

Earlier(c, d) == c[1] < d[1] \/ (c[1] = d[1] /\ c[2] < d[2])

Ordered(text) ==
    \A i, j \in DOMAIN text :
        i < j /\ text[i] # Newline /\ text[j] # Newline => Earlier(text[i], text[j])

\* The visible characters of some texts, read one after the other, are in the order
\* in which they were written, and none is there twice.
InOrder(texts) ==
    /\ \A k \in DOMAIN texts : Ordered(texts[k])
    /\ \A k, l \in DOMAIN texts : k < l =>
          \A c \in Visible(texts[k]), d \in Visible(texts[l]) : Earlier(c, d)

\* Every visible character of a reply arrives once and in order, however Telegram
\* takes HTML, blank pieces and long paragraphs, as long as no call fails
\* (format.js:65-84, index.js:148-161).
ReplyArrivesWhole ==
    turn = "over" /\ failures = 0 =>
        VisibleIn(arrived) = VisibleIn(reply) /\ InOrder(arrived)

\* "Chunk on paragraph boundaries when possible" (format.js:61-62): a paragraph
\* that fits in a message is in one chunk, and no chunk is longer than max.
ParagraphsStayWhole ==
    /\ \A k \in DOMAIN chunks : Len(chunks[k]) <= ChunkMax
    /\ turn = "html" =>
          \A p, q \in DOMAIN chunks : p # q =>
              \A para \in DOMAIN reply : Len(reply[para]) <= ChunkMax =>
                  ~ /\ Visible(reply[para]) \cap Visible(chunks[p]) # {}
                    /\ Visible(reply[para]) \cap Visible(chunks[q]) # {}
=============================================================================
