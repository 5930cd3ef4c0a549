----------------------------- MODULE ChatStream -----------------------------
(***************************************************************************)
(* The streaming answer of the chat front door: translate_response of      *)
(* src/chat_proxy.rs sends the upstream's body through SseTranslator of    *)
(* src/openai_compat.rs, chunk by chunk, and ends it with finish().        *)
(*                                                                         *)
(* The kind of an event is its type in the Anthropic API.                  *)
(***************************************************************************)
EXTENDS ChunkedBytes

CONSTANTS
    Streams,    \* the answers: sequences of events
    MaxChunk    \* bound on the length of a chunk

Types == {"message_start", "content_block_start", "content_block_delta",
          "message_delta", "message_stop", "other"}

\* The events of an answer.
Event == [kind : Types, text : Seq(Alphabet)]

ASSUME StreamAssumption == \A events \in Streams : events \in Seq(Event)
ASSUME ChunkAssumption == MaxChunk \in Nat \ {0}

VARIABLES
    answer,     \* the events of the answer
    rest,       \* bytes the upstream has still to send
    pending,    \* SseTranslator.pending: the decoded text of an open line
    done_sent,  \* SseTranslator.done_sent
    sent,       \* what the client has been sent: OpenAI chunks, and DONE
    body,       \* the client's body: "open", "ended", or "broken" off
    arrived,    \* history variable: lines the upstream has sent in full
    split       \* history variable: a chunk ended inside a character

vars == <<answer, rest, pending, done_sent, sent, body, arrived, split>>

\* The last line of an answer may lack its newline.
Upstream(events, terminated) ==
    IF terminated THEN Encode(events) ELSE Front(Encode(events))

Content(chars) == [kind |-> "content", text |-> chars]
Role == [kind |-> "role", text |-> <<>>]
Finish == [kind |-> "finish", text |-> <<>>]
DONE == [kind |-> "[DONE]", text |-> <<>>]

\* The match of push on the event of a complete line.
Absorb(t, line) ==
    LET kind == KindOf(line)
        out == CASE kind = "message_start" -> <<Role>>
                 [] kind = "content_block_start" /\ Len(line) > 1 -> <<Content(Tail(line))>>
                 [] kind = "content_block_delta" -> <<Content(Tail(line))>>
                 [] kind = "message_delta" -> <<Finish>>
                 [] kind = "message_stop" /\ ~t.done_sent -> <<DONE>>
                 [] OTHER -> <<>>
    IN  [out |-> t.out \o out, done_sent |-> t.done_sent \/ kind = "message_stop"]

\* The loop of push over the lines that have ended.
Absorbed(t, lines) ==
    LET after[n \in 0..Len(lines)] ==
            IF n = 0 THEN t ELSE Absorb(after[n - 1], lines[n])
    IN  after[Len(lines)]

\* Mutant: each chunk is translated by itself.
CarriedNothing == <<>>

\* The line that the last chunk left open goes on in this one.
CarriedOver == pending

Init ==
    /\ answer \in Streams
    /\ \E terminated \in BOOLEAN : rest = Upstream(answer, terminated \/ answer = <<>>)
    /\ pending = <<>>
    /\ done_sent = FALSE
    /\ sent = <<>>
    /\ body = "open"
    /\ arrived = 0
    /\ split = FALSE

\* One chunk of n bytes through SseTranslator::push.
Push(n) ==
    LET chunk == SubSeq(rest, 1, n)
        drained == Drained(CarriedOver, chunk)
        t == Absorbed([out |-> <<>>, done_sent |-> done_sent], drained.lines)
    IN  /\ rest' = SubSeq(rest, n + 1, Len(rest))
        /\ pending' = drained.pending
        /\ done_sent' = t.done_sent
        /\ sent' = sent \o t.out
        /\ arrived' = arrived + Lines(chunk)
        /\ split' = (split \/ EndsInside(chunk))
        /\ UNCHANGED <<answer, body>>

ReadChunk == body = "open" /\ \E n \in 1..MaxChunk : n <= Len(rest) /\ Push(n)

\* Mutant: finish sends [DONE] unconditionally.
FinishAlways == <<DONE>>

\* SseTranslator::finish: [DONE], unless message_stop has sent it.
FinishSends == IF done_sent THEN <<>> ELSE <<DONE>>

\* The upstream's body ends, and the chained tail is what finish returns;
\* a line still open is dropped.
StreamEnds ==
    /\ body = "open" /\ rest = <<>>
    /\ sent' = sent \o FinishSends
    /\ done_sent' = TRUE
    /\ body' = "ended"
    /\ UNCHANGED <<answer, rest, pending, arrived, split>>

\* The upstream's body breaks: the error goes through the map, the server
\* aborts the client's body, and the tail is never polled.
StreamBreaks ==
    /\ body = "open"
    /\ body' = "broken"
    /\ UNCHANGED <<answer, rest, pending, done_sent, sent, arrived, split>>

Next == ReadChunk \/ StreamEnds \/ StreamBreaks

Spec == Init /\ [][Next]_vars

-----------------------------------------------------------------------------

TextOf(items) == FlattenSeq([i \in 1..Len(items) |-> items[i].text])

\* The reference: what the events say, in their order.
Carried(events) ==
    FlattenSeq([i \in 1..Len(events) |->
        IF events[i].kind \in {"content_block_start", "content_block_delta"}
          THEN events[i].text ELSE <<>>])

\* Every variable has the shape of the code's data; an open line holds no end
\* of line.
TypeOK ==
    /\ "eol" \notin ToSet(pending)
    /\ done_sent \in BOOLEAN
    /\ \A i \in DOMAIN sent : sent[i].kind \in {"role", "content", "finish", "[DONE]"}
    /\ body \in {"open", "ended", "broken"}
    /\ arrived \in 0..Len(answer)

\* However the upstream's bytes are cut into chunks (between characters), the
\* client has the text of exactly the events whose lines have arrived in full:
\* none is lost, repeated or reordered at a chunk boundary.
TextOfCompleteLines ==
    ~split => TextOf(sent) = Carried(SubSeq(answer, 1, arrived))

\* [DONE] closes the client's stream once and for all: it is never sent
\* twice, a body that ended has it, and one that broke off has it only if the
\* upstream said message_stop first.
DoneOnce ==
    LET dones == {i \in DOMAIN sent : sent[i] = DONE}
    IN  /\ \A i, j \in dones : i = j
        /\ body = "ended" => dones # {}
        /\ body = "broken" /\ dones # {} => \E i \in DOMAIN answer : answer[i].kind = "message_stop"

-----------------------------------------------------------------------------
\* The inductive invariant behind them.

Item == [kind : {"role", "content", "finish", "[DONE]"}, text : Seq(Characters)]

\* The reader has come as far as the lines that have arrived; the last one may
\* lack its newline.
ReadOK ==
    \E missing \in {<<>>, <<"eol">>} :
        Stands(answer, pending, rest \o missing, arrived, split, TRUE)

\* The items are what the first c events come to.
Translated(items, done, c, cut) ==
    /\ items \in Seq(Item) /\ done \in BOOLEAN
    /\ ~cut => TextOf(items) = Carried(SubSeq(answer, 1, c))
    /\ done <=> \E i \in DOMAIN items : items[i] = DONE
    /\ \A i, j \in DOMAIN items : items[i] = DONE /\ items[j] = DONE => i = j

Stopped(c) == \E i \in 1..c : answer[i].kind = "message_stop"

IInv ==
    /\ TypeOK
    /\ answer \in Seq(Event) /\ rest \in Seq(Symbol) /\ split \in BOOLEAN
    /\ ReadOK
    /\ Translated(sent, done_sent, arrived, split)
    /\ done_sent /\ body # "ended" => Stopped(arrived)
    /\ body = "ended" => done_sent

-----------------------------------------------------------------------------
\* What the documentation says of the translation, and the code does not do.

\* src/openai_compat.rs:154: events split across network chunks reassemble
\* correctly.
SplitEventsReassemble == TextOf(sent) = Carried(SubSeq(answer, 1, arrived))
=============================================================================
