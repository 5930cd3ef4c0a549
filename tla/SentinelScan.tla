---------------------------- MODULE SentinelScan ----------------------------
(***************************************************************************)
(* The verdict of src/stream.rs on a local answer: does it open with the   *)
(* sentinel?  A streaming answer is scanned as its chunks arrive, and a    *)
(* chunk may end anywhere; a JSON answer is looked at once.                *)
(*                                                                         *)
(* An event is a "text", the start of a "block" of another type, or some   *)
(* "other" one.                                                            *)
(***************************************************************************)
EXTENDS ChunkedBytes

CONSTANTS
    Sentinel,   \* the sentinel, a sequence of characters
    Streams,    \* the streaming answers: sequences of events
    Bodies,     \* the JSON answers: sequences of content blocks
    MaxChunk    \* bound on the length of a chunk

\* Characters: "w" is one byte of white space, "W" white space of two bytes
\* (such as a no-break space); every other one is not white space.
White == {"w", "W"}

\* The events of a streaming answer.
Event == [kind : {"text", "block", "other"}, text : Seq(Alphabet)]

\* The sentinel has no character that stands for a part of one, and does not
\* begin with white space.
ASSUME SentinelAssumption ==
    /\ Sentinel \in Seq(Alphabet \ {"replacement"})
    /\ Len(Sentinel) > 0 /\ Sentinel[1] \notin White
ASSUME StreamAssumption == \A events \in Streams : events \in Seq(Event)
ASSUME ChunkAssumption == MaxChunk \in Nat \ {0}

VARIABLES
    answer,     \* the events or blocks of the answer
    format,     \* its content type: "sse" or "json"
    rest,       \* bytes the upstream has still to send
    raw,        \* SseTextScanner.raw, the chunks joined
    pending,    \* SseTextScanner.pending: the decoded text of an open line
    text,       \* SseTextScanner.text: the text of the events so far
    resolved,   \* SseTextScanner.resolved, "none" for None
    outcome,    \* "scanning", then "escalate" or "deliver"
    split       \* history variable: a chunk ended inside a character

vars == <<answer, format, rest, raw, pending, text, resolved, outcome, split>>

\* str::trim_start.
TrimStart(chars) ==
    LET blank == {n \in 0..Len(chars) : \A i \in 1..n : chars[i] \in White}
        n == CHOOSE n \in blank : \A m \in blank : m <= n
    IN  SubSeq(chars, n + 1, Len(chars))

\* Mutant: the sentinel is looked for anywhere in the text.
FoundAnywhere(chars) ==
    \E i \in 0..Len(chars) : IsPrefix(Sentinel, SubSeq(chars, i + 1, Len(chars)))

\* Leading white space is ignored, and the sentinel must come first.
Found(chars) == IsPrefix(Sentinel, TrimStart(chars))

\* Mutant: too short a text is taken for an answer.
OpenOnlyBlank(chars) == TrimStart(chars) = <<>>

\* Mutant: a text that the sentinel does not begin with is held back too.
OpenWhileShort(chars) == Len(TrimStart(chars)) < Len(Sentinel)

\* The text may still turn out to begin with the sentinel.
Open(chars) == IsPrefix(TrimStart(chars), Sentinel)

CheckSentinel(chars) ==
    IF Found(chars) THEN "Sentinel"
    ELSE IF Open(chars) THEN "Undetermined" ELSE "Clean"

\* absorb_event for the event on a line: its text is added, and the first of
\* a block that is not text and a complete sentinel resolves the scan.
Absorb(scan, line) ==
    LET added == scan.text \o Tail(line)
    IN  IF KindOf(line) = "other" THEN scan ELSE
        [text |-> added,
         resolved |-> IF scan.resolved # "none" THEN scan.resolved
                      ELSE IF KindOf(line) = "block" THEN "Clean"
                      ELSE IF CheckSentinel(added) = "Sentinel" THEN "Sentinel"
                      ELSE "none"]

\* The loop of push over the lines that have ended.
Absorbed(scan, lines) ==
    LET after[n \in 0..Len(lines)] ==
            IF n = 0 THEN scan ELSE Absorb(after[n - 1], lines[n])
    IN  after[Len(lines)]

Scan == [text |-> text, resolved |-> resolved]

Verdict == IF resolved # "none" THEN resolved ELSE CheckSentinel(text)

Init ==
    /\ \/ format = "sse" /\ answer \in Streams /\ rest = Encode(answer)
       \/ format = "json" /\ answer \in Bodies /\ rest = <<>>
    /\ raw = <<>>
    /\ pending = <<>>
    /\ text = <<>>
    /\ resolved = "none"
    /\ outcome = "scanning"
    /\ split = FALSE

\* Mutant: only the chunk just pushed is kept for the client.
BufferedLast(chunk) == chunk

\* Every raw chunk is kept, verbatim.
Buffered(chunk) == raw \o chunk

\* SseTextScanner::push on the next n bytes, and the match in local_attempt
\* on the verdict it returns.
Push(n) ==
    LET chunk == SubSeq(rest, 1, n)
        drained == Drained(pending, chunk)
        scan == Absorbed(Scan, drained.lines)
    IN  /\ raw' = Buffered(chunk)
        /\ rest' = SubSeq(rest, n + 1, Len(rest))
        /\ pending' = drained.pending
        /\ text' = scan.text
        /\ resolved' = scan.resolved
        /\ split' = (split \/ EndsInside(chunk))
        /\ outcome' = CASE Verdict' = "Sentinel" -> "escalate"
                        [] Verdict' = "Clean" -> "deliver"
                        [] OTHER -> "scanning"
        /\ UNCHANGED <<answer, format>>

ReadChunk ==
    /\ format = "sse" /\ outcome = "scanning"
    /\ \E n \in 1..MaxChunk : n <= Len(rest) /\ Push(n)

\* The stream ends without a verdict: deliver what there is.
StreamEnds ==
    /\ format = "sse" /\ outcome = "scanning" /\ rest = <<>>
    /\ outcome' = "deliver"
    /\ UNCHANGED <<answer, format, rest, raw, pending, text, resolved, split>>

\* json_first_text: the text of the first text block, wherever it stands.
JsonFirstText(blocks) ==
    IF \E i \in DOMAIN blocks : blocks[i].kind = "text"
      THEN blocks[CHOOSE i \in DOMAIN blocks :
                    /\ blocks[i].kind = "text"
                    /\ \A j \in 1..(i - 1) : blocks[j].kind # "text"].text
      ELSE <<>>

ReadJson ==
    /\ format = "json" /\ outcome = "scanning"
    /\ outcome' = IF CheckSentinel(JsonFirstText(answer)) = "Sentinel"
                    THEN "escalate" ELSE "deliver"
    /\ UNCHANGED <<answer, format, rest, raw, pending, text, resolved, split>>

Next == ReadChunk \/ StreamEnds \/ ReadJson

Spec == Init /\ [][Next]_vars

-----------------------------------------------------------------------------

\* What the texts of events say together.
Said(events) ==
    FlattenSeq([i \in 1..Len(events) |->
                    IF events[i].kind = "text" THEN events[i].text ELSE <<>>])

\* What the local model said first: the text up to the first block that is
\* not text.
OpeningText(events) ==
    LET opening == {n \in 0..Len(events) : \A i \in 1..n : events[i].kind # "block"}
        n == CHOOSE n \in opening : \A m \in opening : m <= n
    IN  Said(SubSeq(events, 1, n))

\* The reference: an answer escalates when the first thing in it is the
\* sentinel (DEVELOPER_GUIDE.md:106-113).
OpensWithSentinel(events) == IsPrefix(Sentinel, TrimStart(OpeningText(events)))

\* Every variable has the shape of the code's data: the scanned text is made
\* of characters, and an unfinished line holds no end of line.
TypeOK ==
    /\ text \in Seq(Characters)
    /\ "eol" \notin ToSet(pending)
    /\ resolved \in {"none", "Sentinel", "Clean"}
    /\ outcome \in {"scanning", "escalate", "deliver"}

\* However the stream is cut into chunks, an escalation means that the local
\* model did open with the sentinel: no chunk boundary, replacement character
\* or later block makes ordinary content escalate.
NoFalseEscalation ==
    outcome = "escalate" /\ format = "sse" => OpensWithSentinel(answer)

\* And the sentinel is never missed, however the stream is cut, as long as no
\* chunk ends inside a character: the verdict depends on the events alone.
SentinelIsFound ==
    outcome = "deliver" /\ format = "sse" /\ ~split => ~OpensWithSentinel(answer)

\* Bytes are held back from the client only while they may still turn out to
\* open with the sentinel: every complete line so far is text or no content,
\* and what it says is white space and a beginning of the sentinel.
HeldOnlyWhileOpen ==
    outcome = "scanning" /\ format = "sse" /\ ~split =>
        LET seen == SubSeq(answer, 1, Lines(raw))
        IN  /\ \A i \in DOMAIN seen : seen[i].kind # "block"
            /\ IsPrefix(TrimStart(OpeningText(seen)), Sentinel)

\* What the scanner keeps for the client is what came, byte for byte, however it
\* was cut and decoded for the verdict: with what is still to come it is the
\* upstream's stream.  (Nothing is said here of what is sent on, or when.)
BytesUntouched == format = "sse" => raw \o rest = Encode(answer)

-----------------------------------------------------------------------------
\* The inductive invariant behind them.

UpToEvent(n) == SubSeq(answer, 1, n)

\* What the scan may say after c events.
Judged(scan, c, cut) ==
    CASE scan.resolved = "none" ->
            /\ \A i \in 1..c : answer[i].kind # "block"
            /\ Same(scan.text, Said(UpToEvent(c)), cut)
            /\ ~Found(scan.text)
      [] scan.resolved = "Sentinel" -> OpensWithSentinel(answer)
      [] scan.resolved = "Clean" -> ~cut => ~OpensWithSentinel(answer)

\* The scan has come as far as the lines that have ended.
ScanOK ==
    LET c == Lines(raw)
    IN  /\ c \in 0..Len(answer)
        /\ Judged(Scan, c, split)
        /\ Stands(answer, pending, rest, c, split, TRUE)

IInv ==
    /\ TypeOK
    /\ BytesUntouched
    /\ format = "sse" =>
        /\ answer \in Seq(Event) /\ raw \in Seq(Symbol)
        /\ ScanOK
        /\ outcome = "scanning" => resolved = "none" /\ Open(text)
    /\ split \in BOOLEAN
    /\ NoFalseEscalation
    /\ SentinelIsFound

=============================================================================
