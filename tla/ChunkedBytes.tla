---------------------------- MODULE ChunkedBytes ----------------------------
(***************************************************************************)
(* What src/stream.rs and src/openai_compat.rs both do with a stream of    *)
(* server-sent events that comes in chunks: each chunk is decoded by       *)
(* itself (String::from_utf8_lossy), and the lines that have ended are     *)
(* drained from what is pending, one after another.                        *)
(*                                                                         *)
(* Text is a sequence of characters and what is on the wire a sequence of  *)
(* symbols, each one byte; the character "W" takes two, "hi" and "lo".  An *)
(* event is its kind and the text it carries: one line, of the kind, the   *)
(* bytes of the text, and "eol".                                           *)
(***************************************************************************)
EXTENDS Naturals, Sequences, SequencesExt, FiniteSets

CONSTANT Alphabet   \* the characters of the texts

\* What from_utf8_lossy makes of the bytes of a text.
Characters == Alphabet \cup {"replacement"}

\* The kinds of event that the scanner and the translator tell apart.
Kinds == {"text", "block", "other"}
           \cup {"message_start", "content_block_start", "content_block_delta",
                 "message_delta", "message_stop"}

AnyEvent == [kind : Kinds, text : Seq(Alphabet)]

\* A character is told from a part of one and from the end of a line.
ASSUME AlphabetAssumption == Alphabet \cap {"hi", "lo", "eol"} = {}

\* What comes over the wire, and what it decodes to.
Symbol == Characters \cup Kinds \cup {"W", "hi", "lo", "eol"}

-----------------------------------------------------------------------------

\* The bytes of a text.
Bytes(chars) == FlattenSeq([i \in 1..Len(chars) |->
                              IF chars[i] = "W" THEN <<"hi", "lo">> ELSE <<chars[i]>>])

\* The bytes of events.
Line(event) == <<event.kind>> \o Bytes(event.text) \o <<"eol">>
Encode(events) == FlattenSeq([i \in 1..Len(events) |-> Line(events[i])])

\* A character cut at either end of the chunk decodes to a replacement
\* character on that side.
Decode(chunk) ==
    FlattenSeq([i \in 1..Len(chunk) |->
        CASE chunk[i] = "hi" -> IF i < Len(chunk) THEN <<>> ELSE <<"replacement">>
          [] chunk[i] = "lo" -> IF i > 1 THEN <<"W">> ELSE <<"replacement">>
          [] OTHER -> <<chunk[i]>>])

\* The chunk ends inside a character.
EndsInside(chunk) == chunk[Len(chunk)] = "hi"

-----------------------------------------------------------------------------

\* Mutant: drain(..newline) for drain(..=newline).
LeftNewline == <<"eol">>

\* What is pending once a line has been drained, its newline included.
LeftPending == <<>>

\* A reader has the lines that were drained, and a pending one.  One decoded
\* symbol ends the pending line, or makes it longer.
Feed(reader, symbol) ==
    IF symbol = "eol"
      THEN [lines |-> Append(reader.lines, reader.pending), pending |-> LeftPending]
      ELSE [reader EXCEPT !.pending = Append(@, symbol)]

Fed(reader, symbols) ==
    LET after[n \in 0..Len(symbols)] ==
            IF n = 0 THEN reader ELSE Feed(after[n - 1], symbols[n])
    IN  after[Len(symbols)]

\* The lines that a chunk ends, without their newlines, and what is pending
\* behind them.  The code handles each line as it drains it; no other step can
\* come between.
Drained(pending, chunk) == Fed([lines |-> <<>>, pending |-> pending], Decode(chunk))

\* The kind of the event on a line, if there is one: a line without is skipped.
KindOf(line) == IF line = <<>> THEN "other" ELSE Head(line)

-----------------------------------------------------------------------------
\* Where a reader stands in a stream of events, in terms of the events: what
\* the invariants of SentinelScan and ChatStream are made of.

\* The lines that have ended in a sequence of bytes.
Lines(bytes) == Cardinality({i \in DOMAIN bytes : bytes[i] = "eol"})

From(s, n) == SubSeq(s, n + 1, Len(s))

\* What is left of the stream inside the next line, after j of its characters.
LeftInside(events, c, j) ==
    Bytes(From(events[c + 1].text, j)) \o (<<"eol">> \o Encode(From(events, c + 1)))

\* s is what came of t when characters were cut: right up to the first cut.
Garbled(s, t) ==
    \E k \in DOMAIN s : /\ s[k] = "replacement"
                        /\ k - 1 <= Len(t)
                        /\ \A i \in 1..(k - 1) : s[i] = t[i]

Same(s, t, cut) == s = t \/ (cut /\ Garbled(s, t))

\* A line is that of an event, with what was read of its text.
LineOf(event, line, read) ==
    /\ line # <<>>
    /\ read \in Seq(Characters) /\ line = <<event.kind>> \o read

\* The line tells the event, as far as it came through the chunks.
Tells(line, event, cut) ==
    LineOf(event, line, Tail(line)) /\ Same(Tail(line), event.text, cut)

\* The reader stands inside line c + 1, after j characters, all of them read;
\* or in the middle of the next one, when half of it has come.  At a boundary
\* of chunks that half was decoded.
Inside(events, pending, left, c, j, cut, boundary) ==
    LET e == events[c + 1]
        read == Tail(pending)
        said == SubSeq(e.text, 1, j)
    IN  /\ LineOf(e, pending, read)
        /\ \/ left = LeftInside(events, c, j) /\ Same(read, said, cut)
           \/ /\ j < Len(e.text) /\ e.text[j + 1] = "W"
              /\ left = <<"lo">> \o LeftInside(events, c, j + 1)
              /\ IF boundary THEN cut /\ Garbled(read, said) ELSE Same(read, said, cut)

\* The reader stands behind c lines, with pending, and left is to come.
Stands(events, pending, left, c, cut, boundary) ==
    \/ left = Encode(From(events, c)) /\ pending = <<>>
    \/ /\ c < Len(events)
       /\ \E j \in 0..Len(events[c + 1].text) : Inside(events, pending, left, c, j, cut, boundary)
=============================================================================
