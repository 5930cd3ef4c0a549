-------------------------- MODULE ChatStreamProofs --------------------------
(***************************************************************************)
(* The translation of a streaming chat answer, for answers of any length   *)
(* and every way to cut them into chunks: IInv of ChatStream is inductive. *)
(***************************************************************************)
EXTENDS ChatStream, ChunkedBytesProofs

-----------------------------------------------------------------------------
\* What events carry, and what has been sent.

CarriedBy(event) ==
    IF event.kind \in {"content_block_start", "content_block_delta"} THEN event.text ELSE <<>>

Carrying == [event \in Event |-> CarriedBy(event)]
Texting == [item \in Item |-> item.text]

LEMMA AnEvent ==
    ASSUME NEW event \in Event
    PROVE  event \in AnyEvent /\ event.kind \in Types /\ event.text \in Seq(Alphabet)
BY DEF Event, AnyEvent, Kinds, Types

LEMMA EventsAny ==
    \A events \in Seq(Event) : events \in Seq(AnyEvent)
<1>1. Event \subseteq AnyEvent
  BY AnEvent
<1>2. QED
  BY <1>1, SeqMonotonic

LEMMA AnyCarrying ==
    Carrying \in [Event -> Seq(Alphabet)]
<1>1. ASSUME NEW event \in Event PROVE CarriedBy(event) \in Seq(Alphabet)
  BY AnEvent DEF CarriedBy
<1>2. QED
  BY <1>1 DEF Carrying

LEMMA CarriedIs ==
    ASSUME NEW events, events \in Seq(Event)
    PROVE  /\ Carried(events) = FlattenSeq(Mapped(events, Carrying)) /\ Carried(events) \in Seq(Alphabet)
           /\ events = <<>> => Carried(events) = <<>>
<1>1. \A i \in 1..Len(events) : events[i] \in Event
  BY ElementOfSeq
<1>2. \A i \in 1..Len(events) : Carrying[events[i]] = CarriedBy(events[i])
  BY <1>1 DEF Carrying
<1>3. Mapped(events, Carrying) = [i \in 1..Len(events) |-> CarriedBy(events[i])]
  BY <1>2 DEF Mapped
<1>4. Carried(events) = FlattenSeq(Mapped(events, Carrying))
  BY <1>3 DEF Carried, CarriedBy
<1>5. Maps(Mapped(events, Carrying), events, Carrying, Alphabet)
  BY AnyCarrying, MappedType
<1>6. QED
  BY <1>4, <1>5 DEF Maps

\* One more event.
LEMMA CarriedSteps ==
    ASSUME NEW events, events \in Seq(Event), NEW c \in 0..Len(events), c < Len(events)
    PROVE  /\ Carried(SubSeq(events, 1, c)) \in Seq(Alphabet)
           /\ Carried(SubSeq(events, 1, c + 1)) = Carried(SubSeq(events, 1, c)) \o CarriedBy(events[c + 1])
<1>1. c + 1 \in 0..Len(events) /\ c + 1 \in 1..Len(events)
  BY LenProperties
<1>2. SubSeq(events, 1, c) \in Seq(Event) /\ SubSeq(events, 1, c + 1) \in Seq(Event)
  BY <1>1, FirstFacts
<1>3. Grows(events, c, Carrying)
  BY AnyCarrying, MappedGrows
<1>4. Carrying[events[c + 1]] = CarriedBy(events[c + 1])
  <2>1. events[c + 1] \in Event
    BY <1>1, ElementOfSeq
  <2>2. QED
    BY <2>1 DEF Carrying
<1>5. /\ Carried(SubSeq(events, 1, c)) = FlattenSeq(Mapped(SubSeq(events, 1, c), Carrying))
      /\ Carried(SubSeq(events, 1, c)) \in Seq(Alphabet)
      /\ Carried(SubSeq(events, 1, c + 1)) = FlattenSeq(Mapped(SubSeq(events, 1, c + 1), Carrying))
  BY <1>2, CarriedIs
<1>6. QED
  BY <1>3, <1>4, <1>5 DEF Grows

LEMMA AnItem ==
    ASSUME NEW item \in Item
    PROVE  item.text \in Seq(Characters) /\ item.kind \in {"role", "content", "finish", "[DONE]"}
BY DEF Item

LEMMA AnyTexting ==
    Texting \in [Item -> Seq(Characters)]
BY AnItem DEF Texting

LEMMA TextOfIs ==
    ASSUME NEW items, items \in Seq(Item)
    PROVE  /\ TextOf(items) = FlattenSeq(Mapped(items, Texting)) /\ TextOf(items) \in Seq(Characters)
           /\ items = <<>> => TextOf(items) = <<>>
<1>1. \A i \in 1..Len(items) : items[i] \in Item
  BY ElementOfSeq
<1>2. \A i \in 1..Len(items) : Texting[items[i]] = items[i].text
  BY <1>1 DEF Texting
<1>3. Mapped(items, Texting) = [i \in 1..Len(items) |-> items[i].text]
  BY <1>2 DEF Mapped
<1>4. TextOf(items) = FlattenSeq(Mapped(items, Texting))
  BY <1>3 DEF TextOf
<1>5. Maps(Mapped(items, Texting), items, Texting, Characters)
  BY AnyTexting, MappedType
<1>6. QED
  BY <1>4, <1>5 DEF Maps

\* One more item.
LEMMA TextOfAppend ==
    ASSUME NEW items, items \in Seq(Item), NEW item \in Item
    PROVE  TextOf(Append(items, item)) = TextOf(items) \o item.text
<1> DEFINE more == Append(items, item)  n == Len(items)
<1>1. n \in Nat
  BY LenProperties
<1>2. more \in Seq(Item) /\ Len(more) = n + 1 /\ more[n + 1] = item /\ \A i \in 1..n : more[i] = items[i]
  BY AppendProperties
<1> HIDE DEF more
<1>3. n \in 0..Len(more) /\ n < Len(more)
  BY <1>1, <1>2
<1>4. SubSeq(more, 1, n + 1) = more
  BY <1>2, SubSeqFull
<1>5. SubSeq(more, 1, n) = items
  <2> DEFINE s == SubSeq(more, 1, n)
  <2>1. s \in Seq(Item) /\ Len(s) = n /\ \A i \in 1..n : s[i] = more[i]
    BY <1>2, <1>3, FirstFacts
  <2> HIDE DEF s
  <2>2. \A i \in 1..Len(s) : s[i] = items[i]
    BY <1>2, <2>1
  <2>3. s = items
    BY <2>1, <2>2, SeqEqual
  <2>4. QED
    BY <2>3 DEF s
<1>6. Grows(more, n, Texting)
  BY <1>2, <1>3, AnyTexting, MappedGrows
<1>7. Texting[more[n + 1]] = item.text
  BY <1>2 DEF Texting
<1>8. FlattenSeq(Mapped(more, Texting)) = FlattenSeq(Mapped(items, Texting)) \o item.text
  BY <1>4, <1>5, <1>6, <1>7 DEF Grows
<1>9. QED
  BY <1>2, <1>8, TextOfIs DEF more

-----------------------------------------------------------------------------
\* A line is translated.

Legible(line) == line # <<>> /\ Tail(line) \in Seq(Characters)

\* What push sends for a line.
Out(line, done) ==
    CASE KindOf(line) = "message_start" -> <<Role>>
      [] KindOf(line) = "content_block_start" /\ Len(line) > 1 -> <<Content(Tail(line))>>
      [] KindOf(line) = "content_block_delta" -> <<Content(Tail(line))>>
      [] KindOf(line) = "message_delta" -> <<Finish>>
      [] KindOf(line) = "message_stop" /\ ~done -> <<DONE>>
      [] OTHER -> <<>>

LEMMA Items ==
    /\ Role \in Item /\ Role # DONE /\ Role.text = <<>>
    /\ Finish \in Item /\ Finish # DONE /\ Finish.text = <<>>
    /\ DONE \in Item /\ DONE.text = <<>>
    /\ \A chars \in Seq(Characters) :
         Content(chars) \in Item /\ Content(chars) # DONE /\ Content(chars).text = chars
<1> DEFINE none == <<>>
<1>1. none \in Seq(Characters)
  OBVIOUS
<1>2. Role = [kind |-> "role", text |-> none] /\ Finish = [kind |-> "finish", text |-> none]
      /\ DONE = [kind |-> "[DONE]", text |-> none]
  BY DEF Role, Finish, DONE
<1>a. none = <<>>
  OBVIOUS
<1> HIDE DEF none
<1>3. Role \in Item /\ Finish \in Item /\ DONE \in Item
  BY <1>1, <1>2 DEF Item
<1>4. /\ Role.kind = "role" /\ Role.text = none /\ Finish.kind = "finish" /\ Finish.text = none
      /\ DONE.kind = "[DONE]" /\ DONE.text = none
  BY <1>2
<1>5. \A chars \in Seq(Characters) :
         Content(chars) \in Item /\ Content(chars).kind = "content" /\ Content(chars).text = chars
  BY DEF Content, Item
<1>6. Role # DONE /\ Finish # DONE
  BY <1>4
<1>7. QED
  BY <1>3, <1>4, <1>5, <1>6, <1>a

\* It sends one item or none.
LEMMA OutIs ==
    ASSUME NEW line, Legible(line), NEW done \in BOOLEAN
    PROVE  /\ KindOf(line) = "message_stop" =>
                Out(line, done) = IF done THEN <<>> ELSE <<DONE>>
           /\ KindOf(line) # "message_stop" =>
                \/ /\ Out(line, done) = <<>>
                   /\ KindOf(line) = "content_block_delta" => FALSE
                   /\ KindOf(line) = "content_block_start" => ~(Len(line) > 1)
                \/ \E item \in Item :
                     /\ Out(line, done) = <<item>> /\ item # DONE
                     /\ item.text = IF KindOf(line) \in {"content_block_start", "content_block_delta"}
                                      THEN Tail(line) ELSE <<>>
<1> DEFINE k == KindOf(line)  read == Tail(line)  n == Len(line)
<1>1. read \in Seq(Characters)
  BY DEF Legible
<1>2. Out(line, done) = CASE k = "message_start" -> <<Role>>
                          [] k = "content_block_start" /\ n > 1 -> <<Content(read)>>
                          [] k = "content_block_delta" -> <<Content(read)>>
                          [] k = "message_delta" -> <<Finish>>
                          [] k = "message_stop" /\ ~done -> <<DONE>>
                          [] OTHER -> <<>>
  BY DEF Out
<1> HIDE DEF k, read, n
<1>3. CASE k = "message_stop"
  BY <1>2, <1>3 DEF k
<1>4. CASE k = "message_start"
  <2>1. Out(line, done) = <<Role>>
    BY <1>2, <1>4
  <2>2. QED
    BY <1>4, <2>1, Items DEF k
<1>5. CASE k = "message_delta"
  <2>1. Out(line, done) = <<Finish>>
    BY <1>2, <1>5
  <2>2. QED
    BY <1>5, <2>1, Items DEF k
<1>6. CASE k = "content_block_delta" \/ (k = "content_block_start" /\ n > 1)
  <2>1. Out(line, done) = <<Content(read)>>
    BY <1>2, <1>6
  <2>2. QED
    BY <1>1, <1>6, <2>1, Items DEF k, read
<1>7. CASE /\ k \notin {"message_start", "message_delta", "message_stop", "content_block_delta"}
           /\ ~(k = "content_block_start" /\ n > 1)
  <2>1. Out(line, done) = <<>>
    BY <1>2, <1>7
  <2>2. QED
    BY <1>7, <2>1 DEF k, n
<1>8. QED
  BY <1>3, <1>4, <1>5, <1>6, <1>7

TransType == [out : Seq(Item), done_sent : BOOLEAN]

LEMMA AbsorbIs ==
    ASSUME NEW t \in TransType, NEW line, Legible(line)
    PROVE  /\ Absorb(t, line) \in TransType
           /\ Absorb(t, line).out = t.out \o Out(line, t.done_sent)
           /\ Absorb(t, line).done_sent = (t.done_sent \/ KindOf(line) = "message_stop")
           /\ Out(line, t.done_sent) \in Seq(Item)
<1> DEFINE out == Out(line, t.done_sent)  done == t.done_sent \/ KindOf(line) = "message_stop"
           all == t.out \o out
<1>1. t.out \in Seq(Item) /\ t.done_sent \in BOOLEAN
  BY DEF TransType
<1>2. out \in Seq(Item)
  <2>1. out = <<>> \/ out = <<DONE>> \/ \E item \in Item : out = <<item>>
    BY <1>1, OutIs
  <2>2. \A item \in Item : <<item>> \in Seq(Item)
    OBVIOUS
  <2>3. <<>> \in Seq(Item)
    OBVIOUS
  <2>4. QED
    BY <2>1, <2>2, <2>3, Items
<1>3. Absorb(t, line) = [out |-> all, done_sent |-> done]
  BY DEF Absorb, Out
<1>4. all \in Seq(Item) /\ done \in BOOLEAN
  BY <1>1, <1>2, ConcatProperties
<1> HIDE DEF all, done, out
<1>5. Absorb(t, line) \in TransType /\ Absorb(t, line).out = all /\ Absorb(t, line).done_sent = done
  BY <1>3, <1>4 DEF TransType
<1>6. QED
  BY <1>2, <1>5 DEF all, done, out

\* t is the translator after every beginning of the lines.
Absorbs(f, t, lines) ==
    /\ f \in [0..Len(lines) -> TransType]
    /\ f[0] = t
    /\ \A n \in 1..Len(lines) : f[n] = Absorb(f[n - 1], lines[n])

LEMMA AbsorbsExists ==
    ASSUME NEW t \in TransType, NEW lines, Len(lines) \in Nat,
           \A n \in 1..Len(lines) : Legible(lines[n])
    PROVE  \E f : Absorbs(f, t, lines)
<1> DEFINE N == Len(lines)
           step == [x \in (1..N) \X TransType |-> Absorb(x[2], lines[x[1]])]
<1>1. N \in Nat /\ \A n \in 1..N : Legible(lines[n])
  OBVIOUS
<1>2. step \in [(1..N) \X TransType -> TransType]
  BY <1>1, AbsorbIs
<1>3. \A n \in 1..N, v \in TransType : step[<<n, v>>] = Absorb(v, lines[n])
  OBVIOUS
<1> HIDE DEF N, step
<1>4. PICK f : Recurses(f, t, step, N, TransType)
  BY <1>1, <1>2, Recursion
<1>5. /\ f \in [0..N -> TransType] /\ f[0] = t
      /\ \A n \in 1..N : f[n] = step[<<n, f[n - 1]>>]
  BY <1>4 DEF Recurses
<1>6. \A n \in 1..N : n - 1 \in 0..N
  BY <1>1
<1>7. \A n \in 1..N : f[n] = Absorb(f[n - 1], lines[n])
  BY <1>3, <1>5, <1>6
<1>8. QED
  BY <1>5, <1>7 DEF Absorbs, N

LEMMA AbsorbedIs ==
    ASSUME NEW t \in TransType, NEW lines, Len(lines) \in Nat, NEW f, Absorbs(f, t, lines)
    PROVE  Absorbed(t, lines) = f[Len(lines)]
<1> DEFINE N == Len(lines)
           Eq(g) == g = [n \in 0..N |-> IF n = 0 THEN t ELSE Absorb(g[n - 1], lines[n])]
           after == CHOOSE g : Eq(g)
<1>1. N \in Nat
  OBVIOUS
<1>2. /\ f \in [0..N -> TransType] /\ f[0] = t
      /\ \A n \in 1..N : f[n] = Absorb(f[n - 1], lines[n])
  BY DEF Absorbs
<1>3. Eq(f)
  <2> DEFINE g == [n \in 0..N |-> IF n = 0 THEN t ELSE Absorb(f[n - 1], lines[n])]
  <2>1. \A n \in 0..N : n = 0 \/ n \in 1..N
    BY <1>1
  <2>2. \A n \in 0..N : f[n] = g[n]
    BY <1>2, <2>1
  <2>3. f = [n \in 0..N |-> f[n]]
    BY <1>2
  <2>4. QED
    BY <2>2, <2>3
<1>4. Eq(after)
  BY <1>3
<1>5. Absorbed(t, lines) = after[N]
  BY DEF Absorbed
<1> DEFINE T == {n \in 0..N : after[n] = f[n]}
<1>6. \A n \in 0..N : after[n] = IF n = 0 THEN t ELSE Absorb(after[n - 1], lines[n])
  <2> HIDE DEF after
  <2>1. QED
    BY <1>4
<1> HIDE DEF after
<1>7. 0 \in T
  BY <1>1, <1>2, <1>6
<1>8. \A n \in 0..N : n \in T /\ n < N => n + 1 \in T
  <2>1. SUFFICES ASSUME NEW n \in 0..N, n \in T, n < N PROVE after[n + 1] = f[n + 1] /\ n + 1 \in 0..N
    OBVIOUS
  <2>2. n + 1 \in 0..N /\ n + 1 \in 1..N /\ n + 1 # 0 /\ (n + 1) - 1 = n
    BY <1>1, <2>1
  <2>3. after[n + 1] = Absorb(after[n], lines[n + 1])
    BY <1>6, <2>2
  <2>4. f[n + 1] = Absorb(f[n], lines[n + 1])
    BY <1>2, <2>2
  <2>5. QED
    BY <2>1, <2>2, <2>3, <2>4
<1> HIDE DEF T
<1>9. N \in T
  <2>1. \A n \in 0..N : n \in T
    BY <1>1, <1>7, <1>8, UpTo
  <2>2. QED
    BY <1>1, <2>1
<1>10. QED
  BY <1>5, <1>9 DEF T

-----------------------------------------------------------------------------
\* What has been sent stays what the events come to.

\* [DONE] is among the items, and only once.
Dones(items, done) ==
    /\ done <=> \E i \in DOMAIN items : items[i] = DONE
    /\ \A i, j \in DOMAIN items : items[i] = DONE /\ items[j] = DONE => i = j

LEMMA DonesAppend ==
    ASSUME NEW items, items \in Seq(Item), NEW done \in BOOLEAN, Dones(items, done), NEW item \in Item
    PROVE  /\ item # DONE => Dones(Append(items, item), done)
           /\ item = DONE /\ ~done => Dones(Append(items, item), TRUE)
<1> DEFINE more == Append(items, item)  n == Len(items)
<1>1. n \in Nat /\ DOMAIN items = 1..n
  BY LenProperties
<1>2. more \in Seq(Item) /\ Len(more) = n + 1 /\ more[n + 1] = item /\ \A i \in 1..n : more[i] = items[i]
  BY AppendProperties
<1> HIDE DEF more
<1>3. DOMAIN more = 1..(n + 1)
  BY <1>2, LenProperties
<1>4. \A i : i \in 1..(n + 1) <=> i \in 1..n \/ i = n + 1
  BY <1>1
<1>5. /\ done <=> \E i \in 1..n : items[i] = DONE
      /\ \A i, j \in 1..n : items[i] = DONE /\ items[j] = DONE => i = j
  BY <1>1 DEF Dones
<1> HIDE DEF n
<1>6. ASSUME item # DONE PROVE Dones(more, done)
  <2>1. (\E i \in DOMAIN more : more[i] = DONE) <=> (\E i \in 1..n : items[i] = DONE)
    BY <1>2, <1>3, <1>4, <1>6
  <2>2. ASSUME NEW i \in DOMAIN more, NEW j \in DOMAIN more, more[i] = DONE, more[j] = DONE
        PROVE  i = j
    BY <1>2, <1>3, <1>4, <1>5, <1>6, <2>2
  <2>3. QED
    BY <1>5, <2>1, <2>2 DEF Dones
<1>7. ASSUME item = DONE, ~done PROVE Dones(more, TRUE)
  <2>1. \A i \in 1..n : items[i] # DONE
    BY <1>5, <1>7
  <2>2. \A i \in DOMAIN more : more[i] = DONE => i = n + 1
    BY <1>2, <1>3, <1>4, <2>1
  <2>3. n + 1 \in DOMAIN more /\ more[n + 1] = DONE
    BY <1>2, <1>3, <1>4, <1>7
  <2>4. QED
    BY <2>2, <2>3 DEF Dones
<1>8. QED
  BY <1>6, <1>7 DEF more

Good(items, done, c, cut) == Translated(items, done, c, cut) /\ (done => Stopped(c))

LEMMA TranslatedIs ==
    ASSUME NEW items, NEW done, NEW c, NEW cut
    PROVE  Translated(items, done, c, cut) <=>
             /\ items \in Seq(Item) /\ done \in BOOLEAN /\ Dones(items, done)
             /\ ~cut => TextOf(items) = Carried(SubSeq(answer, 1, c))
BY DEF Translated, Dones

LEMMA LineTranslated ==
    ASSUME answer \in Seq(Event), NEW c \in 0..Len(answer), c < Len(answer), NEW cut,
           NEW items, NEW done, Good(items, done, c, cut), NEW line, Legible(line),
           KindOf(line) = answer[c + 1].kind, Same(Tail(line), answer[c + 1].text, cut),
           Len(line) = Len(Tail(line)) + 1
    PROVE  Good(items \o Out(line, done), done \/ KindOf(line) = "message_stop", c + 1, cut)
<1> DEFINE e == answer[c + 1]  k == e.kind  out == Out(line, done)  now == items \o out
           seen == Carried(SubSeq(answer, 1, c))  next == Carried(SubSeq(answer, 1, c + 1))
           stop == done \/ k = "message_stop"
<1>1. c + 1 \in 1..Len(answer) /\ c \in Nat
  BY LenProperties
<1>2. e \in Event /\ e.text \in Seq(Alphabet)
  BY <1>1, ElementOfSeq, AnEvent
<1>3. /\ items \in Seq(Item) /\ done \in BOOLEAN /\ Dones(items, done)
      /\ ~cut => TextOf(items) = seen
      /\ done => Stopped(c)
  BY TranslatedIs DEF Good
<1>4. seen \in Seq(Alphabet) /\ next = seen \o CarriedBy(e)
  BY CarriedSteps
<1>5. Stopped(c) \/ k = "message_stop" => Stopped(c + 1)
  <2>1. \A i \in 1..c : i \in 1..(c + 1)
    BY <1>1
  <2>2. c + 1 \in 1..(c + 1)
    BY <1>1
  <2>3. QED
    BY <2>1, <2>2 DEF Stopped
<1>6. ~cut => Tail(line) = e.text
  BY DEF Same
<1>7. /\ k = "message_stop" => out = IF done THEN <<>> ELSE <<DONE>>
      /\ k # "message_stop" =>
             \/ /\ out = <<>> /\ k # "content_block_delta"
                /\ k = "content_block_start" => ~(Len(line) > 1)
             \/ \E item \in Item :
                  /\ out = <<item>> /\ item # DONE
                  /\ item.text = IF k \in {"content_block_start", "content_block_delta"}
                                   THEN Tail(line) ELSE <<>>
  BY <1>3, OutIs
<1>8. items \o <<>> = items /\ seen \o <<>> = seen
  BY <1>3, <1>4, ConcatEmptySeq
<1>9. \A item \in Item : items \o <<item>> = Append(items, item)
  BY <1>3, AppendIsConcat
<1>10. \A item \in Item : Append(items, item) \in Seq(Item)
  BY <1>3
<1>11. stop \in BOOLEAN /\ (stop => Stopped(c + 1))
  BY <1>3, <1>5
<1> HIDE DEF out, seen, next
<1>12. CASE k = "message_stop" /\ ~done
  <2>1. out = <<DONE>> /\ DONE \in Item /\ DONE.text = <<>>
    BY <1>7, <1>12, Items
  <2>2. now = Append(items, DONE) /\ now \in Seq(Item)
    BY <1>9, <1>10, <2>1
  <2>3. Dones(now, TRUE)
    BY <1>3, <1>12, <2>1, <2>2, DonesAppend
  <2>4. TextOf(now) = TextOf(items)
    <3>1. TextOf(now) = TextOf(items) \o <<>>
      BY <1>3, <2>1, <2>2, TextOfAppend
    <3>2. QED
      BY <1>3, <3>1, TextOfIs, ConcatEmptySeq
  <2>5. next = seen
    BY <1>4, <1>8, <1>12 DEF CarriedBy
  <2>6. stop = TRUE
    BY <1>12
  <2>7. Translated(now, stop, c + 1, cut)
    BY <1>3, <2>2, <2>3, <2>4, <2>5, <2>6, TranslatedIs DEF seen, next
  <2>8. QED
    BY <1>11, <2>7 DEF Good, out
<1>13. CASE \/ k = "message_stop" /\ done
            \/ /\ k # "message_stop" /\ out = <<>> /\ k # "content_block_delta"
               /\ k = "content_block_start" => ~(Len(line) > 1)
  <2>1. now = items /\ stop = done
    BY <1>3, <1>7, <1>8, <1>13
  <2>2. ~cut => next = seen
    <3>1. CASE k # "content_block_start"
      BY <1>4, <1>8, <1>13, <3>1 DEF CarriedBy
    <3>2. CASE k = "content_block_start"
      <4>1. ASSUME ~cut PROVE e.text = <<>>
        <5>1. Len(e.text) \in Nat /\ ~(Len(e.text) + 1 > 1)
          BY <1>2, <1>6, <1>13, <3>2, <4>1, LenProperties
        <5>2. Len(e.text) = 0
          BY <5>1
        <5>3. QED
          BY <1>2, <5>2, EmptySeq
      <4>2. QED
        BY <1>4, <1>8, <3>2, <4>1 DEF CarriedBy
    <3>3. QED
      BY <3>1, <3>2
  <2>3. Translated(now, stop, c + 1, cut)
    BY <1>3, <2>1, <2>2, TranslatedIs DEF seen, next
  <2>4. QED
    BY <1>11, <2>3 DEF Good, out
<1>14. ASSUME k # "message_stop", NEW item \in Item, out = <<item>>, item # DONE,
              item.text = IF k \in {"content_block_start", "content_block_delta"}
                            THEN Tail(line) ELSE <<>>
       PROVE  Good(now, stop, c + 1, cut)
  <2>1. now = Append(items, item) /\ now \in Seq(Item) /\ stop = done
    BY <1>3, <1>9, <1>10, <1>14
  <2>2. Dones(now, done)
    BY <1>3, <1>14, <2>1, DonesAppend
  <2>3. ~cut => TextOf(now) = next
    <3>1. TextOf(now) = TextOf(items) \o item.text
      BY <1>3, <2>1, TextOfAppend
    <3>2. ~cut => item.text = CarriedBy(e)
      BY <1>6, <1>14 DEF CarriedBy
    <3>3. QED
      BY <1>3, <1>4, <3>1, <3>2
  <2>4. Translated(now, stop, c + 1, cut)
    BY <1>3, <2>1, <2>2, <2>3, TranslatedIs DEF next
  <2>5. QED
    BY <1>11, <2>4 DEF Good
<1>15. QED
  BY <1>3, <1>7, <1>12, <1>13, <1>14 DEF out

LEMMA TranslatedMore ==
    ASSUME NEW items, NEW done, NEW c, NEW cut, NEW more, cut => more, Good(items, done, c, cut)
    PROVE  Good(items, done, c, more)
BY DEF Good, Translated

\* The lines that a chunk ends are translated, one after another.
LEMMA LinesTranslated ==
    ASSUME answer \in Seq(Event), NEW c \in 0..Len(answer), NEW cut,
           NEW items, NEW done, Good(items, done, c, cut),
           NEW lines, Len(lines) \in Nat, c + Len(lines) <= Len(answer), Told(answer, lines, c, cut),
           NEW after, after = Absorbed([out |-> <<>>, done_sent |-> done], lines)
    PROVE  Good(items \o after.out, after.done_sent, c + Len(lines), cut)
<1> DEFINE N == Len(lines)  none == <<>>  t == [out |-> none, done_sent |-> done]
<1>1. N \in Nat /\ Len(answer) \in Nat /\ c \in Nat
  BY LenProperties
<1>2. items \in Seq(Item) /\ done \in BOOLEAN
  BY DEF Good, Translated
<1>3. t \in TransType /\ t.out = <<>> /\ t.done_sent = done
  <2>1. none \in Seq(Item) /\ none = <<>>
    OBVIOUS
  <2> HIDE DEF none
  <2>2. QED
    BY <1>2, <2>1 DEF TransType
<1>4. after = Absorbed(t, lines)
  OBVIOUS
<1> HIDE DEF t
<1>5. ASSUME NEW n \in 1..N
      PROVE  /\ Legible(lines[n]) /\ KindOf(lines[n]) = answer[c + n].kind
             /\ Same(Tail(lines[n]), answer[c + n].text, cut)
             /\ Len(lines[n]) = Len(Tail(lines[n])) + 1
  <2> DEFINE line == lines[n]  read == Tail(line)
  <2>1. Tells(line, answer[c + n], cut)
    BY DEF Told
  <2>2. c + n \in 1..Len(answer)
    BY <1>1
  <2>3. answer[c + n] \in AnyEvent
    BY <2>2, ElementOfSeq, AnEvent
  <2>4. Reading(answer[c + n], line, read) /\ line # <<>>
    BY <2>1 DEF Tells, LineOf, Reading
  <2>5. KindOf(line) = answer[c + n].kind
    BY <2>3, <2>4, ReadingFacts
  <2>6. Len(line) = Len(read) + 1
    <3>1. read \in Seq(Symbol) /\ answer[c + n].kind \in Symbol /\ line = <<answer[c + n].kind>> \o read
      BY <2>3, <2>4, EventFacts, SymbolFacts, SeqMonotonic DEF Reading
    <3> HIDE DEF read, line
    <3>2. QED
      BY <3>1, ConsFacts
  <2>7. QED
    BY <2>1, <2>4, <2>5, <2>6 DEF Tells, Reading, Legible
<1>6. PICK f : Absorbs(f, t, lines)
  BY <1>3, <1>5, AbsorbsExists
<1>7. after = f[N]
  BY <1>3, <1>4, <1>6, AbsorbedIs
<1>8. /\ f \in [0..N -> TransType] /\ f[0] = t
      /\ \A n \in 1..N : f[n] = Absorb(f[n - 1], lines[n])
  BY <1>6 DEF Absorbs
<1> DEFINE T == {n \in 0..N : Good(items \o f[n].out, f[n].done_sent, c + n, cut)}
<1>9. 0 \in T
  <2>1. items \o <<>> = items /\ c + 0 = c
    BY <1>1, <1>2, ConcatEmptySeq
  <2>2. Good(items \o f[0].out, f[0].done_sent, c + 0, cut)
    BY <1>3, <1>8, <2>1
  <2>3. QED
    BY <1>1, <2>2
<1>10. \A n \in 0..N : n \in T /\ n < N => n + 1 \in T
  <2>1. SUFFICES ASSUME NEW n \in 0..N, n \in T, n < N PROVE n + 1 \in T
    OBVIOUS
  <2> DEFINE u == f[n]  v == f[n + 1]  line == lines[n + 1]  out == Out(line, u.done_sent)
  <2>2. /\ n + 1 \in 0..N /\ n + 1 \in 1..N /\ (n + 1) - 1 = n
        /\ c + n \in 0..Len(answer) /\ c + n < Len(answer) /\ (c + n) + 1 = c + (n + 1)
    BY <1>1, <2>1
  <2>3. u \in TransType /\ v = Absorb(u, line) /\ Good(items \o u.out, u.done_sent, c + n, cut)
    BY <1>8, <2>1, <2>2
  <2>4. /\ Legible(line) /\ KindOf(line) = answer[(c + n) + 1].kind
        /\ Same(Tail(line), answer[(c + n) + 1].text, cut) /\ Len(line) = Len(Tail(line)) + 1
    BY <1>5, <2>2
  <2> HIDE DEF u, v, line
  <2>5. Good((items \o u.out) \o out, u.done_sent \/ KindOf(line) = "message_stop", (c + n) + 1, cut)
    BY <2>2, <2>3, <2>4, LineTranslated
  <2>6. /\ v.out = u.out \o out /\ v.done_sent = (u.done_sent \/ KindOf(line) = "message_stop")
        /\ out \in Seq(Item) /\ u.out \in Seq(Item)
    BY <2>3, <2>4, AbsorbIs DEF TransType
  <2> HIDE DEF out
  <2>7. (items \o u.out) \o out = items \o v.out
    <3> DEFINE a == u.out
    <3>1. Associative(Item)
      BY Associativity
    <3>2. a \in Seq(Item) /\ v.out = a \o out
      BY <2>6
    <3> HIDE DEF a
    <3>3. (items \o a) \o out = items \o (a \o out)
      BY <1>2, <2>6, <3>1, <3>2 DEF Associative
    <3>4. (items \o a) \o out = items \o v.out
      BY <3>2, <3>3
    <3>5. QED
      BY <3>4 DEF a
  <2>8. Good(items \o v.out, v.done_sent, c + (n + 1), cut)
    BY <2>2, <2>5, <2>6, <2>7
  <2>9. QED
    BY <2>2, <2>8 DEF v
<1> HIDE DEF T
<1>11. N \in T
  <2>1. \A n \in 0..N : n \in T
    BY <1>1, <1>9, <1>10, UpTo
  <2>2. QED
    BY <1>1, <2>1
<1>12. QED
  BY <1>7, <1>11 DEF T

-----------------------------------------------------------------------------
\* The last line of an answer may lack its newline.

LEMMA EncodeEnds ==
    ASSUME NEW events, events \in Seq(AnyEvent), events # <<>>
    PROVE  /\ Front(Encode(events)) \in Seq(Symbol)
           /\ Front(Encode(events)) \o <<"eol">> = Encode(events)
<1> DEFINE N == Len(events)  c == N - 1  e == events[c + 1]
           head == FlattenSeq(Mapped(SubSeq(events, 1, c), Lining))
           text == Bytes(e.text)  line == <<e.kind>> \o text  last == <<"eol">>
           x == head \o line  all == Append(x, "eol")
<1>1. N \in Nat /\ N # 0
  BY LenProperties, EmptySeq
<1>2. c \in 0..N /\ c < N /\ c + 1 = N /\ N \in 1..N
  BY <1>1
<1>3. e \in AnyEvent
  BY <1>2, ElementOfSeq
<1>4. e.kind \in Symbol /\ text \in Seq(Symbol)
  BY <1>3, EventFacts, BytesIs, SymbolFacts
<1>5. line \in Seq(Symbol) /\ last \in Seq(Symbol)
  <2>1. last \in Seq(Symbol)
    BY SymbolFacts
  <2> HIDE DEF text, last
  <2>2. line \in Seq(Symbol)
    BY <1>4, ConsFacts
  <2>3. QED
    BY <2>1, <2>2
<1>6. Lining[e] = line \o last
  <2>1. Lining[e] = Line(e)
    BY <1>3 DEF Lining
  <2>2. Line(e) = (<<e.kind>> \o text) \o last
    BY DEF Line
  <2>3. QED
    BY <2>1, <2>2
<1>7. head \in Seq(Symbol)
  <2>1. SubSeq(events, 1, c) \in Seq(AnyEvent)
    BY <1>2, FirstFacts
  <2>2. Maps(Mapped(SubSeq(events, 1, c), Lining), SubSeq(events, 1, c), Lining, Symbol)
    BY <2>1, AnyLining, MappedType
  <2>3. QED
    BY <2>2 DEF Maps
<1>8. Grows(events, c, Lining)
  BY <1>2, AnyLining, MappedGrows
<1>9. SubSeq(events, 1, c + 1) = events
  BY <1>2, SubSeqFull
<1>10. FlattenSeq(Mapped(events, Lining)) = head \o (line \o last)
  BY <1>6, <1>8, <1>9 DEF Grows
<1> HIDE DEF head, line, N, c, e
<1>11. Associative(Symbol)
  BY Associativity
<1>12. (head \o line) \o last = head \o (line \o last)
  BY <1>5, <1>7, <1>11 DEF Associative
<1>13. x \in Seq(Symbol)
  BY <1>5, <1>7, ConcatProperties
<1>14. Encode(events) = x \o last
  BY <1>10, <1>12, EncodeIs
<1> HIDE DEF x
<1>15. x \o <<"eol">> = Append(x, "eol")
  BY <1>13, SymbolFacts, AppendIsConcat
<1>16. Front(Append(x, "eol")) = x
  <2> DEFINE n == Len(x)  f == SubSeq(all, 1, n)
  <2>1. /\ n \in Nat /\ all \in Seq(Symbol) /\ Len(all) = n + 1 /\ \A i \in 1..n : all[i] = x[i]
    BY <1>13, SymbolFacts, AppendProperties, LenProperties
  <2>2. Front(all) = SubSeq(all, 1, Len(all) - 1)
    BY DEF Front
  <2> HIDE DEF all
  <2>3. Front(all) = f
    BY <2>1, <2>2
  <2>4. n \in 0..Len(all)
    BY <2>1
  <2>5. f \in Seq(Symbol) /\ Len(f) = n /\ \A i \in 1..n : f[i] = all[i]
    BY <2>1, <2>4, FirstFacts
  <2> HIDE DEF f
  <2>6. \A i \in 1..Len(f) : f[i] = x[i]
    BY <2>1, <2>5
  <2>7. f = x
    BY <1>13, <2>5, <2>6, SeqEqual
  <2>8. QED
    BY <2>3, <2>7 DEF all
<1>17. QED
  BY <1>13, <1>14, <1>15, <1>16

LEMMA ConcatReads ==
    ASSUME NEW S, NEW s \in Seq(S), NEW t \in Seq(S), NEW n \in 1..Len(s)
    PROVE  /\ s \o t \in Seq(S) /\ n \in 1..Len(s \o t) /\ (s \o t)[n] = s[n]
           /\ SubSeq(s \o t, 1, n) = SubSeq(s, 1, n)
           /\ From(s \o t, n) = From(s, n) \o t
<1> DEFINE x == s \o t  N == Len(s)  M == Len(t)
           a == SubSeq(x, 1, n)  b == SubSeq(s, 1, n)
           f == From(x, n)  h == From(s, n)  g == h \o t
<1>1. N \in Nat /\ M \in Nat /\ n \in 1..N
  BY LenProperties
<1>2. /\ x \in Seq(S) /\ Len(x) = N + M
      /\ \A i \in 1..(N + M) : x[i] = IF i <= N THEN s[i] ELSE t[i - N]
  BY ConcatProperties
<1> HIDE DEF x
<1>3. n \in 1..Len(x) /\ n \in 0..Len(x) /\ n \in 0..N
  BY <1>1, <1>2
<1>4. x[n] = s[n]
  <2>1. n \in 1..(N + M) /\ n <= N
    BY <1>1
  <2>2. QED
    BY <1>2, <2>1
<1>5. a = b
  <2>1. a \in Seq(S) /\ Len(a) = n /\ \A i \in 1..n : a[i] = x[i]
    BY <1>2, <1>3, FirstFacts
  <2>2. b \in Seq(S) /\ Len(b) = n /\ \A i \in 1..n : b[i] = s[i]
    BY <1>3, FirstFacts
  <2>3. \A i \in 1..n : i \in 1..(N + M) /\ i <= N
    BY <1>1
  <2> HIDE DEF a, b, N, M
  <2>4. \A i \in 1..Len(a) : a[i] = b[i]
    BY <1>2, <2>1, <2>2, <2>3
  <2>5. QED
    BY <2>1, <2>2, <2>4, SeqEqual
<1>6. f = g
  <2>1. f \in Seq(S) /\ Len(f) = Len(x) - n /\ \A i \in 1..(Len(x) - n) : f[i] = x[n + i]
    BY <1>2, <1>3, FromFacts
  <2>2. h \in Seq(S) /\ Len(h) = N - n /\ \A i \in 1..(N - n) : h[i] = s[n + i]
    BY <1>3, FromFacts
  <2> HIDE DEF f, h
  <2>3. /\ g \in Seq(S) /\ Len(g) = Len(h) + M
        /\ \A i \in 1..(Len(h) + M) : g[i] = IF i <= Len(h) THEN h[i] ELSE t[i - Len(h)]
    BY <2>2, ConcatProperties
  <2> HIDE DEF g, N, M
  <2>4. /\ Len(f) = (N + M) - n /\ Len(g) = (N - n) + M /\ (N + M) - n = (N - n) + M
    BY <1>1, <1>2, <2>1, <2>2, <2>3
  <2>5. ASSUME NEW i \in 1..Len(f) PROVE f[i] = g[i]
    <3>1. /\ i \in Nat /\ i \in 1..((N - n) + M) /\ n + i \in 1..(N + M)
          /\ (n + i) - N = i - (N - n) /\ (n + i <= N <=> i <= N - n)
      BY <1>1, <2>4
    <3>2. f[i] = IF n + i <= N THEN s[n + i] ELSE t[(n + i) - N]
      BY <1>2, <2>1, <3>1
    <3>3. g[i] = IF i <= N - n THEN h[i] ELSE t[i - (N - n)]
      BY <2>2, <2>3, <3>1
    <3>4. i <= N - n => h[i] = s[n + i]
      <4>1. i <= N - n => i \in 1..(N - n)
        BY <1>1, <3>1
      <4>2. QED
        BY <2>2, <4>1
    <3>5. QED
      BY <3>1, <3>2, <3>3, <3>4
  <2>6. QED
    BY <2>1, <2>3, <2>4, <2>5, SeqEqual
<1>7. QED
  BY <1>2, <1>3, <1>4, <1>5, <1>6 DEF x

-----------------------------------------------------------------------------
\* IInv is inductive.

LEMMA Missing ==
    ASSUME NEW missing, missing \in {<<>>, <<"eol">>}
    PROVE  missing \in Seq(Symbol)
<1>1. <<>> \in Seq(Symbol)
  OBVIOUS
<1>2. <<"eol">> \in Seq(Symbol)
  BY SymbolFacts
<1>3. QED
  BY <1>1, <1>2

LEMMA InitKeeps ==
    ASSUME Init
    PROVE  IInv
<1> DEFINE none == <<>>
<1>0. none = <<>>
  OBVIOUS
<1> HIDE DEF none
<1>1. /\ answer \in Streams /\ pending = none /\ done_sent = FALSE /\ sent = none
      /\ body = "open" /\ arrived = 0 /\ split = FALSE
  BY <1>0 DEF Init
<1>2. answer \in Seq(Event) /\ answer \in Seq(AnyEvent) /\ Len(answer) \in Nat
  BY <1>1, StreamAssumption, EventsAny, LenProperties
<1>3. Encode(answer) \in Seq(Symbol)
  BY <1>2, EncodeIs
<1>4. PICK missing \in {<<>>, <<"eol">>} :
          rest \in Seq(Symbol) /\ rest \o missing = Encode(answer)
  <2>1. PICK terminated \in BOOLEAN : rest = Upstream(answer, terminated \/ answer = <<>>)
    BY DEF Init
  <2>2. CASE terminated \/ answer = <<>>
    <3>1. rest = Encode(answer)
      BY <2>1, <2>2 DEF Upstream
    <3>2. rest \o <<>> = Encode(answer)
      BY <1>3, <3>1, ConcatEmptySeq
    <3>3. QED
      BY <1>3, <3>1, <3>2
  <2>3. CASE ~(terminated \/ answer = <<>>)
    <3>1. rest = Front(Encode(answer))
      BY <2>1, <2>3 DEF Upstream
    <3>2. QED
      BY <1>2, <2>3, <3>1, EncodeEnds
  <2>4. QED
    BY <2>2, <2>3
<1>5. From(answer, 0) = answer
  <2>1. SubSeq(answer, 0 + 1, Len(answer)) = SubSeq(answer, 1, Len(answer))
    OBVIOUS
  <2>2. QED
    BY <1>2, <2>1, SubSeqFull DEF From
<1>6. ReadOK
  <2>1. Stands(answer, pending, rest \o missing, arrived, split, TRUE)
    BY <1>0, <1>1, <1>4, <1>5 DEF Stands
  <2>2. QED
    BY <2>1 DEF ReadOK
<1>7. 0 \in 0..Len(answer)
  BY <1>2
<1>8. none \in Seq(Item) /\ Len(none) = 0 /\ DOMAIN none = {} /\ TextOf(none) = <<>>
  <2>1. none \in Seq(Item) /\ Len(none) = 0 /\ DOMAIN none = {}
    BY <1>0
  <2>2. QED
    BY <1>0, <2>1, TextOfIs
<1>9. Carried(SubSeq(answer, 1, 0)) = <<>>
  <2>1. SubSeq(answer, 1, 0) \in Seq(Event) /\ Len(SubSeq(answer, 1, 0)) = 0
    BY <1>2, <1>7, FirstFacts
  <2>2. SubSeq(answer, 1, 0) = <<>>
    BY <2>1, EmptySeq
  <2>3. QED
    BY <2>1, <2>2, CarriedIs
<1>10. Translated(sent, done_sent, arrived, split)
  BY <1>1, <1>8, <1>9 DEF Translated
<1>11. TypeOK
  <2>1. "eol" \notin ToSet(pending)
    BY <1>1, <1>8 DEF ToSet
  <2>2. QED
    BY <1>1, <1>7, <1>8, <2>1 DEF TypeOK
<1>12. QED
  BY <1>1, <1>2, <1>4, <1>6, <1>10, <1>11 DEF IInv

\* What is to come is standing for the invariant.
LEMMA KeptNow ==
    ASSUME answer' \in Seq(Event), rest' \in Seq(Symbol), split' \in BOOLEAN, ReadOK',
           pending' \in Seq(Symbol), "eol" \notin ToSet(pending)', body' \in {"open", "ended", "broken"},
           arrived' \in 0..Len(answer'), Translated(sent, done_sent, arrived, split)',
           (done_sent /\ body # "ended" => Stopped(arrived))', (body = "ended" => done_sent)'
    PROVE  IInv'
<1>1. sent' \in Seq(Item) /\ done_sent' \in BOOLEAN
  BY DEF Translated
<1>2. \A i \in DOMAIN sent' : sent'[i].kind \in {"role", "content", "finish", "[DONE]"}
  <2>1. \A i \in 1..Len(sent') : sent'[i] \in Item
    BY <1>1, ElementOfSeq
  <2>2. QED
    BY <1>1, <2>1, AnItem, LenProperties
<1>3. TypeOK'
  BY <1>1, <1>2 DEF TypeOK
<1>4. QED
  BY <1>3 DEF IInv

LEMMA PushKeeps ==
    ASSUME IInv, body = "open", NEW n \in 1..MaxChunk, n <= Len(rest), Push(n)
    PROVE  IInv'
<1> DEFINE none == <<>>
           chunk == SubSeq(rest, 1, n)
           drained == Drained(pending, chunk)
           t == Absorbed([out |-> <<>>, done_sent |-> done_sent], drained.lines)
           cut == split \/ EndsInside(chunk)
<1>1. /\ answer \in Seq(Event) /\ answer \in Seq(AnyEvent) /\ rest \in Seq(Symbol)
      /\ split \in BOOLEAN /\ ReadOK /\ arrived \in 0..Len(answer) /\ Len(answer) \in Nat
      /\ Good(sent, done_sent, arrived, split) /\ done_sent \in BOOLEAN
  BY EventsAny, LenProperties DEF IInv, TypeOK, Good
<1>2. PICK missing \in {<<>>, <<"eol">>} :
          Stands(answer, pending, rest \o missing, arrived, split, TRUE)
  BY <1>1 DEF ReadOK
<1> DEFINE left == rest \o missing
<1>3. n \in 1..Len(rest) /\ n \in 0..Len(rest) /\ Len(rest) \in Nat
  <2>1. n \in Nat \ {0} /\ Len(rest) \in Nat
    BY <1>1, ChunkAssumption, LenProperties
  <2>2. QED
    BY <2>1
<1>4. chunk \in Seq(Symbol) /\ Len(chunk) = n /\ \A i \in 1..n : chunk[i] = rest[i]
  BY <1>1, <1>3, FirstFacts
<1>5. /\ left \in Seq(Symbol) /\ n \in 1..Len(left) /\ left[n] = rest[n]
      /\ SubSeq(left, 1, n) = chunk /\ From(left, n) = From(rest, n) \o missing
  <2>1. missing \in Seq(Symbol) /\ left = rest \o missing
    BY Missing
  <2> HIDE DEF left, chunk
  <2>2. /\ left \in Seq(Symbol) /\ n \in 1..Len(left) /\ left[n] = rest[n]
        /\ SubSeq(left, 1, n) = SubSeq(rest, 1, n) /\ From(left, n) = From(rest, n) \o missing
    BY <1>1, <1>3, <2>1, ConcatReads
  <2>3. QED
    BY <2>2 DEF chunk
<1>6. (left[n] = "hi" => cut) /\ (split => cut)
  <2>1. n \in 1..n
    BY <1>3
  <2>2. QED
    BY <1>4, <1>5, <2>1 DEF EndsInside
<1>7. none \in Seq(Symbol) /\ Lines(none) = 0 /\ none = <<>>
  <2>1. none \in Seq(Symbol) /\ none = <<>>
    OBVIOUS
  <2> HIDE DEF none
  <2>2. QED
    BY <2>1, SymbolFacts, LinesSteps
<1>8. From(rest, n) \in Seq(Symbol)
  BY <1>1, <1>3, FromFacts
<1>9. /\ rest' = From(rest, n) /\ pending' = drained.pending /\ done_sent' = t.done_sent
      /\ sent' = sent \o t.out /\ arrived' = arrived + Lines(chunk) /\ split' = cut
      /\ answer' = answer /\ body' = body
  BY DEF Push, CarriedOver, From
<1>10. cut \in BOOLEAN
  BY <1>1 DEF EndsInside
<1> HIDE DEF none, cut, left
<1>11. Arrives(answer, drained, arrived, 0, none \o chunk, From(left, n), cut, TRUE)
  <2>1. Stands(answer, pending, left, arrived, split, TRUE)
    BY <1>2 DEF left
  <2>2. Arrives(answer, Drained(pending, SubSeq(left, 1, n)), arrived, Lines(none),
                none \o SubSeq(left, 1, n), From(left, n), cut, TRUE)
    BY <1>1, <1>5, <1>6, <1>7, <2>1, ChunkRead
  <2>3. QED
    BY <1>5, <1>7, <2>2
<1>12. PICK c \in 0..Len(answer) :
           /\ At(answer, drained, arrived, 0, none \o chunk, c, cut)
           /\ Stands(answer, drained.pending, From(left, n), c, cut, TRUE)
  BY <1>11 DEF Arrives
<1>13. none \o chunk = chunk
  BY <1>4, <1>7, ConcatEmptySeq
<1> DEFINE lines == drained.lines
<1>14. drained.pending \in Seq(Symbol) /\ "eol" \notin ToSet(drained.pending)
  BY <1>1, <1>12, StandsFacts
<1> HIDE DEF drained, chunk
<1>15. /\ Len(lines) \in Nat /\ c = arrived + Len(lines) /\ Lines(chunk) = Len(lines)
       /\ Told(answer, lines, arrived, cut)
  <2>1. /\ drained \in ReaderType /\ Counts(drained, arrived, 0, chunk, c)
        /\ Told(answer, drained.lines, arrived, cut)
    BY <1>12, <1>13 DEF At
  <2>2. drained.lines \in Seq(Seq(Symbol))
    BY <2>1 DEF ReaderType
  <2>3. Len(lines) \in Nat
    BY <2>2, LenProperties
  <2>4. QED
    BY <2>1, <2>3 DEF Counts
<1> HIDE DEF lines
<1>16. arrived' = c
  BY <1>9, <1>15
<1>17. Good(sent', done_sent', c, cut)
  <2>1. Good(sent, done_sent, arrived, cut)
    BY <1>1, <1>6, TranslatedMore
  <2>2. arrived + Len(lines) <= Len(answer)
    BY <1>1, <1>12, <1>15
  <2>3. t = Absorbed([out |-> <<>>, done_sent |-> done_sent], lines)
    BY DEF lines
  <2> HIDE DEF t
  <2>4. Good(sent \o t.out, t.done_sent, arrived + Len(lines), cut)
    BY <1>1, <1>15, <2>1, <2>2, <2>3, LinesTranslated
  <2>5. QED
    BY <1>9, <1>15, <2>4
<1> HIDE DEF t
<1>18. ReadOK'
  <2>1. Stands(answer, pending, rest \o missing, arrived, split, TRUE)'
    BY <1>5, <1>9, <1>12, <1>16
  <2>2. QED
    BY <2>1 DEF ReadOK
<1>19. Translated(sent, done_sent, arrived, split)' /\ (done_sent => Stopped(arrived))'
  BY <1>9, <1>16, <1>17 DEF Good, Translated, Stopped
<1>20. QED
  BY <1>1, <1>8, <1>9, <1>10, <1>14, <1>16, <1>18, <1>19, KeptNow

LEMMA BodyEnds ==
    ASSUME IInv, body = "open", body' \in {"open", "ended", "broken"},
           UNCHANGED <<answer, rest, pending, arrived, split>>,
           \/ UNCHANGED <<sent, done_sent>> /\ (body' = "ended" => done_sent)
           \/ body' = "ended" /\ ~done_sent /\ sent' = Append(sent, DONE) /\ done_sent' = TRUE
    PROVE  IInv'
<1>1. /\ answer' \in Seq(Event) /\ rest' \in Seq(Symbol) /\ split' \in BOOLEAN
      /\ arrived' \in 0..Len(answer')
  BY DEF IInv, TypeOK
<1>2. PICK missing \in {<<>>, <<"eol">>} :
          Stands(answer, pending, rest \o missing, arrived, split, TRUE)
  BY DEF IInv, ReadOK
<1>3. ReadOK'
  BY <1>2 DEF ReadOK
<1>4. pending' \in Seq(Symbol) /\ "eol" \notin ToSet(pending)'
  <2>1. answer \in Seq(AnyEvent) /\ arrived \in 0..Len(answer)
    BY EventsAny DEF IInv, TypeOK
  <2>2. pending \in Seq(Symbol) /\ "eol" \notin ToSet(pending)
    BY <1>2, <2>1, StandsFacts
  <2>3. QED
    BY <2>2
<1>5. Translated(sent, done_sent, arrived, split)
  BY DEF IInv
<1>6. sent \in Seq(Item) /\ done_sent \in BOOLEAN /\ Dones(sent, done_sent)
      /\ (~split => TextOf(sent) = Carried(SubSeq(answer, 1, arrived)))
  BY <1>5, TranslatedIs
<1>7. CASE UNCHANGED <<sent, done_sent>> /\ (body' = "ended" => done_sent)
  <2>1. Translated(sent, done_sent, arrived, split)'
    BY <1>5, <1>7 DEF Translated
  <2>2. (done_sent /\ body # "ended" => Stopped(arrived))'
    BY <1>7 DEF IInv, Stopped
  <2>3. QED
    BY <1>1, <1>3, <1>4, <1>7, <2>1, <2>2, KeptNow
<1>8. CASE body' = "ended" /\ ~done_sent /\ sent' = Append(sent, DONE) /\ done_sent' = TRUE
  <2>1. DONE \in Item /\ DONE.text = <<>>
    BY Items
  <2>2. sent' \in Seq(Item)
    BY <1>6, <1>8, <2>1
  <2>3. Dones(Append(sent, DONE), TRUE)
    BY <1>6, <1>8, <2>1, DonesAppend
  <2>4. TextOf(Append(sent, DONE)) = TextOf(sent)
    <3>1. TextOf(Append(sent, DONE)) = TextOf(sent) \o <<>>
      BY <1>6, <2>1, TextOfAppend
    <3>2. QED
      BY <1>6, <3>1, TextOfIs, ConcatEmptySeq
  <2>5. Translated(Append(sent, DONE), TRUE, arrived, split)
    BY <1>6, <1>8, <2>2, <2>3, <2>4, TranslatedIs
  <2>6. Translated(sent, done_sent, arrived, split)'
    BY <1>8, <2>5 DEF Translated
  <2>7. QED
    BY <1>1, <1>3, <1>4, <1>8, <2>6, KeptNow
<1>9. QED
  BY <1>7, <1>8

LEMMA SameKeeps ==
    ASSUME IInv, UNCHANGED vars
    PROVE  IInv'
<1>1. TypeOK' /\ ReadOK'
  BY DEF IInv, vars, TypeOK, ReadOK
<1>2. Translated(sent, done_sent, arrived, split)'
  BY DEF IInv, vars, Translated
<1>3. (done_sent /\ body # "ended" => Stopped(arrived))'
  BY DEF IInv, vars, Stopped
<1>4. QED
  BY <1>1, <1>2, <1>3 DEF IInv, vars

LEMMA NextKeeps ==
    ASSUME IInv, [Next]_vars
    PROVE  IInv'
<1>1. CASE ReadChunk
  BY <1>1, PushKeeps DEF ReadChunk
<1>2. CASE StreamEnds
  <2>1. /\ body = "open" /\ body' = "ended" /\ sent' = sent \o FinishSends /\ done_sent' = TRUE
        /\ UNCHANGED <<answer, rest, pending, arrived, split>>
    BY <1>2 DEF StreamEnds
  <2>2. sent \in Seq(Item) /\ done_sent \in BOOLEAN
    BY DEF IInv, Translated
  <2>3. CASE done_sent
    <3>1. sent' = sent \o <<>> /\ sent \o <<>> = sent
      BY <2>1, <2>2, <2>3, ConcatEmptySeq DEF FinishSends
    <3>2. UNCHANGED <<sent, done_sent>>
      BY <2>1, <2>2, <2>3, <3>1
    <3>3. QED
      BY <2>1, <2>3, <3>2, BodyEnds
  <2>4. CASE ~done_sent
    <3>1. sent' = Append(sent, DONE)
      BY <2>1, <2>2, <2>4, Items, AppendIsConcat DEF FinishSends
    <3>2. QED
      BY <2>1, <2>4, <3>1, BodyEnds
  <2>5. QED
    BY <2>3, <2>4
<1>3. CASE StreamBreaks
  BY <1>3, BodyEnds DEF StreamBreaks
<1>4. CASE UNCHANGED vars
  BY <1>4, SameKeeps
<1>5. QED
  BY <1>1, <1>2, <1>3, <1>4 DEF Next

-----------------------------------------------------------------------------

\* The inductive invariant: the translator stands where the bytes it has read
\* end, and what it has sent is what the lines read so far come to.
THEOREM StreamInvariant == Spec => []IInv
<1>1. Init => IInv
  BY InitKeeps
<1>2. IInv /\ [Next]_vars => IInv'
  BY NextKeeps
<1>3. QED
  BY <1>1, <1>2, PTL DEF Spec

\* Every variable has the shape of the code's data, whatever the upstream
\* sends: what push keeps in pending never holds a line that has ended.
THEOREM StreamTyped == Spec => []TypeOK
<1>1. IInv => TypeOK
  BY DEF IInv
<1>2. QED
  BY <1>1, StreamInvariant, PTL

\* For answers and chunks of any length: chunks that end between characters
\* leave the client with the text of exactly the events whose lines have
\* arrived in full, in their order, none lost and none repeated.
THEOREM TextArrives == Spec => []TextOfCompleteLines
<1>1. IInv => TextOfCompleteLines
  BY DEF IInv, Translated, TextOfCompleteLines
<1>2. QED
  BY <1>1, StreamInvariant, PTL

\* For answers and chunks of any length, and even where a character was cut:
\* [DONE] is sent at most once, a body that ended has it, and one that broke
\* off has it only after the upstream's message_stop.
THEOREM DoneOnceOnly == Spec => []DoneOnce
<1>1. IInv => DoneOnce
  <2>1. SUFFICES ASSUME IInv PROVE DoneOnce
    OBVIOUS
  <2> DEFINE dones == {i \in DOMAIN sent : sent[i] = DONE}
  <2>2. Dones(sent, done_sent)
    BY <2>1, TranslatedIs DEF IInv
  <2>3. \A i, j \in dones : i = j
    BY <2>2 DEF Dones
  <2>4. done_sent <=> dones # {}
    BY <2>2 DEF Dones
  <2>5. ASSUME body = "broken", dones # {}
        PROVE  \E i \in DOMAIN answer : answer[i].kind = "message_stop"
    <3>1. PICK i \in 1..arrived : answer[i].kind = "message_stop"
      BY <2>1, <2>4, <2>5 DEF IInv, Stopped
    <3>2. Len(answer) \in Nat /\ arrived \in 0..Len(answer) /\ DOMAIN answer = 1..Len(answer)
      BY <2>1, LenProperties DEF IInv, TypeOK
    <3>3. i \in DOMAIN answer
      BY <3>2
    <3>4. QED
      BY <3>1, <3>3
  <2>6. body = "ended" => dones # {}
    BY <2>1, <2>4 DEF IInv
  <2>7. QED
    BY <2>3, <2>5, <2>6 DEF DoneOnce
<1>2. QED
  BY <1>1, StreamInvariant, PTL
=============================================================================
