------------------------- MODULE SentinelScanProofs -------------------------
(***************************************************************************)
(* The sentinel scanner, for any sentinel, answers of any length and every *)
(* way to cut them into chunks: IInv of SentinelScan is inductive.         *)
(***************************************************************************)
EXTENDS SentinelScan, ChunkedBytesProofs

-----------------------------------------------------------------------------
\* Prefixes, and what trim_start leaves.

LEMMA PrefixIs ==
    ASSUME NEW S, NEW s \in Seq(S), NEW t \in Seq(S)
    PROVE  IsPrefix(s, t) <=> Len(s) <= Len(t) /\ \A i \in 1..Len(s) : s[i] = t[i]
<1>1. SubSeq(s, 1, Len(s)) = s
  BY SubSeqFull
<1>2. CASE ~(Len(s) <= Len(t))
  BY <1>2 DEF IsPrefix
<1>3. CASE Len(s) <= Len(t)
  <2> DEFINE a == SubSeq(t, 1, Len(s))
  <2>1. Len(s) \in 0..Len(t)
    BY <1>3, LenProperties
  <2>2. a \in Seq(S) /\ Len(a) = Len(s) /\ \A i \in 1..Len(s) : a[i] = t[i]
    BY <2>1, FirstFacts
  <2>3. IsPrefix(s, t) <=> s = a
    BY <1>1, <1>3 DEF IsPrefix
  <2> HIDE DEF a
  <2>4. (\A i \in 1..Len(s) : s[i] = a[i]) => s = a
    BY <2>2, SeqEqual
  <2>5. QED
    BY <1>3, <2>2, <2>3, <2>4
<1>4. QED
  BY <1>2, <1>3

-----------------------------------------------------------------------------
\* White space, and the sentinel behind it.

Blank(chars, n) == \A i \in 1..n : chars[i] \in White

\* n is how far trim_start gets.
TrimsAt(chars, n) == /\ n \in 0..Len(chars) /\ Blank(chars, n)
                     /\ n < Len(chars) => chars[n + 1] \notin White

LEMMA TrimIs ==
    ASSUME NEW S, NEW chars \in Seq(S), NEW n, TrimsAt(chars, n)
    PROVE  TrimStart(chars) = From(chars, n)
<1> DEFINE blank == {m \in 0..Len(chars) : Blank(chars, m)}
           most == CHOOSE m \in blank : \A k \in blank : k <= m
<1>1. Len(chars) \in Nat
  BY LenProperties
<1>2. n \in blank
  BY DEF TrimsAt
<1>3. \A k \in blank : k <= n
  <2>1. SUFFICES ASSUME NEW k \in blank, ~(k <= n) PROVE FALSE
    OBVIOUS
  <2>2. n \in 0..Len(chars) /\ n < Len(chars) /\ n + 1 \in 1..k
    BY <1>1, <1>2, <2>1
  <2>3. chars[n + 1] \in White
    BY <2>2 DEF Blank
  <2>4. QED
    BY <2>2, <2>3 DEF TrimsAt
<1>4. most \in blank /\ \A k \in blank : k <= most
  BY <1>2, <1>3
<1>5. most = n
  <2>1. blank \subseteq Int
    BY <1>1
  <2> HIDE DEF blank, most
  <2>2. most <= n /\ n <= most /\ most \in Int /\ n \in Int
    BY <1>2, <1>3, <1>4, <2>1
  <2>3. QED
    BY <2>2
<1>6. TrimStart(chars) = SubSeq(chars, most + 1, Len(chars))
  BY DEF TrimStart, Blank
<1> HIDE DEF most
<1>7. QED
  BY <1>5, <1>6 DEF From

LEMMA TrimExists ==
    ASSUME NEW S, NEW chars \in Seq(S)
    PROVE  \E n : TrimsAt(chars, n)
<1> DEFINE N == Len(chars)
           short == {k \in 0..N : Blank(chars, N - k)}
<1>1. N \in Nat
  BY LenProperties
<1>2. N \in short
  <2>1. N - N = 0 /\ N \in 0..N
    BY <1>1
  <2>2. Blank(chars, 0)
    BY DEF Blank
  <2>3. QED
    BY <2>1, <2>2
<1>3. PICK k \in short : \A j \in short : k <= j
  <2>1. short \in SUBSET Nat /\ short # {}
    BY <1>1, <1>2
  <2>2. QED
    BY <2>1, LeastNumber
<1>4. k \in 0..N /\ N - k \in 0..N /\ Blank(chars, N - k)
  BY <1>1, <1>3
<1>5. ASSUME N - k < N, chars[(N - k) + 1] \in White
      PROVE  FALSE
  <2>1. k - 1 \in 0..N /\ N - (k - 1) = (N - k) + 1 /\ ~(k <= k - 1)
    BY <1>1, <1>4, <1>5
  <2>2. \A i \in 1..((N - k) + 1) : i \in 1..(N - k) \/ i = (N - k) + 1
    BY <1>1, <1>4
  <2>3. Blank(chars, (N - k) + 1)
    BY <1>4, <1>5, <2>2 DEF Blank
  <2>4. k - 1 \in short
    BY <2>1, <2>3
  <2>5. QED
    BY <1>3, <2>1, <2>4
<1>6. TrimsAt(chars, N - k)
  BY <1>4, <1>5 DEF TrimsAt
<1>7. QED
  BY <1>6

\* The sentinel stands behind n white characters.
StandsAt(chars, n) ==
    /\ n \in Nat /\ n + Len(Sentinel) <= Len(chars)
    /\ Blank(chars, n)
    /\ \A i \in 1..Len(Sentinel) : chars[n + i] = Sentinel[i]

LEMMA SentinelFacts ==
    /\ Sentinel \in Seq(Alphabet) /\ Len(Sentinel) \in Nat \ {0} /\ 1 \in 1..Len(Sentinel)
    /\ Sentinel[1] \notin White
    /\ \A i \in 1..Len(Sentinel) : Sentinel[i] # "replacement"
<1>1. Sentinel \in Seq(Alphabet \ {"replacement"}) /\ Len(Sentinel) > 0 /\ Sentinel[1] \notin White
  BY SentinelAssumption
<1>2. Len(Sentinel) \in Nat /\ \A i \in 1..Len(Sentinel) : Sentinel[i] \in Alphabet \ {"replacement"}
  BY <1>1, LenProperties, ElementOfSeq
<1>3. Sentinel \in Seq(Alphabet)
  BY <1>1
<1>4. QED
  BY <1>1, <1>2, <1>3

LEMMA FoundIs ==
    ASSUME NEW S, NEW chars \in Seq(S)
    PROVE  Found(chars) <=> \E n : StandsAt(chars, n)
<1> DEFINE N == Len(chars)  L == Len(Sentinel)
<1>1. N \in Nat /\ L \in Nat \ {0} /\ 1 \in 1..L
  BY LenProperties, SentinelFacts
<1>2. PICK n : TrimsAt(chars, n)
  BY TrimExists
<1>3. n \in 0..N
  BY <1>2 DEF TrimsAt
<1> DEFINE tail == From(chars, n)
<1>4. TrimStart(chars) = tail
  BY <1>2, TrimIs
<1>5. tail \in Seq(S) /\ Len(tail) = N - n /\ \A i \in 1..(N - n) : tail[i] = chars[n + i]
  BY <1>3, FromFacts
<1> HIDE DEF tail
<1> DEFINE U == S \cup Alphabet
<1>6. tail \in Seq(U) /\ Sentinel \in Seq(U)
  BY <1>5, SentinelFacts
<1>7. Found(chars) <=> L <= N - n /\ \A i \in 1..L : Sentinel[i] = tail[i]
  BY <1>4, <1>5, <1>6, PrefixIs DEF Found
<1>8. ASSUME Found(chars) PROVE StandsAt(chars, n)
  <2>1. L <= N - n /\ \A i \in 1..L : Sentinel[i] = tail[i]
    BY <1>7, <1>8
  <2>2. n \in Nat /\ n + L <= N /\ \A i \in 1..L : i \in 1..(N - n)
    BY <1>1, <1>3, <2>1
  <2>3. \A i \in 1..L : chars[n + i] = Sentinel[i]
    BY <1>5, <2>1, <2>2
  <2>4. QED
    BY <1>2, <2>2, <2>3 DEF StandsAt, TrimsAt
<1>9. ASSUME NEW m, StandsAt(chars, m) PROVE Found(chars)
  <2>1. m \in Nat /\ m + L <= N /\ Blank(chars, m) /\ \A i \in 1..L : chars[m + i] = Sentinel[i]
    BY <1>9 DEF StandsAt
  <2>2. chars[m + 1] \notin White
    BY <1>1, <2>1, SentinelFacts
  <2>3. m = n
    <3>1. ~(m < n)
      <4>1. m < n => m + 1 \in 1..n
        BY <1>3, <2>1
      <4>2. QED
        BY <1>2, <2>2, <4>1 DEF TrimsAt, Blank
    <3>2. ~(n < m)
      <4>1. n < m => n + 1 \in 1..m /\ n < N
        BY <1>1, <1>3, <2>1
      <4>2. QED
        BY <1>2, <2>1, <4>1 DEF TrimsAt, Blank
    <3>3. QED
      BY <1>1, <1>3, <2>1, <3>1, <3>2
  <2>4. L <= N - n /\ \A i \in 1..L : i \in 1..(N - n)
    BY <1>1, <1>3, <2>1, <2>3
  <2>5. \A i \in 1..L : Sentinel[i] = tail[i]
    BY <1>5, <2>1, <2>3, <2>4
  <2>6. QED
    BY <1>7, <2>4, <2>5
<1>10. QED
  BY <1>8, <1>9

\* A text begins another one.
Begins(s, t) == Len(s) <= Len(t) /\ \A i \in 1..Len(s) : s[i] = t[i]

\* What was found is found in every longer text ...
LEMMA FoundInLonger ==
    ASSUME NEW S, NEW s \in Seq(S), NEW t \in Seq(S), Begins(s, t), Found(s)
    PROVE  Found(t)
<1>1. PICK n : StandsAt(s, n)
  BY FoundIs
<1>2. Len(s) \in Nat /\ Len(t) \in Nat /\ Len(Sentinel) \in Nat /\ n \in Nat
  BY <1>1, LenProperties, SentinelFacts DEF StandsAt
<1>3. n + Len(Sentinel) <= Len(s) /\ Len(s) <= Len(t)
  BY <1>1 DEF StandsAt, Begins
<1>4. /\ \A i \in 1..n : i \in 1..Len(s)
      /\ \A i \in 1..Len(Sentinel) : n + i \in 1..Len(s)
  BY <1>2, <1>3
<1>5. n + Len(Sentinel) <= Len(t)
  BY <1>2, <1>3
<1>6. Blank(t, n)
  BY <1>1, <1>4 DEF StandsAt, Begins, Blank
<1>7. \A i \in 1..Len(Sentinel) : t[n + i] = Sentinel[i]
  BY <1>1, <1>4 DEF StandsAt, Begins
<1>8. StandsAt(t, n)
  BY <1>2, <1>5, <1>6, <1>7 DEF StandsAt
<1>9. QED
  BY <1>8, FoundIs

\* ... and what was found although characters were cut is there.
LEMMA FoundInGarbled ==
    ASSUME NEW S, NEW s \in Seq(S), NEW t \in Seq(S), Garbled(s, t), Found(s)
    PROVE  Found(t)
<1>1. PICK n : StandsAt(s, n)
  BY FoundIs
<1>2. PICK k \in DOMAIN s : /\ s[k] = "replacement" /\ k - 1 <= Len(t)
                            /\ \A i \in 1..(k - 1) : s[i] = t[i]
  BY DEF Garbled
<1>3. /\ Len(s) \in Nat /\ Len(t) \in Nat /\ Len(Sentinel) \in Nat /\ n \in Nat
      /\ k \in 1..Len(s)
  BY <1>1, <1>2, LenProperties, SentinelFacts DEF StandsAt
<1>4. ~(k <= n)
  <2>1. k <= n => k \in 1..n
    BY <1>3
  <2>2. k <= n => s[k] \in White
    BY <1>1, <2>1 DEF StandsAt, Blank
  <2>3. QED
    BY <1>2, <2>2 DEF White
<1>5. ~(n < k /\ k <= n + Len(Sentinel))
  <2>1. SUFFICES ASSUME n < k, k <= n + Len(Sentinel) PROVE FALSE
    OBVIOUS
  <2>2. k - n \in 1..Len(Sentinel) /\ n + (k - n) = k
    BY <1>3, <2>1
  <2>3. s[n + (k - n)] = Sentinel[k - n]
    BY <1>1, <2>2 DEF StandsAt
  <2>4. QED
    BY <1>2, <2>2, <2>3, SentinelFacts
<1>6. n + Len(Sentinel) <= k - 1
  BY <1>3, <1>4, <1>5
<1>7. /\ \A i \in 1..n : i \in 1..(k - 1)
      /\ \A i \in 1..Len(Sentinel) : n + i \in 1..(k - 1)
      /\ n + Len(Sentinel) <= Len(t)
  BY <1>2, <1>3, <1>6
<1>8. Blank(t, n)
  BY <1>1, <1>2, <1>7 DEF StandsAt, Blank
<1>9. \A i \in 1..Len(Sentinel) : t[n + i] = Sentinel[i]
  BY <1>1, <1>2, <1>7 DEF StandsAt
<1>10. StandsAt(t, n)
  BY <1>3, <1>7, <1>8, <1>9 DEF StandsAt
<1>11. QED
  BY <1>10, FoundIs

\* Nothing is a beginning of the sentinel, and not the sentinel.
LEMMA NothingIsOpen ==
    IsPrefix(<<>>, Sentinel) /\ Open(<<>>) /\ ~Found(<<>>)
<1> DEFINE none == <<>>
<1>1. none \in Seq(Alphabet) /\ Len(none) = 0 /\ none = <<>>
  OBVIOUS
<1> HIDE DEF none
<1>2. IsPrefix(none, Sentinel)
  <2>1. Len(none) <= Len(Sentinel) /\ \A i \in 1..Len(none) : none[i] = Sentinel[i]
    BY <1>1, SentinelFacts
  <2>2. QED
    BY <1>1, <2>1, PrefixIs, SentinelFacts
<1>3. TrimStart(none) = none
  <2>1. TrimsAt(none, 0)
    BY <1>1 DEF TrimsAt, Blank
  <2>2. TrimStart(none) = From(none, 0)
    BY <1>1, <2>1, TrimIs
  <2>3. From(none, 0) = none
    BY <1>1, FromSteps
  <2>4. QED
    BY <2>2, <2>3
<1>4. ~Found(none)
  <2>1. ASSUME NEW n, StandsAt(none, n) PROVE FALSE
    BY <1>1, <2>1, SentinelFacts DEF StandsAt
  <2>2. QED
    BY <1>1, <2>1, FoundIs
<1>5. Open(none)
  BY <1>2, <1>3 DEF Open
<1>6. QED
  BY <1>1, <1>2, <1>4, <1>5

\* A text that is not open any more and is not the sentinel's stays so.
LEMMA CleanStays ==
    ASSUME NEW S, NEW s \in Seq(S), NEW t \in Seq(S), Begins(s, t), ~Open(s), ~Found(s)
    PROVE  ~Found(t)
<1>1. SUFFICES ASSUME Found(t) PROVE Open(s)
  OBVIOUS
<1>2. PICK n : StandsAt(t, n)
  BY <1>1, FoundIs
<1> DEFINE N == Len(s)  L == Len(Sentinel)  U == S \cup Alphabet
<1>3. /\ N \in Nat /\ Len(t) \in Nat /\ L \in Nat \ {0} /\ n \in Nat /\ 1 \in 1..L
      /\ n + L <= Len(t) /\ N <= Len(t) /\ Blank(t, n)
      /\ \A i \in 1..N : s[i] = t[i]
      /\ \A i \in 1..L : t[n + i] = Sentinel[i]
  BY <1>2, LenProperties, SentinelFacts DEF StandsAt, Begins
<1>4. ~(n + L <= N)
  <2>1. SUFFICES ASSUME n + L <= N PROVE FALSE
    OBVIOUS
  <2>2. (\A i \in 1..n : i \in 1..N) /\ (\A i \in 1..L : n + i \in 1..N)
    BY <1>3, <2>1
  <2>3. Blank(s, n)
    BY <1>3, <2>2 DEF Blank
  <2>4. StandsAt(s, n)
    BY <1>3, <2>1, <2>2, <2>3 DEF StandsAt
  <2>5. QED
    BY <2>4, FoundIs
<1>5. CASE n < N
  <2>1. n \in 0..N /\ n + 1 \in 1..N /\ \A i \in 1..n : i \in 1..N
    BY <1>3, <1>5
  <2>2. Blank(s, n)
    BY <1>3, <2>1 DEF Blank
  <2>3. s[n + 1] \notin White
    BY <1>3, <2>1, SentinelFacts
  <2>4. TrimsAt(s, n)
    BY <2>1, <2>2, <2>3 DEF TrimsAt
  <2> DEFINE tail == From(s, n)
  <2>5. TrimStart(s) = tail
    BY <2>4, TrimIs
  <2>6. tail \in Seq(S) /\ Len(tail) = N - n /\ \A i \in 1..(N - n) : tail[i] = s[n + i]
    BY <2>1, FromFacts
  <2> HIDE DEF tail
  <2>7. Len(tail) <= L /\ \A i \in 1..(N - n) : i \in 1..L /\ n + i \in 1..N
    BY <1>3, <1>4, <1>5, <2>6
  <2>8. \A i \in 1..Len(tail) : tail[i] = Sentinel[i]
    BY <1>3, <2>6, <2>7
  <2>9. tail \in Seq(U) /\ Sentinel \in Seq(U)
    BY <2>6, SentinelFacts
  <2>10. IsPrefix(tail, Sentinel)
    BY <2>7, <2>8, <2>9, PrefixIs
  <2>11. QED
    BY <2>5, <2>10 DEF Open
<1>6. CASE ~(n < N)
  <2>1. N \in 0..N /\ \A i \in 1..N : i \in 1..n
    BY <1>3, <1>6
  <2>2. Blank(s, N)
    BY <1>3, <2>1 DEF Blank
  <2>3. TrimsAt(s, N)
    BY <1>3, <2>1, <2>2 DEF TrimsAt
  <2>4. TrimStart(s) = <<>>
    BY <2>3, TrimIs, FromSteps
  <2>5. QED
    BY <2>4, NothingIsOpen DEF Open
<1>7. QED
  BY <1>5, <1>6


-----------------------------------------------------------------------------
\* What the events say.

Spoken(event) == IF event.kind = "text" THEN event.text ELSE <<>>
Speaking == [event \in Event |-> Spoken(event)]

LEMMA AnEvent ==
    ASSUME NEW event \in Event
    PROVE  /\ event \in AnyEvent /\ event.kind \in {"text", "block", "other"}
           /\ event.text \in Seq(Alphabet)
BY DEF Event, AnyEvent, Kinds

LEMMA EventsAny ==
    \A events \in Seq(Event) : events \in Seq(AnyEvent)
<1>1. Event \subseteq AnyEvent
  BY AnEvent
<1>2. QED
  BY <1>1, SeqMonotonic

LEMMA AnySpeaking ==
    Speaking \in [Event -> Seq(Alphabet)]
<1>1. ASSUME NEW event \in Event PROVE Spoken(event) \in Seq(Alphabet)
  BY AnEvent DEF Spoken
<1>2. QED
  BY <1>1 DEF Speaking

LEMMA SaidIs ==
    ASSUME NEW events, events \in Seq(Event)
    PROVE  Said(events) = FlattenSeq(Mapped(events, Speaking)) /\ Said(events) \in Seq(Alphabet)
<1>1. \A i \in 1..Len(events) : events[i] \in Event
  BY ElementOfSeq
<1>2. \A i \in 1..Len(events) : Speaking[events[i]] = Spoken(events[i])
  BY <1>1 DEF Speaking
<1>3. Mapped(events, Speaking) = [i \in 1..Len(events) |-> Spoken(events[i])]
  BY <1>2 DEF Mapped
<1>4. Said(events) = FlattenSeq(Mapped(events, Speaking))
  BY <1>3 DEF Said, Spoken
<1>5. Maps(Mapped(events, Speaking), events, Speaking, Alphabet)
  BY AnySpeaking, MappedType
<1>6. QED
  BY <1>4, <1>5 DEF Maps

LEMMA SaidSteps ==
    ASSUME answer \in Seq(Event)
    PROVE  /\ Said(UpToEvent(0)) = <<>>
           /\ \A c \in 0..Len(answer) : Said(UpToEvent(c)) \in Seq(Alphabet)
           /\ \A c \in 0..Len(answer) : c < Len(answer) =>
                Said(UpToEvent(c + 1)) = Said(UpToEvent(c)) \o Spoken(answer[c + 1])
<1>1. Len(answer) \in Nat
  BY LenProperties
<1>2. \A c \in 0..Len(answer) : UpToEvent(c) \in Seq(Event)
  BY FirstFacts DEF UpToEvent
<1>3. \A c \in 0..Len(answer) : /\ Said(UpToEvent(c)) = FlattenSeq(Mapped(UpToEvent(c), Speaking))
                                /\ Said(UpToEvent(c)) \in Seq(Alphabet)
  BY <1>2, SaidIs
<1>4. Said(UpToEvent(0)) = <<>>
  <2> DEFINE none == UpToEvent(0)
  <2>1. none = <<>> /\ none \in Seq(Event)
    BY SubSeqEmpty DEF UpToEvent
  <2> HIDE DEF none
  <2>2. Maps(Mapped(none, Speaking), none, Speaking, Alphabet)
    BY <2>1, AnySpeaking, MappedType
  <2>3. FlattenSeq(Mapped(none, Speaking)) = <<>>
    BY <2>1, <2>2 DEF Maps
  <2>4. Said(none) = FlattenSeq(Mapped(none, Speaking))
    BY <2>1, SaidIs
  <2>5. QED
    BY <2>3, <2>4 DEF none
<1>5. ASSUME NEW c \in 0..Len(answer), c < Len(answer)
      PROVE  Said(UpToEvent(c + 1)) = Said(UpToEvent(c)) \o Spoken(answer[c + 1])
  <2>1. c + 1 \in 0..Len(answer) /\ c + 1 \in 1..Len(answer)
    BY <1>1, <1>5
  <2>2. Grows(answer, c, Speaking)
    BY <1>5, AnySpeaking, MappedGrows
  <2>3. answer[c + 1] \in Event
    BY <2>1, ElementOfSeq
  <2>4. Speaking[answer[c + 1]] = Spoken(answer[c + 1])
    BY <2>3 DEF Speaking
  <2>5. FlattenSeq(Mapped(UpToEvent(c + 1), Speaking)) =
            FlattenSeq(Mapped(UpToEvent(c), Speaking)) \o Spoken(answer[c + 1])
    BY <2>2, <2>4 DEF Grows, UpToEvent
  <2>6. QED
    BY <1>3, <2>1, <2>5
<1>6. QED
  BY <1>3, <1>4, <1>5

\* No block that is not text is among the first n events.
Calm(events, n) == \A i \in 1..n : events[i].kind # "block"
\* ... and they are all the events before one.
Opens(events, n) == /\ n \in 0..Len(events) /\ Calm(events, n)
                    /\ n < Len(events) => events[n + 1].kind = "block"

LEMMA OpeningIs ==
    ASSUME NEW S, NEW events \in Seq(S), NEW n, Opens(events, n)
    PROVE  OpeningText(events) = Said(SubSeq(events, 1, n))
<1> DEFINE opening == {m \in 0..Len(events) : Calm(events, m)}
           most == CHOOSE m \in opening : \A k \in opening : k <= m
<1>1. Len(events) \in Nat
  BY LenProperties
<1>2. n \in opening
  BY DEF Opens
<1>3. \A k \in opening : k <= n
  <2>1. SUFFICES ASSUME NEW k \in opening, ~(k <= n) PROVE FALSE
    OBVIOUS
  <2>2. n \in 0..Len(events) /\ n < Len(events) /\ n + 1 \in 1..k
    BY <1>1, <1>2, <2>1
  <2>3. events[n + 1].kind # "block"
    BY <2>2 DEF Calm
  <2>4. QED
    BY <2>2, <2>3 DEF Opens
<1>4. most \in opening /\ \A k \in opening : k <= most
  BY <1>2, <1>3
<1>5. most = n
  <2>1. opening \subseteq Int
    BY <1>1
  <2> HIDE DEF opening, most
  <2>2. most <= n /\ n <= most /\ most \in Int /\ n \in Int
    BY <1>2, <1>3, <1>4, <2>1
  <2>3. QED
    BY <2>2
<1>6. OpeningText(events) = Said(SubSeq(events, 1, most))
  BY DEF OpeningText, Calm
<1> HIDE DEF most
<1>7. QED
  BY <1>5, <1>6

\* The opening text goes on from any calm beginning.
LEMMA CalmOpens ==
    ASSUME NEW S, NEW events \in Seq(S), NEW c \in 0..Len(events), Calm(events, c)
    PROVE  \E n : c <= n /\ Opens(events, n)
<1> DEFINE N == Len(events)
           short == {k \in 0..N : Calm(events, N - k)}
<1>1. N \in Nat
  BY LenProperties
<1>2. N - c \in short
  <2>1. N - c \in 0..N /\ N - (N - c) = c
    BY <1>1
  <2>2. QED
    BY <2>1
<1>3. PICK k \in short : \A j \in short : k <= j
  <2>1. short \in SUBSET Nat
    BY <1>1
  <2>2. short # {}
    BY <1>2
  <2> HIDE DEF short
  <2>3. QED
    BY <2>1, <2>2, LeastNumber
<1>a. k <= N - c
  BY <1>2, <1>3
<1>b. k \in 0..N /\ Calm(events, N - k)
  BY <1>3
<1>4. k \in 0..N /\ N - k \in 0..N /\ Calm(events, N - k) /\ k <= N - c
  BY <1>1, <1>a, <1>b
<1>5. ASSUME N - k < N, events[(N - k) + 1].kind # "block"
      PROVE  FALSE
  <2>1. k - 1 \in 0..N /\ N - (k - 1) = (N - k) + 1 /\ ~(k <= k - 1)
    BY <1>1, <1>4, <1>5
  <2>2. \A i \in 1..((N - k) + 1) : i \in 1..(N - k) \/ i = (N - k) + 1
    BY <1>1, <1>4
  <2>3. Calm(events, (N - k) + 1)
    BY <1>4, <1>5, <2>2 DEF Calm
  <2>4. k - 1 \in short
    BY <2>1, <2>3
  <2>5. QED
    BY <1>3, <2>1, <2>4
<1>6. Opens(events, N - k)
  BY <1>4, <1>5 DEF Opens
<1>7. c <= N - k
  BY <1>1, <1>4
<1>8. QED
  BY <1>6, <1>7

LEMMA BeginsLonger ==
    ASSUME NEW S, NEW s \in Seq(S), NEW t \in Seq(S), NEW u \in Seq(S), Begins(s, t)
    PROVE  Begins(s, t \o u)
<1> DEFINE b == t \o u
<1>1. Len(s) \in Nat /\ Len(t) \in Nat /\ Len(u) \in Nat
  BY LenProperties
<1>2. Len(b) = Len(t) + Len(u) /\ \A i \in 1..(Len(t) + Len(u)) :
        b[i] = IF i <= Len(t) THEN t[i] ELSE u[i - Len(t)]
  BY ConcatProperties
<1> HIDE DEF b
<1>3. Len(s) <= Len(t) /\ \A i \in 1..Len(s) : s[i] = t[i]
  BY DEF Begins
<1>4. \A i \in 1..Len(s) : i \in 1..(Len(t) + Len(u)) /\ i <= Len(t)
  BY <1>1, <1>3
<1>5. Len(s) <= Len(b)
  BY <1>1, <1>2, <1>3
<1>6. \A i \in 1..Len(s) : s[i] = b[i]
  BY <1>2, <1>3, <1>4
<1>7. QED
  BY <1>5, <1>6 DEF Begins, b

LEMMA SaidBegins ==
    ASSUME answer \in Seq(Event), NEW c \in 0..Len(answer), Calm(answer, c)
    PROVE  Begins(Said(UpToEvent(c)), OpeningText(answer)) /\ OpeningText(answer) \in Seq(Alphabet)
<1> DEFINE N == Len(answer)
           T == {n \in 0..N : c <= n => Begins(Said(UpToEvent(c)), Said(UpToEvent(n)))}
<1>1. N \in Nat
  BY LenProperties
<1>2. PICK n : c <= n /\ Opens(answer, n)
  BY CalmOpens
<1>3. OpeningText(answer) = Said(UpToEvent(n)) /\ n \in 0..N
  BY <1>2, OpeningIs DEF Opens, UpToEvent
<1>0. Begins(Said(UpToEvent(c)), Said(UpToEvent(c)))
  <2>1. Len(Said(UpToEvent(c))) \in Nat
    BY SaidSteps, LenProperties
  <2>2. QED
    BY <2>1 DEF Begins
<1>4. 0 \in T
  BY <1>0, <1>1
<1>5. \A m \in 0..N : m \in T /\ m < N => m + 1 \in T
  <2>1. SUFFICES ASSUME NEW m \in 0..N, m \in T, m < N, c <= m + 1
                 PROVE  Begins(Said(UpToEvent(c)), Said(UpToEvent(m + 1)))
    BY <1>1
  <2>2. CASE c = m + 1
    BY <1>0, <2>2
  <2>3. CASE c # m + 1
    <3>1. c <= m /\ m + 1 \in 0..N /\ m + 1 \in 1..N
      BY <1>1, <2>1, <2>3
    <3>2. Begins(Said(UpToEvent(c)), Said(UpToEvent(m)))
      BY <2>1, <3>1
    <3>3. Said(UpToEvent(m + 1)) = Said(UpToEvent(m)) \o Spoken(answer[m + 1])
      BY <2>1, SaidSteps
    <3>4. Spoken(answer[m + 1]) \in Seq(Alphabet)
      <4>1. answer[m + 1] \in Event
        BY <3>1, ElementOfSeq
      <4>2. QED
        BY <4>1, AnEvent DEF Spoken
    <3>5. Said(UpToEvent(m)) \in Seq(Alphabet) /\ Said(UpToEvent(c)) \in Seq(Alphabet)
      BY SaidSteps
    <3>6. QED
      BY <3>2, <3>3, <3>4, <3>5, BeginsLonger
  <2>4. QED
    BY <2>2, <2>3
<1> HIDE DEF T
<1>6. n \in T
  BY <1>1, <1>3, <1>4, <1>5, UpTo
<1>7. QED
  BY <1>2, <1>3, <1>6, SaidSteps DEF T

-----------------------------------------------------------------------------
\* A line is absorbed.

ScanType == [text : Seq(Characters), resolved : {"none", "Sentinel", "Clean"}]

Legible(line) == line # <<>> /\ Tail(line) \in Seq(Characters)

LEMMA AbsorbIs ==
    ASSUME NEW scan \in ScanType, NEW line, Legible(line)
    PROVE  /\ Absorb(scan, line) \in ScanType
           /\ Absorb(scan, line).text = IF KindOf(line) = "other" THEN scan.text ELSE scan.text \o Tail(line)
           /\ Absorb(scan, line).resolved =
                IF KindOf(line) = "other" \/ scan.resolved # "none" THEN scan.resolved
                ELSE IF KindOf(line) = "block" THEN "Clean"
                ELSE IF Found(scan.text \o Tail(line)) THEN "Sentinel" ELSE "none"
<1> DEFINE read == Tail(line)  added == scan.text \o read
           judged == IF scan.resolved # "none" THEN scan.resolved
                     ELSE IF KindOf(line) = "block" THEN "Clean"
                     ELSE IF CheckSentinel(added) = "Sentinel" THEN "Sentinel" ELSE "none"
<1>1. scan.text \in Seq(Characters) /\ scan.resolved \in {"none", "Sentinel", "Clean"}
  BY DEF ScanType
<1>2. added \in Seq(Characters)
  BY <1>1, ConcatProperties DEF Legible
<1>3. Absorb(scan, line) = IF KindOf(line) = "other" THEN scan ELSE [text |-> added, resolved |-> judged]
  BY DEF Absorb
<1>4. CheckSentinel(added) = "Sentinel" <=> Found(added)
  BY DEF CheckSentinel
<1> HIDE DEF added
<1>5. judged \in {"none", "Sentinel", "Clean"}
  BY <1>1
<1>6. judged = IF scan.resolved # "none" THEN scan.resolved
               ELSE IF KindOf(line) = "block" THEN "Clean"
               ELSE IF Found(added) THEN "Sentinel" ELSE "none"
  BY <1>4
<1> HIDE DEF judged
<1>7. Absorb(scan, line) \in ScanType
  BY <1>2, <1>3, <1>5 DEF ScanType
<1>8. QED
  BY <1>3, <1>6, <1>7 DEF added

\* f is the scan after every beginning of the lines.
Absorbs(f, scan, lines) ==
    /\ f \in [0..Len(lines) -> ScanType]
    /\ f[0] = scan
    /\ \A n \in 1..Len(lines) : f[n] = Absorb(f[n - 1], lines[n])

LEMMA AbsorbsExists ==
    ASSUME NEW scan \in ScanType, NEW lines, Len(lines) \in Nat,
           \A n \in 1..Len(lines) : Legible(lines[n])
    PROVE  \E f : Absorbs(f, scan, lines)
<1> DEFINE N == Len(lines)
           step == [x \in (1..N) \X ScanType |-> Absorb(x[2], lines[x[1]])]
<1>1. N \in Nat /\ \A n \in 1..N : Legible(lines[n])
  OBVIOUS
<1>2. step \in [(1..N) \X ScanType -> ScanType]
  BY <1>1, AbsorbIs
<1>3. \A n \in 1..N, v \in ScanType : step[<<n, v>>] = Absorb(v, lines[n])
  OBVIOUS
<1> HIDE DEF N, step
<1>4. PICK f : Recurses(f, scan, step, N, ScanType)
  BY <1>1, <1>2, Recursion
<1>5. /\ f \in [0..N -> ScanType] /\ f[0] = scan
      /\ \A n \in 1..N : f[n] = step[<<n, f[n - 1]>>]
  BY <1>4 DEF Recurses
<1>6. \A n \in 1..N : n - 1 \in 0..N
  BY <1>1
<1>7. \A n \in 1..N : f[n] = Absorb(f[n - 1], lines[n])
  BY <1>3, <1>5, <1>6
<1>8. QED
  BY <1>5, <1>7 DEF Absorbs, N

LEMMA AbsorbedIs ==
    ASSUME NEW scan \in ScanType, NEW lines, Len(lines) \in Nat, NEW f, Absorbs(f, scan, lines)
    PROVE  Absorbed(scan, lines) = f[Len(lines)]
<1> DEFINE N == Len(lines)
           Eq(g) == g = [n \in 0..N |-> IF n = 0 THEN scan ELSE Absorb(g[n - 1], lines[n])]
           after == CHOOSE g : Eq(g)
<1>1. N \in Nat
  OBVIOUS
<1>2. /\ f \in [0..N -> ScanType] /\ f[0] = scan
      /\ \A n \in 1..N : f[n] = Absorb(f[n - 1], lines[n])
  BY DEF Absorbs
<1>3. Eq(f)
  <2> DEFINE g == [n \in 0..N |-> IF n = 0 THEN scan ELSE Absorb(f[n - 1], lines[n])]
  <2>1. \A n \in 0..N : n = 0 \/ n \in 1..N
    BY <1>1
  <2>2. \A n \in 0..N : f[n] = g[n]
    BY <1>2, <2>1
  <2>3. f = [n \in 0..N |-> f[n]]
    BY <1>2
  <2>4. QED
    BY <2>2, <2>3
<1>4. Eq(after)
  BY <1>3
<1>5. Absorbed(scan, lines) = after[N]
  BY DEF Absorbed
<1> DEFINE T == {n \in 0..N : after[n] = f[n]}
<1>6. \A n \in 0..N : after[n] = IF n = 0 THEN scan ELSE Absorb(after[n - 1], lines[n])
  <2> HIDE DEF after
  <2>1. QED
    BY <1>4
<1> HIDE DEF after
<1>7. 0 \in T
  BY <1>1, <1>2, <1>6
<1>8. \A n \in 0..N : n \in T /\ n < N => n + 1 \in T
  <2>1. SUFFICES ASSUME NEW n \in 0..N, n \in T, n < N PROVE after[n + 1] = f[n + 1] /\ n + 1 \in 0..N
    OBVIOUS
  <2>2. n + 1 \in 0..N /\ n + 1 \in 1..N /\ n + 1 # 0 /\ (n + 1) - 1 = n
    BY <1>1, <2>1
  <2>3. after[n + 1] = Absorb(after[n], lines[n + 1])
    BY <1>6, <2>2
  <2>4. f[n + 1] = Absorb(f[n], lines[n + 1])
    BY <1>2, <2>2
  <2>5. QED
    BY <2>1, <2>2, <2>3, <2>4
<1> HIDE DEF T
<1>9. N \in T
  <2>1. \A n \in 0..N : n \in T
    BY <1>1, <1>7, <1>8, UpTo
  <2>2. QED
    BY <1>1, <2>1
<1>10. QED
  BY <1>5, <1>9 DEF T

LEMMA JudgedIs ==
    ASSUME NEW scan, NEW c, NEW cut, scan.resolved \in {"none", "Sentinel", "Clean"}
    PROVE  Judged(scan, c, cut) <=>
             /\ scan.resolved = "none" =>
                    Calm(answer, c) /\ Same(scan.text, Said(UpToEvent(c)), cut) /\ ~Found(scan.text)
             /\ scan.resolved = "Sentinel" => OpensWithSentinel(answer)
             /\ scan.resolved = "Clean" => (~cut => ~OpensWithSentinel(answer))
<1>1. CASE scan.resolved = "none"
  BY <1>1 DEF Judged, Calm
<1>2. CASE scan.resolved = "Sentinel"
  BY <1>2 DEF Judged
<1>3. CASE scan.resolved = "Clean"
  BY <1>3 DEF Judged
<1>4. QED
  BY <1>1, <1>2, <1>3

LEMMA JudgedMore ==
    ASSUME NEW scan \in ScanType, NEW c, NEW cut, NEW more, cut => more, Judged(scan, c, cut)
    PROVE  Judged(scan, c, more)
<1>1. \A s, t : Same(s, t, cut) => Same(s, t, more)
  BY DEF Same
<1>2. scan.resolved \in {"none", "Sentinel", "Clean"}
  BY DEF ScanType
<1>3. QED
  BY <1>1, <1>2, JudgedIs

\* What is found in a text that may be cut is found in the text.
LEMMA FoundInSame ==
    ASSUME NEW S, NEW s \in Seq(S), NEW t \in Seq(S), NEW cut, Same(s, t, cut), Found(s)
    PROVE  Found(t)
BY FoundInGarbled DEF Same

LEMMA LineJudged ==
    ASSUME answer \in Seq(Event), NEW c \in 0..Len(answer), c < Len(answer),
           NEW scan \in ScanType, NEW cut, Judged(scan, c, cut), NEW line, Legible(line),
           KindOf(line) = answer[c + 1].kind, Same(Tail(line), answer[c + 1].text, cut)
    PROVE  Judged(Absorb(scan, line), c + 1, cut)
<1> DEFINE e == answer[c + 1]  after == Absorb(scan, line)  read == Tail(line)
           said == Said(UpToEvent(c))  now == Said(UpToEvent(c + 1))  added == scan.text \o read
<1>1. Len(answer) \in Nat /\ c + 1 \in 0..Len(answer) /\ c + 1 \in 1..Len(answer)
  BY LenProperties
<1>2. e \in Event /\ e.kind \in {"text", "block", "other"} /\ e.text \in Seq(Alphabet)
  BY <1>1, ElementOfSeq, AnEvent
<1>3. said \in Seq(Alphabet) /\ now \in Seq(Alphabet) /\ now = said \o Spoken(e)
  BY <1>1, SaidSteps
<1>4. said \in Seq(Characters) /\ now \in Seq(Characters) /\ e.text \in Seq(Characters)
  <2>1. \A s \in Seq(Alphabet) : s \in Seq(Characters)
    BY SymbolFacts, SeqMonotonic
  <2>2. QED
    BY <1>2, <1>3, <2>1
<1>5. scan.resolved \in {"none", "Sentinel", "Clean"} /\ scan.text \in Seq(Characters) /\ read \in Seq(Characters)
  BY DEF ScanType, Legible
<1>6. /\ after.text = IF e.kind = "other" THEN scan.text ELSE added
      /\ after.resolved = IF e.kind = "other" \/ scan.resolved # "none" THEN scan.resolved
                          ELSE IF e.kind = "block" THEN "Clean"
                          ELSE IF Found(added) THEN "Sentinel" ELSE "none"
  BY AbsorbIs
<1>7. added \in Seq(Characters)
  BY <1>5, ConcatProperties
<1>9. after.resolved \in {"none", "Sentinel", "Clean"}
  BY <1>5, <1>6
<1>10. \A i \in 1..(c + 1) : i \in 1..c \/ i = c + 1
  BY <1>1
<1> HIDE DEF after, said, now, added, read
<1>11. /\ scan.resolved = "none" => Calm(answer, c) /\ Same(scan.text, said, cut) /\ ~Found(scan.text)
       /\ scan.resolved = "Sentinel" => OpensWithSentinel(answer)
       /\ scan.resolved = "Clean" => (~cut => ~OpensWithSentinel(answer))
  BY <1>5, JudgedIs DEF said
<1>12. (e.kind # "block" /\ Calm(answer, c)) => Calm(answer, c + 1)
  BY <1>10 DEF Calm
<1> DEFINE Goal == /\ after.resolved = "none" =>
                        Calm(answer, c + 1) /\ Same(after.text, now, cut) /\ ~Found(after.text)
                   /\ after.resolved = "Sentinel" => OpensWithSentinel(answer)
                   /\ after.resolved = "Clean" => (~cut => ~OpensWithSentinel(answer))
<1>13. CASE scan.resolved # "none"
  <2>1. after.resolved = scan.resolved
    BY <1>6, <1>13
  <2>2. Goal
    BY <1>11, <1>13, <2>1
  <2>3. QED
    BY <1>9, <2>2, JudgedIs DEF after, now
<1>14. CASE scan.resolved = "none" /\ e.kind = "other"
  <2>1. after.resolved = "none" /\ after.text = scan.text
    BY <1>6, <1>14
  <2>2. now = said
    <3>1. Spoken(e) = <<>>
      BY <1>14 DEF Spoken
    <3>2. QED
      BY <1>3, <3>1, ConcatEmptySeq
  <2>3. Goal
    BY <1>11, <1>12, <1>14, <2>1, <2>2
  <2>4. QED
    BY <1>9, <2>3, JudgedIs DEF after, now
<1>15. CASE scan.resolved = "none" /\ e.kind = "block"
  <2>1. after.resolved = "Clean"
    BY <1>6, <1>15
  <2>2. ASSUME ~cut PROVE ~OpensWithSentinel(answer)
    <3>1. scan.text = said /\ ~Found(said) /\ Calm(answer, c)
      BY <1>11, <1>15, <2>2 DEF Same
    <3>2. Opens(answer, c)
      BY <1>15, <3>1 DEF Opens
    <3>3. OpeningText(answer) = said
      BY <3>2, OpeningIs DEF said, UpToEvent
    <3>4. QED
      BY <3>1, <3>3 DEF OpensWithSentinel, Found
  <2>3. Goal
    BY <2>1, <2>2
  <2>4. QED
    BY <1>9, <2>3, JudgedIs DEF after, now
<1>16. CASE scan.resolved = "none" /\ e.kind = "text"
  <2>1. after.text = added /\ after.resolved = IF Found(added) THEN "Sentinel" ELSE "none"
    BY <1>6, <1>16
  <2>2. Calm(answer, c + 1)
    BY <1>11, <1>12, <1>16
  <2>3. Same(added, now, cut)
    <3>1. Spoken(e) = e.text
      BY <1>16 DEF Spoken
    <3>2. Same(scan.text, said, cut) /\ Same(read, e.text, cut)
      BY <1>11, <1>16 DEF read
    <3>3. Same(scan.text \o read, said \o e.text, cut)
      BY <1>4, <1>5, <3>2, SameLonger
    <3>4. QED
      BY <1>3, <3>1, <3>3 DEF added
  <2>4. ASSUME Found(added) PROVE OpensWithSentinel(answer)
    <3>1. Found(now)
      BY <1>4, <1>7, <2>3, <2>4, FoundInSame
    <3>2. Begins(now, OpeningText(answer)) /\ OpeningText(answer) \in Seq(Alphabet)
      BY <1>1, <2>2, SaidBegins DEF now
    <3>3. Found(OpeningText(answer))
      BY <1>3, <3>1, <3>2, FoundInLonger
    <3>4. QED
      BY <3>3 DEF OpensWithSentinel, Found
  <2>5. Goal
    BY <2>1, <2>2, <2>3, <2>4
  <2>6. QED
    BY <1>9, <2>5, JudgedIs DEF after, now
<1>17. QED
  BY <1>2, <1>13, <1>14, <1>15, <1>16

\* The lines that a chunk ends are absorbed, one after another.
LEMMA LinesJudged ==
    ASSUME answer \in Seq(Event), NEW c \in 0..Len(answer), NEW scan \in ScanType, NEW cut,
           Judged(scan, c, cut), NEW lines, Len(lines) \in Nat, c + Len(lines) <= Len(answer),
           Told(answer, lines, c, cut)
    PROVE  Absorbed(scan, lines) \in ScanType /\ Judged(Absorbed(scan, lines), c + Len(lines), cut)
<1> DEFINE N == Len(lines)
<1>1. N \in Nat /\ Len(answer) \in Nat /\ c \in Nat
  BY LenProperties
<1>2. ASSUME NEW n \in 1..N
      PROVE  /\ Legible(lines[n]) /\ KindOf(lines[n]) = answer[c + n].kind
             /\ Same(Tail(lines[n]), answer[c + n].text, cut)
  <2>1. Tells(lines[n], answer[c + n], cut)
    BY DEF Told
  <2>2. c + n \in 1..Len(answer)
    BY <1>1
  <2>3. answer[c + n] \in AnyEvent
    BY <2>2, ElementOfSeq, AnEvent
  <2>4. Reading(answer[c + n], lines[n], Tail(lines[n])) /\ lines[n] # <<>>
    BY <2>1 DEF Tells, LineOf, Reading
  <2>5. KindOf(lines[n]) = answer[c + n].kind
    BY <2>3, <2>4, ReadingFacts
  <2>6. QED
    BY <2>1, <2>4, <2>5 DEF Tells, Reading, Legible
<1>3. PICK f : Absorbs(f, scan, lines)
  BY <1>2, AbsorbsExists
<1>4. Absorbed(scan, lines) = f[N]
  BY <1>3, AbsorbedIs
<1>5. /\ f \in [0..N -> ScanType] /\ f[0] = scan
      /\ \A n \in 1..N : f[n] = Absorb(f[n - 1], lines[n])
  BY <1>3 DEF Absorbs
<1> DEFINE T == {n \in 0..N : Judged(f[n], c + n, cut)}
<1>6. 0 \in T
  BY <1>1, <1>5
<1>7. \A n \in 0..N : n \in T /\ n < N => n + 1 \in T
  <2>1. SUFFICES ASSUME NEW n \in 0..N, n \in T, n < N PROVE n + 1 \in T
    OBVIOUS
  <2>2. /\ n + 1 \in 0..N /\ n + 1 \in 1..N /\ (n + 1) - 1 = n
        /\ c + n \in 0..Len(answer) /\ c + n < Len(answer) /\ (c + n) + 1 = c + (n + 1)
    BY <1>1, <2>1
  <2>3. f[n] \in ScanType /\ f[n + 1] = Absorb(f[n], lines[n + 1]) /\ Judged(f[n], c + n, cut)
    BY <1>5, <2>1, <2>2
  <2>4. /\ Legible(lines[n + 1]) /\ KindOf(lines[n + 1]) = answer[(c + n) + 1].kind
        /\ Same(Tail(lines[n + 1]), answer[(c + n) + 1].text, cut)
    BY <1>2, <2>2
  <2>5. Judged(Absorb(f[n], lines[n + 1]), (c + n) + 1, cut)
    BY <2>2, <2>3, <2>4, LineJudged
  <2>6. QED
    BY <2>2, <2>3, <2>5
<1> HIDE DEF T
<1>8. N \in T /\ N \in 0..N
  <2>1. \A n \in 0..N : n \in T
    BY <1>1, <1>6, <1>7, UpTo
  <2>2. QED
    BY <1>1, <2>1
<1>9. QED
  BY <1>4, <1>5, <1>8 DEF T

-----------------------------------------------------------------------------
\* The invariant.

\* What a verdict says of the answer.
Means(verdict, scan, c, cut) ==
    /\ verdict = "Sentinel" => OpensWithSentinel(answer)
    /\ verdict = "Clean" => (~cut => ~OpensWithSentinel(answer))
    /\ verdict \notin {"Sentinel", "Clean"} => scan.resolved = "none" /\ Open(scan.text)
    /\ scan.resolved = "none" /\ c = Len(answer) => (~cut => ~OpensWithSentinel(answer))

LEMMA VerdictHolds ==
    ASSUME answer \in Seq(Event), NEW c \in 0..Len(answer), NEW cut,
           NEW scan, scan \in ScanType, Judged(scan, c, cut), NEW verdict,
           verdict = IF scan.resolved # "none" THEN scan.resolved ELSE CheckSentinel(scan.text)
    PROVE  Means(verdict, scan, c, cut)
<1>1. scan.resolved \in {"none", "Sentinel", "Clean"} /\ scan.text \in Seq(Characters)
  BY DEF ScanType
<1>2. /\ scan.resolved = "none" =>
             Calm(answer, c) /\ Same(scan.text, Said(UpToEvent(c)), cut) /\ ~Found(scan.text)
      /\ scan.resolved = "Sentinel" => OpensWithSentinel(answer)
      /\ scan.resolved = "Clean" => (~cut => ~OpensWithSentinel(answer))
  BY <1>1, JudgedIs
<1>3. CASE scan.resolved # "none"
  BY <1>1, <1>2, <1>3 DEF Means
<1>4. CASE scan.resolved = "none"
  <2>1. Calm(answer, c) /\ Same(scan.text, Said(UpToEvent(c)), cut) /\ ~Found(scan.text)
    BY <1>2, <1>4
  <2>2. verdict = IF Open(scan.text) THEN "Undetermined" ELSE "Clean"
    BY <1>4, <2>1 DEF CheckSentinel
  <2>3. ASSUME ~Open(scan.text), ~cut PROVE ~OpensWithSentinel(answer)
    <3>1. scan.text = Said(UpToEvent(c))
      BY <2>1, <2>3 DEF Same
    <3>2. Begins(scan.text, OpeningText(answer)) /\ OpeningText(answer) \in Seq(Alphabet)
      BY <2>1, <3>1, SaidBegins
    <3>3. OpeningText(answer) \in Seq(Characters)
      BY <3>2, SymbolFacts, SeqMonotonic
    <3>4. ~Found(OpeningText(answer))
      BY <1>1, <2>1, <2>3, <3>2, <3>3, CleanStays
    <3>5. QED
      BY <3>4 DEF OpensWithSentinel, Found
  <2>4. ASSUME c = Len(answer), ~cut PROVE ~OpensWithSentinel(answer)
    <3>1. scan.text = Said(UpToEvent(c))
      BY <2>1, <2>4 DEF Same
    <3>2. Opens(answer, c)
      <4>1. ~(c < Len(answer))
        BY <2>4, LenProperties
      <4>2. QED
        BY <2>1, <4>1 DEF Opens
    <3>3. OpeningText(answer) = scan.text
      BY <3>1, <3>2, OpeningIs DEF UpToEvent
    <3>4. QED
      BY <2>1, <3>3 DEF OpensWithSentinel, Found
  <2>5. QED
    BY <1>4, <2>2, <2>3, <2>4 DEF Means
<1>5. QED
  BY <1>3, <1>4

ScanNow == [text |-> text', resolved |-> resolved']

LEMMA ScanOKNow ==
    ASSUME answer' = answer, NEW c \in 0..Len(answer), Lines(raw') = c, Judged(ScanNow, c, split'),
           Stands(answer, pending', rest', c, split', TRUE)
    PROVE  ScanOK'
<1>1. Scan' = ScanNow
  BY DEF Scan, ScanNow
<1>2. Judged(Scan, Lines(raw), split)'
  BY <1>1 DEF Judged, UpToEvent, Scan, ScanNow
<1>3. QED
  BY <1>2 DEF ScanOK

LEMMA InitKeeps ==
    ASSUME Init
    PROVE  IInv
<1>1. /\ raw = <<>> /\ pending = <<>> /\ text = <<>> /\ resolved = "none"
      /\ outcome = "scanning" /\ split = FALSE
  BY DEF Init
<1>2. TypeOK
  <2>1. <<>> \in Seq(Characters) /\ ToSet(<<>>) = {}
    BY DEF ToSet
  <2>2. QED
    BY <1>1, <2>1 DEF TypeOK
<1>3. ASSUME format = "sse"
      PROVE  /\ BytesUntouched /\ answer \in Seq(Event) /\ raw \in Seq(Symbol)
             /\ ScanOK /\ Open(text)
  <2>1. answer \in Streams /\ rest = Encode(answer)
    BY <1>3 DEF Init
  <2>2. answer \in Seq(Event) /\ answer \in Seq(AnyEvent)
    BY <2>1, StreamAssumption, EventsAny
  <2>3. rest \in Seq(Symbol)
    BY <2>1, <2>2, EncodeIs
  <2>4. <<>> \o rest = rest /\ <<>> \in Seq(Symbol)
    BY <2>3, ConcatEmptySeq
  <2>5. Lines(raw) = 0
    BY <1>1, FS_EmptySet DEF Lines
  <2>6. Scan.text = text /\ Scan.resolved = resolved
    BY DEF Scan
  <2>7. Judged(Scan, 0, split)
    <3>1. Said(UpToEvent(0)) = <<>>
      BY <2>2, SaidSteps
    <3>2. Same(text, Said(UpToEvent(0)), split)
      BY <1>1, <3>1 DEF Same
    <3>3. Calm(answer, 0)
      BY DEF Calm
    <3>4. ~Found(text)
      BY <1>1, NothingIsOpen
    <3>5. QED
      BY <1>1, <2>6, <3>2, <3>3, <3>4, JudgedIs
  <2>8. 0 \in 0..Len(answer) /\ rest = Encode(From(answer, 0))
    BY <2>1, <2>2, LenProperties, FromSteps
  <2>9. ScanOK
    BY <1>1, <2>5, <2>7, <2>8 DEF ScanOK, Stands
  <2>10. QED
    BY <1>1, <2>1, <2>2, <2>4, <2>9, NothingIsOpen DEF BytesUntouched
<1>4. NoFalseEscalation /\ SentinelIsFound
  BY <1>1 DEF NoFalseEscalation, SentinelIsFound
<1>5. BytesUntouched
  BY <1>3 DEF BytesUntouched
<1>6. QED
  BY <1>1, <1>2, <1>3, <1>4, <1>5 DEF IInv

LEMMA PushKeeps ==
    ASSUME IInv, format = "sse", outcome = "scanning",
           NEW n \in 1..MaxChunk, n <= Len(rest), Push(n)
    PROVE  IInv'
<1> DEFINE chunk == SubSeq(rest, 1, n)
           drained == Drained(pending, chunk)
           after == Absorbed(Scan, drained.lines)
           cut == split \/ EndsInside(chunk)
           c == Lines(raw)
<1>1. /\ answer \in Seq(Event) /\ answer \in Seq(AnyEvent) /\ raw \in Seq(Symbol)
      /\ ScanOK /\ raw \o rest = Encode(answer)
      /\ text \in Seq(Characters) /\ resolved \in {"none", "Sentinel", "Clean"} /\ split \in BOOLEAN
  BY EventsAny DEF IInv, TypeOK, BytesUntouched
<1>2. Scan \in ScanType
  BY <1>1 DEF Scan, ScanType
<1>3. c \in 0..Len(answer) /\ Judged(Scan, c, split) /\ Stands(answer, pending, rest, c, split, TRUE)
  BY <1>1 DEF ScanOK
<1>4. rest \in Seq(Symbol)
  BY <1>1, <1>3, StandsFacts
<1>5. n \in 1..Len(rest) /\ n \in 0..Len(rest) /\ Len(rest) \in Nat
  <2>1. n \in Nat \ {0} /\ Len(rest) \in Nat
    BY <1>4, ChunkAssumption, LenProperties
  <2>2. QED
    BY <2>1
<1>6. chunk \in Seq(Symbol) /\ Len(chunk) = n /\ \A i \in 1..n : chunk[i] = rest[i]
  BY <1>4, <1>5, FirstFacts
<1>7. (rest[n] = "hi" => cut) /\ (split => cut)
  <2>1. n \in 1..n
    BY <1>5
  <2>2. QED
    BY <1>6, <2>1 DEF EndsInside
<1>8. Arrives(answer, drained, c, c, raw \o chunk, From(rest, n), cut, TRUE)
  <2> HIDE DEF cut
  <2>1. QED
    BY <1>1, <1>3, <1>5, <1>7, ChunkRead
<1>9. PICK c1 \in 0..Len(answer) : /\ At(answer, drained, c, c, raw \o chunk, c1, cut)
                                  /\ Stands(answer, drained.pending, From(rest, n), c1, cut, TRUE)
  BY <1>8 DEF Arrives
<1>10. /\ pending' = drained.pending /\ text' = after.text /\ resolved' = after.resolved
       /\ raw' = raw \o chunk /\ rest' = From(rest, n) /\ split' = cut
       /\ answer' = answer /\ format' = format
       /\ outcome' = CASE Verdict' = "Sentinel" -> "escalate"
                       [] Verdict' = "Clean" -> "deliver"
                       [] OTHER -> "scanning"
  BY DEF Push, Buffered, From
<1>11. cut \in BOOLEAN
  BY <1>1 DEF EndsInside
<1>12. chunk \o From(rest, n) = rest /\ From(rest, n) \in Seq(Symbol)
  <2>1. /\ 1 \in 1..(Len(rest) + 1) /\ n \in (1 - 1)..Len(rest) /\ Len(rest) \in n..Len(rest)
    BY <1>5
  <2>2. SubSeq(rest, 1, n) \o SubSeq(rest, n + 1, Len(rest)) = SubSeq(rest, 1, Len(rest))
    BY <1>4, <2>1, ConcatAdjacentSubSeq
  <2>3. SubSeq(rest, 1, Len(rest)) = rest
    BY <1>4, SubSeqFull
  <2>4. From(rest, n) \in Seq(Symbol)
    BY <1>4, <1>5, FromFacts
  <2>5. QED
    BY <2>2, <2>3, <2>4 DEF From
<1> DEFINE lines == drained.lines
<1> HIDE DEF chunk, cut, c
<1>13. drained.pending \in Seq(Symbol) /\ "eol" \notin ToSet(drained.pending)
  BY <1>1, <1>9, StandsFacts
<1>14. /\ Len(lines) \in Nat /\ c1 = c + Len(lines) /\ Lines(raw \o chunk) = c1
       /\ Told(answer, lines, c, cut)
  <2>1. drained \in ReaderType /\ Counts(drained, c, c, raw \o chunk, c1) /\ Told(answer, drained.lines, c, cut)
    BY <1>9 DEF At
  <2> HIDE DEF drained
  <2>2. drained.lines \in Seq(Seq(Symbol))
    BY <2>1 DEF ReaderType
  <2>3. QED
    BY <2>1, <2>2, LenProperties DEF Counts
<1>15. after \in ScanType /\ Judged(after, c1, cut)
  <2>1. Judged(Scan, c, cut)
    BY <1>2, <1>3, <1>7, JudgedMore
  <2>2. c + Len(lines) <= Len(answer)
    BY <1>9, <1>14, LenProperties
  <2> HIDE DEF lines
  <2>3. /\ Absorbed(Scan, lines) \in ScanType
        /\ Judged(Absorbed(Scan, lines), c + Len(lines), cut)
    BY <1>1, <1>2, <1>3, <1>14, <2>1, <2>2, LinesJudged
  <2>4. QED
    BY <1>14, <2>3 DEF lines
<1> HIDE DEF drained, after, lines
<1>16. BytesUntouched'
  <2>1. Associative(Symbol)
    BY Associativity
  <2>2. (raw \o chunk) \o From(rest, n) = raw \o (chunk \o From(rest, n))
    BY <1>1, <1>6, <1>12, <2>1 DEF Associative
  <2>3. QED
    BY <1>1, <1>10, <1>12, <2>2 DEF BytesUntouched
<1>17. after = ScanNow
  BY <1>10, <1>15 DEF ScanType, ScanNow
<1>18. ScanOK'
  BY <1>9, <1>10, <1>14, <1>15, <1>17, ScanOKNow
<1>19. raw' \in Seq(Symbol)
  BY <1>1, <1>6, <1>10, ConcatProperties
<1> DEFINE verdict == IF after.resolved # "none" THEN after.resolved ELSE CheckSentinel(after.text)
<1>20. Verdict' = verdict
  BY <1>10 DEF Verdict
<1>21. verdict = IF after.resolved # "none" THEN after.resolved ELSE CheckSentinel(after.text)
  OBVIOUS
<1> HIDE DEF verdict
<1>22. Means(verdict, after, c1, cut)
  BY <1>1, <1>15, <1>21, VerdictHolds
<1>23. /\ verdict = "Sentinel" => OpensWithSentinel(answer)
       /\ verdict = "Clean" => (~cut => ~OpensWithSentinel(answer))
       /\ verdict \notin {"Sentinel", "Clean"} => after.resolved = "none" /\ Open(after.text)
  BY <1>22 DEF Means
<1>24. outcome' = IF verdict = "Sentinel" THEN "escalate"
                  ELSE IF verdict = "Clean" THEN "deliver" ELSE "scanning"
  BY <1>10, <1>20
<1>25. TypeOK'
  <2>1. resolved' \in {"none", "Sentinel", "Clean"} /\ text' \in Seq(Characters)
    BY <1>10, <1>15 DEF ScanType
  <2>2. outcome' \in {"scanning", "escalate", "deliver"}
    BY <1>24
  <2>3. QED
    BY <1>10, <1>13, <2>1, <2>2 DEF TypeOK
<1>26. NoFalseEscalation' /\ SentinelIsFound'
  BY <1>10, <1>23, <1>24 DEF NoFalseEscalation, SentinelIsFound
<1>27. (outcome = "scanning" => resolved = "none" /\ Open(text))'
  BY <1>10, <1>23, <1>24
<1>28. answer' \in Seq(Event) /\ split' \in BOOLEAN
  BY <1>1, <1>10, <1>11
<1>29. QED
  BY <1>16, <1>18, <1>19, <1>25, <1>26, <1>27, <1>28 DEF IInv

LEMMA SameScanKeeps ==
    ASSUME IInv, UNCHANGED <<answer, format, rest, raw, pending, text, resolved, split>>,
           outcome' \in {"scanning", "escalate", "deliver"},
           NoFalseEscalation', SentinelIsFound', outcome' = "scanning" => outcome = "scanning"
    PROVE  IInv'
<1>1. format = "sse" => ScanOK'
  <2>1. ScanNow = Scan
    BY DEF ScanNow, Scan
  <2>2. QED
    BY <2>1, ScanOKNow DEF IInv, ScanOK
<1>2. TypeOK' /\ BytesUntouched'
  BY DEF IInv, TypeOK, BytesUntouched
<1>3. QED
  BY <1>1, <1>2 DEF IInv

LEMMA NextKeeps ==
    ASSUME IInv, [Next]_vars
    PROVE  IInv'
<1>1. CASE ReadChunk
  BY <1>1, PushKeeps DEF ReadChunk
<1>2. CASE StreamEnds
  <2>1. /\ format = "sse" /\ outcome = "scanning" /\ rest = <<>> /\ outcome' = "deliver"
        /\ UNCHANGED <<answer, format, rest, raw, pending, text, resolved, split>>
    BY <1>2 DEF StreamEnds
  <2>2. ~split => ~OpensWithSentinel(answer)
    <3>1. /\ answer \in Seq(Event) /\ answer \in Seq(AnyEvent)
          /\ ScanOK /\ resolved = "none" /\ text \in Seq(Characters)
      BY <2>1, EventsAny DEF IInv, TypeOK
    <3>2. Scan \in ScanType /\ Scan.resolved = "none"
      BY <3>1 DEF Scan, ScanType
    <3> DEFINE c == Lines(raw)
    <3>3. c \in 0..Len(answer) /\ Judged(Scan, c, split) /\ Stands(answer, pending, rest, c, split, TRUE)
      BY <3>1 DEF ScanOK
    <3> HIDE DEF c
    <3>4. c = Len(answer)
      BY <2>1, <3>1, <3>3, StandsFacts
    <3> DEFINE verdict == IF Scan.resolved # "none" THEN Scan.resolved ELSE CheckSentinel(Scan.text)
    <3>5. verdict = IF Scan.resolved # "none" THEN Scan.resolved ELSE CheckSentinel(Scan.text)
      OBVIOUS
    <3> HIDE DEF verdict
    <3>6. Means(verdict, Scan, c, split)
      BY <3>1, <3>2, <3>3, <3>5, VerdictHolds
    <3>7. QED
      BY <3>2, <3>4, <3>6 DEF Means
  <2>3. NoFalseEscalation' /\ SentinelIsFound'
    BY <2>1, <2>2 DEF NoFalseEscalation, SentinelIsFound
  <2>4. QED
    BY <2>1, <2>3, SameScanKeeps
<1>3. CASE ReadJson
  <2>1. /\ format = "json" /\ outcome' \in {"escalate", "deliver"}
        /\ UNCHANGED <<answer, format, rest, raw, pending, text, resolved, split>>
    BY <1>3 DEF ReadJson
  <2>2. NoFalseEscalation' /\ SentinelIsFound'
    BY <2>1 DEF NoFalseEscalation, SentinelIsFound
  <2>3. QED
    BY <2>1, <2>2, SameScanKeeps
<1>4. CASE UNCHANGED vars
  <2>1. outcome' = outcome /\ UNCHANGED <<answer, format, rest, raw, pending, text, resolved, split>>
    BY <1>4 DEF vars
  <2>2. NoFalseEscalation' /\ SentinelIsFound' /\ outcome' \in {"scanning", "escalate", "deliver"}
    BY <2>1 DEF IInv, TypeOK, NoFalseEscalation, SentinelIsFound
  <2>3. QED
    BY <2>1, <2>2, SameScanKeeps
<1>5. QED
  BY <1>1, <1>2, <1>3, <1>4 DEF Next

-----------------------------------------------------------------------------
\* The theorems.

\* For any sentinel that begins with no white space, any answers and any way to
\* cut them into chunks, IInv always holds: the scanner of src/stream.rs is where
\* the bytes it has got say, and its text is what the events said, or what is
\* left of that where a chunk cut a character.
THEOREM ScanInvariant == Spec => []IInv
<1>1. Init => IInv
  BY InitKeeps
<1>2. IInv /\ [Next]_vars => IInv'
  BY NextKeeps
<1>3. QED
  BY <1>1, <1>2, PTL DEF Spec

\* The scanned text is made of characters, and a line that is still open holds no
\* end of line: push leaves none behind.
THEOREM ScanTyped == Spec => []TypeOK
<1>1. IInv => TypeOK
  BY DEF IInv
<1>2. QED
  BY <1>1, ScanInvariant, PTL

\* However the stream is cut into chunks, inside a character too, only an answer
\* that opens with the sentinel escalates.
THEOREM EscalationIsMeant == Spec => []NoFalseEscalation
<1>1. IInv => NoFalseEscalation
  BY DEF IInv
<1>2. QED
  BY <1>1, ScanInvariant, PTL

\* When no chunk ends inside a character, an answer that is delivered does not
\* open with the sentinel: not its white space, nor an event before it, nor the
\* end of a chunk in the middle of it hides it.
THEOREM SentinelNeverMissed == Spec => []SentinelIsFound
<1>1. IInv => SentinelIsFound
  BY DEF IInv
<1>2. QED
  BY <1>1, ScanInvariant, PTL

\* The client is kept waiting only while what has come may still turn out to open
\* with the sentinel.
THEOREM HeldWhileOpen == Spec => []HeldOnlyWhileOpen
<1>1. IInv => HeldOnlyWhileOpen
  <2>1. SUFFICES ASSUME IInv, outcome = "scanning", format = "sse", ~split
                 PROVE  /\ \A i \in DOMAIN SubSeq(answer, 1, Lines(raw)) :
                              SubSeq(answer, 1, Lines(raw))[i].kind # "block"
                        /\ IsPrefix(TrimStart(OpeningText(SubSeq(answer, 1, Lines(raw)))), Sentinel)
    BY DEF HeldOnlyWhileOpen
  <2> DEFINE c == Lines(raw)
  <2>2. /\ answer \in Seq(Event) /\ ScanOK
        /\ resolved = "none" /\ Open(text)
    BY <2>1 DEF IInv
  <2>3. c \in 0..Len(answer) /\ Judged(Scan, c, split)
    BY <2>2 DEF ScanOK
  <2>4. Scan.resolved = "none" /\ Scan.text = text
    BY <2>2 DEF Scan
  <2> HIDE DEF c
  <2>5. Calm(answer, c) /\ text = Said(UpToEvent(c))
    BY <2>1, <2>3, <2>4, JudgedIs DEF Same
  <2> DEFINE seen == SubSeq(answer, 1, c)
  <2>6. seen \in Seq(Event) /\ Len(seen) = c /\ \A i \in 1..c : seen[i] = answer[i]
    BY <2>2, <2>3, FirstFacts
  <2>7. Said(seen) = text
    BY <2>5 DEF UpToEvent
  <2> HIDE DEF seen
  <2>8. Opens(seen, c)
    <3>1. c \in 0..Len(seen) /\ ~(c < Len(seen))
      BY <2>6
    <3>2. Calm(seen, c)
      BY <2>5, <2>6 DEF Calm
    <3>3. QED
      BY <3>1, <3>2 DEF Opens
  <2>9. OpeningText(seen) = text
    <3>1. OpeningText(seen) = Said(SubSeq(seen, 1, c))
      BY <2>6, <2>8, OpeningIs
    <3>2. SubSeq(seen, 1, c) = seen
      BY <2>6, SubSeqFull
    <3>3. QED
      BY <2>7, <3>1, <3>2
  <2>10. \A i \in DOMAIN seen : seen[i].kind # "block"
    <3>1. DOMAIN seen = 1..c
      BY <2>6, LenProperties
    <3>2. QED
      BY <2>5, <2>6, <3>1 DEF Calm
  <2>11. QED
    BY <2>2, <2>9, <2>10 DEF Open, seen, c
<1>2. QED
  BY <1>1, ScanInvariant, PTL

\* What is kept for the client and what is still to come are the upstream's bytes,
\* in order.
THEOREM BytesVerbatim == Spec => []BytesUntouched
<1>1. IInv => BytesUntouched
  BY DEF IInv
<1>2. QED
  BY <1>1, ScanInvariant, PTL
=============================================================================
