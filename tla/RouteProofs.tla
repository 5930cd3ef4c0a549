----------------------------- MODULE RouteProofs ----------------------------
(***************************************************************************)
(* Routing, for sessions of any length, messages of any number of parts    *)
(* and any provider table: IInv of RouteResolution is inductive, so that   *)
(* the first text command of a session governs the rest of it, nothing     *)
(* empty goes upstream, stripping a command costs the conversation nothing *)
(* but that command, and what went upstream is sent again as it was.       *)
(***************************************************************************)
EXTENDS RouteResolution, SequenceTheorems, TLAPS

\* The lemmas about induction and flattening, which are about any sequences.
Induction == INSTANCE ChunkedBytesProofs WITH Alphabet <- {}

-----------------------------------------------------------------------------
\* Sequences.

\* One more element.
LEMMA OneMore ==
    ASSUME NEW S, NEW s \in Seq(S), NEW e \in S
    PROVE  /\ Append(s, e) \in Seq(S) /\ Len(Append(s, e)) = Len(s) + 1
           /\ Append(s, e)[Len(s) + 1] = e /\ \A n \in 1..Len(s) : Append(s, e)[n] = s[n]
BY AppendProperties

LEMMA AppendConcat ==
    ASSUME NEW S, NEW s \in Seq(S), NEW t \in Seq(S), NEW e \in S
    PROVE  s \o Append(t, e) = Append(s \o t, e)
<1>1. Append(t, e) = t \o <<e>> /\ <<e>> \in Seq(S)
  BY AppendIsConcat
<1>2. s \o t \in Seq(S)
  BY ConcatProperties
<1>3. Append(s \o t, e) = (s \o t) \o <<e>>
  BY <1>2, AppendIsConcat
<1>4. (s \o t) \o <<e>> = s \o (t \o <<e>>)
  BY <1>1, ConcatAssociative
<1>5. QED
  BY <1>1, <1>3, <1>4

\* Some numbers up to a bound have a greatest one.
LEMMA GreatestNumber ==
    ASSUME NEW N \in Nat, NEW T \in SUBSET (0..N), T # {}
    PROVE  \E n \in T : \A m \in T : m <= n
<1> DEFINE D == {N - n : n \in T}
<1>1. D \in SUBSET Nat /\ D # {}
  <2>1. \A n \in T : N - n \in Nat
    OBVIOUS
  <2>2. PICK n \in T : TRUE
    OBVIOUS
  <2>3. N - n \in D
    OBVIOUS
  <2>4. QED
    BY <2>1, <2>3
<1>2. PICK d \in D : \A e \in D : d <= e
  BY <1>1, Induction!LeastNumber
<1>3. PICK n \in T : d = N - n
  OBVIOUS
<1>4. \A m \in T : N - n <= N - m
  BY <1>2, <1>3
<1>5. \A m \in T : m <= n
  BY <1>4
<1>6. QED
  BY <1>5

\* A piece of a sequence.
LEMMA PieceIs ==
    ASSUME NEW S, NEW s \in Seq(S), NEW a \in 1..(Len(s) + 1), NEW b \in (a - 1)..Len(s)
    PROVE  /\ SubSeq(s, a, b) \in Seq(S) /\ Len(SubSeq(s, a, b)) = (b - a) + 1
           /\ \A i \in 1..((b - a) + 1) : SubSeq(s, a, b)[i] = s[a + i - 1]
<1> DEFINE N == Len(s)  piece == SubSeq(s, a, b)
<1>1. N \in Nat /\ a \in 1..(N + 1) /\ b \in (a - 1)..N /\ \A i \in 1..N : s[i] \in S
  BY LenProperties, ElementOfSeq
<1> HIDE DEF N
<1>2. a \in Int /\ b \in Int /\ \A i \in a..b : s[i] \in S
  BY <1>1
<1>3. /\ piece \in Seq(S) /\ Len(piece) = IF a <= b THEN b - a + 1 ELSE 0
      /\ \A i \in 1..(b - a + 1) : piece[i] = s[a + i - 1]
  BY <1>2, SubSeqProperties
<1> HIDE DEF piece
<1>4. /\ piece \in Seq(S) /\ Len(piece) = (b - a) + 1
      /\ \A i \in 1..((b - a) + 1) : piece[i] = s[a + i - 1]
  BY <1>1, <1>3
<1>5. QED
  BY <1>4 DEF piece

\* Both modules take FlattenSeq from the same place.
LEMMA FlattenSame ==
    ASSUME NEW ss
    PROVE  FlattenSeq(ss) = Induction!FlattenSeq(ss)
BY DEF FlattenSeq, Induction!FlattenSeq

LEMMA FlattenTyped ==
    ASSUME NEW S, NEW ss \in Seq(Seq(S))
    PROVE  FlattenSeq(ss) \in Seq(S) /\ FlattenSeq(<<>>) = <<>>
BY Induction!FlattenType, FlattenSame

\* An empty sequence among others adds nothing to them.
LEMMA FlattenDrops ==
    ASSUME NEW S, NEW ss \in Seq(Seq(S)), NEW tt \in Seq(Seq(S)), NEW k \in 1..Len(ss),
           ss[k] = <<>>, Len(tt) = Len(ss) - 1,
           \A i \in 1..(k - 1) : tt[i] = ss[i],
           \A i \in k..Len(tt) : tt[i] = ss[i + 1]
    PROVE  FlattenSeq(tt) = FlattenSeq(ss)
<1> DEFINE N == Len(tt)
           g(f) == [n \in 0..N |-> IF n < k THEN f[n] ELSE f[n + 1]]
<1>1. N \in Nat /\ Len(ss) = N + 1 /\ k \in 1..(N + 1)
  BY LenProperties
<1>2. PICK f : Induction!Flattens(f, ss, S)
  BY Induction!FlattensExists
<1>3. /\ f \in [0..(N + 1) -> Seq(S)] /\ f[0] = <<>>
      /\ \A n \in 1..(N + 1) : f[n] = f[n - 1] \o ss[n]
  BY <1>1, <1>2 DEF Induction!Flattens
<1>4. /\ \A i \in 1..(k - 1) : tt[i] = ss[i]
      /\ \A i \in k..N : tt[i] = ss[i + 1]
      /\ ss[k] = <<>>
  OBVIOUS
<1>5. f[k] = f[k - 1]
  <2> HIDE DEF N
  <2>1. k - 1 \in 0..(N + 1)
    BY <1>1
  <2>2. f[k - 1] \in Seq(S)
    BY <1>3, <2>1
  <2>3. f[k - 1] \o <<>> = f[k - 1]
    BY <2>2, ConcatEmptySeq
  <2>4. QED
    BY <1>1, <1>3, <1>4, <2>3
<1>6. Induction!Flattens(g(f), tt, S)
  <2> HIDE DEF N
  <2>1. \A n \in 0..N : n \in 0..(N + 1) /\ n + 1 \in 0..(N + 1)
    BY <1>1
  <2>2. g(f) \in [0..N -> Seq(S)]
    BY <1>3, <2>1
  <2>3. g(f)[0] = <<>>
    BY <1>1, <1>3
  <2>4. ASSUME NEW n \in 1..N
        PROVE  g(f)[n] = g(f)[n - 1] \o tt[n]
    <3>1. n \in 0..N /\ n - 1 \in 0..N
      BY <1>1
    <3>2. CASE n < k
      <4>1. n \in 1..(k - 1) /\ n \in 1..(N + 1) /\ n - 1 < k
        BY <1>1, <3>2
      <4>2. QED
        BY <1>3, <1>4, <3>1, <3>2, <4>1
    <3>3. CASE n = k
      <4>1. n \in k..N /\ n + 1 \in 1..(N + 1) /\ (n + 1) - 1 = n /\ n - 1 < k /\ ~(n < k)
        BY <1>1, <3>3
      <4>2. g(f)[n] = f[n + 1] /\ g(f)[n - 1] = f[n - 1]
        BY <3>1, <4>1
      <4>3. f[n + 1] = f[n] \o ss[n + 1]
        BY <1>3, <4>1
      <4>4. QED
        BY <1>4, <1>5, <3>3, <4>1, <4>2, <4>3
    <3>4. CASE n > k
      <4>1. n \in k..N /\ n + 1 \in 1..(N + 1) /\ (n + 1) - 1 = (n - 1) + 1 /\ ~(n - 1 < k) /\ ~(n < k)
        BY <1>1, <3>4
      <4>2. g(f)[n] = f[n + 1] /\ g(f)[n - 1] = f[(n - 1) + 1]
        BY <3>1, <4>1
      <4>3. f[n + 1] = f[(n + 1) - 1] \o ss[n + 1]
        BY <1>3, <4>1
      <4>4. QED
        BY <1>4, <4>1, <4>2, <4>3
    <3>5. n < k \/ n = k \/ n > k
      BY <1>1
    <3> HIDE DEF g
    <3>6. QED
      BY <3>2, <3>3, <3>4, <3>5
  <2> HIDE DEF g
  <2>5. QED
    BY <2>2, <2>3, <2>4 DEF Induction!Flattens, N
<1>7. Induction!FlattenSeq(tt) = g(f)[N] /\ Induction!FlattenSeq(ss) = f[N + 1]
  <2>1. Induction!FlattenSeq(ss) = f[Len(ss)]
    BY <1>2, Induction!FlattensIs
  <2> HIDE DEF g
  <2>2. Induction!FlattenSeq(tt) = g(f)[Len(tt)]
    BY <1>6, Induction!FlattensIs
  <2>3. QED
    BY <1>1, <2>1, <2>2
<1>8. g(f)[N] = f[N + 1]
  <2> HIDE DEF N
  <2>1. CASE N < k
    <3>1. N + 1 = k /\ k - 1 = N /\ N \in 0..N
      BY <1>1, <2>1
    <3>2. QED
      BY <1>5, <2>1, <3>1
  <2>2. CASE ~(N < k)
    BY <1>1, <2>2
  <2>3. QED
    BY <2>1, <2>2
<1>9. QED
  BY <1>7, <1>8, FlattenSame

\* What RemoveAt leaves, and where.
LEMMA RemoveAtIs ==
    ASSUME NEW S, NEW s \in Seq(S), NEW k \in 1..Len(s)
    PROVE  /\ RemoveAt(s, k) \in Seq(S) /\ Len(RemoveAt(s, k)) = Len(s) - 1
           /\ \A i \in 1..(k - 1) : RemoveAt(s, k)[i] = s[i]
           /\ \A i \in k..(Len(s) - 1) : RemoveAt(s, k)[i] = s[i + 1]
<1> DEFINE N == Len(s)
           front == SubSeq(s, 1, k - 1)
           back == SubSeq(s, k + 1, N)
<1>1. N \in Nat /\ k \in 1..N
  BY LenProperties
<1>2. /\ front \in Seq(S) /\ Len(front) = ((k - 1) - 1) + 1
      /\ \A i \in 1..(((k - 1) - 1) + 1) : front[i] = s[1 + i - 1]
  <2>1. 1 \in 1..(N + 1) /\ k - 1 \in (1 - 1)..N
    BY <1>1
  <2>2. QED
    BY <2>1, PieceIs
<1>3. /\ back \in Seq(S) /\ Len(back) = (N - (k + 1)) + 1
      /\ \A i \in 1..((N - (k + 1)) + 1) : back[i] = s[(k + 1) + i - 1]
  <2>1. k + 1 \in 1..(N + 1) /\ N \in ((k + 1) - 1)..N
    BY <1>1
  <2>2. QED
    BY <2>1, PieceIs
<1>4. RemoveAt(s, k) = front \o back
  BY DEF RemoveAt
<1> HIDE DEF N, front, back
<1>5. Len(front) = k - 1 /\ \A i \in 1..(k - 1) : front[i] = s[i]
  BY <1>1, <1>2
<1>6. Len(back) = N - k /\ \A i \in 1..(N - k) : back[i] = s[k + i]
  BY <1>1, <1>3
<1>7. /\ front \o back \in Seq(S) /\ Len(front \o back) = Len(front) + Len(back)
      /\ \A i \in 1..(Len(front) + Len(back)) :
           (front \o back)[i] = IF i <= Len(front) THEN front[i] ELSE back[i - Len(front)]
  BY <1>2, <1>3, ConcatProperties
<1>8. Len(front) + Len(back) = N - 1
  BY <1>1, <1>5, <1>6
<1>9. \A i \in 1..(k - 1) : (front \o back)[i] = s[i]
  BY <1>1, <1>5, <1>7, <1>8
<1>10. ASSUME NEW i \in k..(N - 1)
       PROVE  (front \o back)[i] = s[i + 1]
  <2>1. i \in 1..(N - 1) /\ ~(i <= k - 1) /\ i - (k - 1) \in 1..(N - k) /\ k + (i - (k - 1)) = i + 1
    BY <1>1
  <2>2. (front \o back)[i] = back[i - (k - 1)]
    BY <1>5, <1>7, <1>8, <2>1
  <2>3. QED
    BY <1>6, <2>1, <2>2
<1>11. QED
  BY <1>4, <1>7, <1>8, <1>9, <1>10 DEF N

\* What RemoveAt leaves were elements before.
LEMMA RemoveAtElements ==
    ASSUME NEW S, NEW s \in Seq(S), NEW k \in DOMAIN s
    PROVE  /\ RemoveAt(s, k) \in Seq(S)
           /\ \A i \in DOMAIN RemoveAt(s, k) : \E j \in DOMAIN s : RemoveAt(s, k)[i] = s[j]
<1> DEFINE N == Len(s)  less == RemoveAt(s, k)
<1>1. N \in Nat /\ DOMAIN s = 1..N /\ k \in 1..N
  BY LenProperties
<1>2. /\ less \in Seq(S) /\ Len(less) = N - 1
      /\ \A i \in 1..(k - 1) : less[i] = s[i]
      /\ \A i \in k..(N - 1) : less[i] = s[i + 1]
  BY <1>1, RemoveAtIs
<1> HIDE DEF N, less
<1>3. DOMAIN less = 1..(N - 1)
  BY <1>2, LenProperties
<1>4. ASSUME NEW i \in 1..(N - 1)
      PROVE  \E j \in 1..N : less[i] = s[j]
  <2>1. CASE i < k
    BY <1>1, <1>2, <2>1
  <2>2. CASE ~(i < k)
    <3>1. i \in k..(N - 1) /\ i + 1 \in 1..N
      BY <1>1, <2>2
    <3>2. QED
      BY <1>2, <3>1
  <2>3. QED
    BY <2>1, <2>2
<1>5. QED
  BY <1>1, <1>2, <1>3, <1>4 DEF less

-----------------------------------------------------------------------------
\* The commands of a conversation.

\* There is a command in part b of message i.
CommandAt(messages, i, b) ==
    /\ i \in DOMAIN messages /\ messages[i].role = "user"
    /\ b \in DOMAIN messages[i].parts /\ IsCommand(messages[i].parts[b])

LEMMA CommandsAt ==
    ASSUME NEW messages
    PROVE  /\ \A p \in Commands(messages) : p = <<p[1], p[2]>> /\ CommandAt(messages, p[1], p[2])
           /\ \A i, b : CommandAt(messages, i, b) => <<i, b>> \in Commands(messages)
<1>1. ASSUME NEW p \in Commands(messages)
      PROVE  p = <<p[1], p[2]>> /\ CommandAt(messages, p[1], p[2])
  <2>1. PICK i \in DOMAIN messages : \E b \in DOMAIN messages[i].parts :
          p = <<i, b>> /\ messages[i].role = "user" /\ IsCommand(messages[i].parts[b])
    BY DEF Commands
  <2>2. PICK b \in DOMAIN messages[i].parts :
          p = <<i, b>> /\ messages[i].role = "user" /\ IsCommand(messages[i].parts[b])
    BY <2>1
  <2>3. p[1] = i /\ p[2] = b
    BY <2>2
  <2>4. QED
    BY <2>2, <2>3 DEF CommandAt
<1>2. ASSUME NEW i, NEW b, CommandAt(messages, i, b)
      PROVE  <<i, b>> \in Commands(messages)
  BY <1>2 DEF Commands, CommandAt
<1>3. QED
  BY <1>1, <1>2

\* The places of commands are pairs of numbers.
LEMMA PlacesAreNumbers ==
    ASSUME NEW messages \in Seq(Message), NEW p \in Commands(messages)
    PROVE  p[1] \in Nat /\ p[2] \in Nat
<1>1. CommandAt(messages, p[1], p[2])
  BY CommandsAt
<1>2. p[1] \in DOMAIN messages /\ p[2] \in DOMAIN messages[p[1]].parts
  BY <1>1 DEF CommandAt
<1>3. messages[p[1]] \in Message
  BY <1>2, ElementOfSeq, LenProperties
<1>4. messages[p[1]].parts \in Seq(Texts)
  BY <1>3 DEF Message
<1>5. DOMAIN messages = 1..Len(messages) /\ Len(messages) \in Nat
  BY LenProperties
<1>6. \A parts \in Seq(Texts) : DOMAIN parts = 1..Len(parts) /\ Len(parts) \in Nat
  BY LenProperties
<1>7. \A n \in Nat : 1..n \subseteq Nat
  OBVIOUS
<1>8. QED
  BY <1>2, <1>4, <1>5, <1>6, <1>7

\* Where there is a command there is a first one ...
LEMMA FirstExists ==
    ASSUME NEW messages \in Seq(Message), Commands(messages) # {}
    PROVE  FirstCommand(messages) # {}
<1> DEFINE rows == {p[1] : p \in Commands(messages)}
<1>1. rows \subseteq Nat /\ rows # {}
  BY PlacesAreNumbers
<1>2. PICK i \in rows : \A n \in rows : i <= n
  BY <1>1, Induction!LeastNumber
<1> DEFINE columns == {p[2] : p \in {p \in Commands(messages) : p[1] = i}}
<1>3. columns \subseteq Nat /\ columns # {}
  BY <1>2, PlacesAreNumbers
<1>4. PICK b \in columns : \A n \in columns : b <= n
  BY <1>3, Induction!LeastNumber
<1>5. PICK p \in Commands(messages) : p[1] = i /\ p[2] = b
  BY <1>4
<1>6. ASSUME NEW q \in Commands(messages)
      PROVE  FirstOf(p, q)
  <2>1. i \in Nat /\ q[1] \in Nat /\ i <= q[1]
    BY <1>1, <1>2
  <2>2. q[1] = i => b <= q[2]
    BY <1>4
  <2>3. i < q[1] \/ q[1] = i
    BY <2>1
  <2>4. QED
    BY <1>5, <2>2, <2>3 DEF FirstOf
<1>7. QED
  BY <1>6 DEF FirstCommand

\* ... and it is the only one.
LEMMA FirstUnique ==
    ASSUME NEW messages \in Seq(Message),
           NEW p \in FirstCommand(messages), NEW q \in FirstCommand(messages)
    PROVE  p = q
<1>1. p \in Commands(messages) /\ q \in Commands(messages) /\ FirstOf(p, q) /\ FirstOf(q, p)
  BY DEF FirstCommand
<1>2. p[1] \in Nat /\ p[2] \in Nat /\ q[1] \in Nat /\ q[2] \in Nat
  BY <1>1, PlacesAreNumbers
<1>3. p[1] = q[1] /\ p[2] = q[2]
  BY <1>1, <1>2 DEF FirstOf
<1>4. p = <<p[1], p[2]>> /\ q = <<q[1], q[2]>>
  BY <1>1, CommandsAt
<1>5. QED
  BY <1>3, <1>4

\* What resolve_route makes of a conversation: the route of its first command,
\* or that of the field.
LEMMA Resolved ==
    ASSUME NEW messages \in Seq(Message), NEW f
    PROVE  /\ Commands(messages) = {} => Resolve(messages, f).route = FieldRoute(f)
           /\ \A p \in FirstCommand(messages) :
                Resolve(messages, f).route = CommandRoute(messages[p[1]].parts[p[2]])
<1>1. FirstCommand(messages) = {} => Resolve(messages, f).route = FieldRoute(f)
  BY DEF Resolve
<1>2. ASSUME NEW p \in FirstCommand(messages)
      PROVE  Resolve(messages, f).route = CommandRoute(messages[p[1]].parts[p[2]])
  <2>1. (CHOOSE q \in FirstCommand(messages) : TRUE) = p
    BY FirstUnique
  <2>2. QED
    BY <2>1 DEF Resolve, CommandRoute
<1>3. Commands(messages) = {} => FirstCommand(messages) = {}
  BY DEF FirstCommand
<1>4. QED
  BY <1>1, <1>2, <1>3

\* What comes after the conversation changes no command of it: the first stays
\* the first.
LEMMA FirstStays ==
    ASSUME NEW messages \in Seq(Message), NEW longer \in Seq(Message),
           Len(messages) <= Len(longer),
           \A i \in DOMAIN messages : longer[i] = messages[i],
           NEW p \in FirstCommand(messages)
    PROVE  p \in FirstCommand(longer) /\ longer[p[1]] = messages[p[1]]
<1>1. /\ DOMAIN messages = 1..Len(messages) /\ DOMAIN longer = 1..Len(longer)
      /\ Len(messages) \in Nat /\ Len(longer) \in Nat
  BY LenProperties
<1>2. p \in Commands(messages) /\ \A q \in Commands(messages) : FirstOf(p, q)
  BY DEF FirstCommand
<1>3. p = <<p[1], p[2]>> /\ CommandAt(messages, p[1], p[2])
  BY <1>2, CommandsAt
<1>4. p[1] \in DOMAIN messages /\ p[1] \in DOMAIN longer /\ longer[p[1]] = messages[p[1]]
  BY <1>1, <1>3 DEF CommandAt
<1>5. p \in Commands(longer)
  <2>1. CommandAt(longer, p[1], p[2])
    BY <1>3, <1>4 DEF CommandAt
  <2>2. QED
    BY <1>3, <2>1, CommandsAt
<1>6. ASSUME NEW q \in Commands(longer)
      PROVE  FirstOf(p, q)
  <2>1. q = <<q[1], q[2]>> /\ CommandAt(longer, q[1], q[2]) /\ q[1] \in Nat
    BY CommandsAt, PlacesAreNumbers
  <2>2. CASE q[1] \in DOMAIN messages
    <3>1. CommandAt(messages, q[1], q[2])
      BY <2>1, <2>2 DEF CommandAt
    <3>2. q \in Commands(messages)
      BY <2>1, <3>1, CommandsAt
    <3>3. QED
      BY <1>2, <3>2
  <2>3. CASE q[1] \notin DOMAIN messages
    <3>1. q[1] \in 1..Len(longer)
      BY <1>1, <2>1 DEF CommandAt
    <3>2. p[1] < q[1]
      BY <1>1, <1>4, <2>1, <2>3, <3>1
    <3>3. QED
      BY <3>2 DEF FirstOf
  <2>4. QED
    BY <2>2, <2>3
<1>7. QED
  BY <1>4, <1>5, <1>6 DEF FirstCommand

\* A turn: what is sent, and the session after its answer.
TurnMakes(typed, answer, sent, longer) ==
    /\ sent = Append(session, typed)
    /\ longer = session \o <<typed, [role |-> "assistant", parts |-> <<answer>>]>>

\* The session after a turn is what was sent and the answer, in which no command
\* counts.
LEMMA TurnFacts ==
    ASSUME session \in Seq(Message), NEW typed \in Typed, NEW answer \in Answers,
           NEW sent, NEW longer, TurnMakes(typed, answer, sent, longer)
    PROVE  /\ sent \in Seq(Message) /\ longer \in Seq(Message)
           /\ Len(session) <= Len(sent) /\ \A i \in DOMAIN session : sent[i] = session[i]
           /\ longer # <<>> /\ Front(longer) = sent
           /\ Commands(longer) = Commands(sent)
           /\ \A p \in Commands(longer) : longer[p[1]] = sent[p[1]]
<1> DEFINE reply == [role |-> "assistant", parts |-> <<answer>>]
<1>0. sent = Append(session, typed) /\ longer = session \o <<typed, reply>>
  BY DEF TurnMakes
<1>1. typed \in Message /\ typed.role = "user"
  BY MessageAssumption
<1>2. reply \in Message /\ reply.role = "assistant"
  <2>1. answer \in Texts
    BY MessageAssumption
  <2>2. <<answer>> \in Seq(Texts) \ {<<>>}
    BY <2>1
  <2>3. QED
    BY <2>2 DEF Message
<1> HIDE DEF reply
<1>3. Len(session) \in Nat /\ DOMAIN session = 1..Len(session)
  BY LenProperties
<1>4. /\ sent \in Seq(Message) /\ Len(sent) = Len(session) + 1
      /\ \A i \in 1..Len(session) : sent[i] = session[i]
      /\ sent[Len(session) + 1] = typed
  BY <1>0, <1>1, AppendProperties
<1>5. DOMAIN sent = 1..(Len(session) + 1)
  BY <1>4, LenProperties
<1>6. /\ <<typed, reply>> \in Seq(Message) /\ Len(<<typed, reply>>) = 2
      /\ <<typed, reply>>[1] = typed /\ <<typed, reply>>[2] = reply
  BY <1>1, <1>2
<1>7. longer = session \o <<typed, reply>>
  BY <1>0
<1>8. /\ longer \in Seq(Message) /\ Len(longer) = Len(session) + 2
      /\ \A i \in 1..(Len(session) + 2) :
           longer[i] = IF i <= Len(session) THEN session[i] ELSE <<typed, reply>>[i - Len(session)]
  BY <1>6, <1>7, ConcatProperties
<1>9. DOMAIN longer = 1..(Len(session) + 2)
  BY <1>8, LenProperties
<1>10. \A i \in 1..(Len(session) + 1) : longer[i] = sent[i]
  <2>1. SUFFICES ASSUME NEW i \in 1..(Len(session) + 1)
                 PROVE  longer[i] = sent[i]
    OBVIOUS
  <2>2. CASE i <= Len(session)
    BY <1>3, <1>4, <1>8, <2>2
  <2>3. CASE ~(i <= Len(session))
    <3>1. i = Len(session) + 1 /\ i - Len(session) = 1 /\ i \in 1..(Len(session) + 2)
      BY <1>3, <2>3
    <3>2. QED
      BY <1>4, <1>6, <1>8, <2>3, <3>1
  <2>4. QED
    BY <2>2, <2>3
<1>11. longer[Len(session) + 2] = reply
  <2>1. /\ Len(session) + 2 \in 1..(Len(session) + 2) /\ ~(Len(session) + 2 <= Len(session))
        /\ (Len(session) + 2) - Len(session) = 2
    BY <1>3
  <2>2. QED
    BY <1>6, <1>8, <2>1
<1>12. longer # <<>>
  BY <1>3, <1>8, EmptySeq
<1>13. Front(longer) = sent
  <2>1. Front(longer) = SubSeq(longer, 1, Len(session) + 1)
    BY <1>3, <1>8 DEF Front
  <2>2. \A i \in 1..(Len(session) + 1) : longer[i] \in Message
    BY <1>4, <1>5, <1>10, ElementOfSeq
  <2>3. /\ SubSeq(longer, 1, Len(session) + 1) \in Seq(Message)
        /\ Len(SubSeq(longer, 1, Len(session) + 1)) =
             (IF 1 <= Len(session) + 1 THEN (Len(session) + 1) - 1 + 1 ELSE 0)
        /\ \A i \in 1..((Len(session) + 1) - 1 + 1) :
             SubSeq(longer, 1, Len(session) + 1)[i] = longer[1 + i - 1]
    BY <1>3, <2>2, SubSeqProperties
  <2>4. /\ 1 <= Len(session) + 1 /\ (Len(session) + 1) - 1 + 1 = Len(session) + 1
        /\ \A i \in 1..(Len(session) + 1) : 1 + i - 1 = i
    BY <1>3
  <2>5. /\ Len(SubSeq(longer, 1, Len(session) + 1)) = Len(sent)
        /\ \A i \in 1..Len(sent) : SubSeq(longer, 1, Len(session) + 1)[i] = sent[i]
    BY <1>4, <1>10, <2>3, <2>4
  <2>6. QED
    BY <1>4, <2>1, <2>3, <2>5, SeqEqual
<1>14. \A i, b : CommandAt(longer, i, b) <=> CommandAt(sent, i, b)
  <2>1. SUFFICES ASSUME NEW i, NEW b
                 PROVE  CommandAt(longer, i, b) <=> CommandAt(sent, i, b)
    OBVIOUS
  <2>2. CASE i \in 1..(Len(session) + 1)
    <3>1. i \in DOMAIN longer /\ i \in DOMAIN sent /\ longer[i] = sent[i]
      BY <1>3, <1>5, <1>9, <1>10, <2>2
    <3>2. QED
      BY <3>1 DEF CommandAt
  <2>3. CASE i \notin 1..(Len(session) + 1)
    <3>1. ~CommandAt(sent, i, b)
      BY <1>5, <2>3 DEF CommandAt
    <3>2. i \in DOMAIN longer => i = Len(session) + 2
      BY <1>3, <1>9, <2>3
    <3>3. ~CommandAt(longer, i, b)
      BY <1>2, <1>11, <3>2 DEF CommandAt
    <3>4. QED
      BY <3>1, <3>3
  <2>4. QED
    BY <2>2, <2>3
<1>15. Commands(longer) = Commands(sent)
  <2>1. ASSUME NEW p \in Commands(longer)
        PROVE  p \in Commands(sent)
    <3>1. p = <<p[1], p[2]>> /\ CommandAt(longer, p[1], p[2])
      BY CommandsAt
    <3>2. CommandAt(sent, p[1], p[2])
      BY <1>14, <3>1
    <3>3. <<p[1], p[2]>> \in Commands(sent)
      BY <3>2, CommandsAt
    <3>4. QED
      BY <3>1, <3>3
  <2>2. ASSUME NEW p \in Commands(sent)
        PROVE  p \in Commands(longer)
    <3>1. p = <<p[1], p[2]>> /\ CommandAt(sent, p[1], p[2])
      BY CommandsAt
    <3>2. CommandAt(longer, p[1], p[2])
      BY <1>14, <3>1
    <3>3. <<p[1], p[2]>> \in Commands(longer)
      BY <3>2, CommandsAt
    <3>4. QED
      BY <3>1, <3>3
  <2>3. QED
    BY <2>1, <2>2
<1>16. \A p \in Commands(longer) : longer[p[1]] = sent[p[1]]
  <2>1. \A p \in Commands(longer) : p[1] \in 1..(Len(session) + 1)
    <3>1. SUFFICES ASSUME NEW p \in Commands(longer)
                   PROVE  p[1] \in 1..(Len(session) + 1)
      OBVIOUS
    <3>2. CommandAt(longer, p[1], p[2])
      BY CommandsAt
    <3>3. CommandAt(sent, p[1], p[2])
      BY <1>14, <3>2
    <3>4. QED
      BY <1>5, <3>3 DEF CommandAt
  <2>2. QED
    BY <1>10, <2>1
<1>17. Len(session) <= Len(sent) /\ \A i \in DOMAIN session : sent[i] = session[i]
  BY <1>3, <1>4
<1>18. QED
  BY <1>4, <1>8, <1>12, <1>13, <1>15, <1>16, <1>17

\* The first command of a conversation is the first of the session after it.
LEMMA FirstOfSame ==
    ASSUME NEW a, NEW b, Commands(a) = Commands(b)
    PROVE  FirstCommand(a) = FirstCommand(b)
BY DEF FirstCommand

-----------------------------------------------------------------------------
\* What is left of the conversation.

\* Every message has a part, and no part is empty.
Full(messages) ==
    \A i \in DOMAIN messages :
        messages[i].parts # <<>> /\ \A b \in DOMAIN messages[i].parts : messages[i].parts[b] # <<>>

LEMMA MessagesFull ==
    ASSUME NEW messages \in Seq(Message)
    PROVE  Full(messages)
<1>1. SUFFICES ASSUME NEW i \in DOMAIN messages
               PROVE  /\ messages[i].parts # <<>>
                      /\ \A b \in DOMAIN messages[i].parts : messages[i].parts[b] # <<>>
  BY DEF Full
<1>2. messages[i] \in Message
  BY ElementOfSeq, LenProperties
<1>3. messages[i].parts \in Seq(Texts) /\ messages[i].parts # <<>>
  BY <1>2 DEF Message
<1>4. \A b \in DOMAIN messages[i].parts : messages[i].parts[b] \in Texts
  BY <1>3, ElementOfSeq, LenProperties
<1>5. QED
  BY <1>3, <1>4 DEF Texts

\* Stripping a command leaves nothing empty behind.
LEMMA StrippedFull ==
    ASSUME NEW messages \in Seq(Message), NEW i \in DOMAIN messages,
           NEW b \in DOMAIN messages[i].parts
    PROVE  Full(Stripped(messages, i, b))
<1> DEFINE text == messages[i].parts[b]
           parts == PartsLeft(messages[i].parts, b, Remainder(text))
<1>1. Full(messages)
  BY MessagesFull
<1>2. messages[i] \in Message
  BY ElementOfSeq, LenProperties
<1>3. messages[i].parts \in Seq(Texts)
  BY <1>2 DEF Message
<1>4. \A c \in DOMAIN parts : parts[c] # <<>>
  <2>1. CASE Remainder(text) # <<>>
    BY <1>1, <2>1 DEF PartsLeft, Full
  <2>2. CASE Remainder(text) = <<>>
    <3>1. parts = RemoveAt(messages[i].parts, b)
      BY <2>2 DEF PartsLeft
    <3>2. \A c \in DOMAIN RemoveAt(messages[i].parts, b) :
            \E d \in DOMAIN messages[i].parts : RemoveAt(messages[i].parts, b)[c] = messages[i].parts[d]
      BY <1>3, RemoveAtElements
    <3>3. QED
      BY <1>1, <3>1, <3>2 DEF Full
  <2>3. QED
    BY <2>1, <2>2
<1>5. Stripped(messages, i, b) =
        IF parts = <<>> THEN RemoveAt(messages, i) ELSE [messages EXCEPT ![i].parts = parts]
  BY DEF Stripped
<1> HIDE DEF parts
<1>6. CASE parts = <<>>
  <2>1. Stripped(messages, i, b) = RemoveAt(messages, i)
    BY <1>5, <1>6
  <2>2. \A j \in DOMAIN RemoveAt(messages, i) :
          \E k \in DOMAIN messages : RemoveAt(messages, i)[j] = messages[k]
    BY RemoveAtElements
  <2>3. QED
    BY <1>1, <2>1, <2>2 DEF Full
<1>7. CASE parts # <<>>
  <2>1. PICK m : m = [messages[i] EXCEPT !.parts = parts]
    OBVIOUS
  <2>2. Stripped(messages, i, b) = [messages EXCEPT ![i] = m]
    BY <1>5, <1>7, <2>1
  <2>3. m.parts = parts
    BY <1>2, <2>1 DEF Message
  <2>4. QED
    BY <1>1, <1>4, <1>7, <2>2, <2>3 DEF Full
<1>8. QED
  BY <1>6, <1>7

LEMMA ResolvedFull ==
    ASSUME NEW messages \in Seq(Message), NEW f
    PROVE  Full(Resolve(messages, f).messages)
<1>1. CASE FirstCommand(messages) = {}
  BY <1>1, MessagesFull DEF Resolve
<1>2. CASE FirstCommand(messages) # {}
  <2>1. PICK p : p = CHOOSE q \in FirstCommand(messages) : TRUE
    OBVIOUS
  <2>2. p \in Commands(messages)
    BY <1>2, <2>1 DEF FirstCommand
  <2>3. CommandAt(messages, p[1], p[2])
    BY <2>2, CommandsAt
  <2>4. Full(Stripped(messages, p[1], p[2]))
    BY <2>3, StrippedFull DEF CommandAt
  <2>5. Resolve(messages, f).messages = Stripped(messages, p[1], p[2])
    BY <1>2, <2>1 DEF Resolve
  <2>6. QED
    BY <2>4, <2>5
<1>3. QED
  BY <1>1, <1>2

-----------------------------------------------------------------------------
\* The words of a text.

\* f has picked the symbols up to each place of the text.
Picks(f, text, places, S) ==
    /\ f \in [0..Len(text) -> Seq(S)] /\ f[0] = <<>>
    /\ \A n \in 1..Len(text) :
         f[n] = IF n \in places THEN Append(f[n - 1], text[n]) ELSE f[n - 1]

\* There is such a function ...
LEMMA PicksExists ==
    ASSUME NEW S, NEW text \in Seq(S), NEW places
    PROVE  \E f : Picks(f, text, places, S)
<1> DEFINE N == Len(text)
           Q == Seq(S)
           none == <<>>
           More(n, s) == IF n \in places THEN Append(s, text[n]) ELSE s
           step == [x \in (1..N) \X Q |-> More(x[1], x[2])]
<1>1. N \in Nat /\ none \in Q
  BY LenProperties
<1>2. \A n \in 1..N, s \in Q : More(n, s) \in Q
  <2>1. \A n \in 1..N : text[n] \in S
    BY ElementOfSeq
  <2>2. \A n \in 1..N, s \in Q : Append(s, text[n]) \in Q
    BY <2>1, AppendProperties
  <2> HIDE DEF Q, N
  <2>3. QED
    BY <2>2
<1>3. \A n \in 1..N : \A s : More(n, s) = IF n \in places THEN Append(s, text[n]) ELSE s
  OBVIOUS
<1> HIDE DEF More
<1>4. step \in [(1..N) \X Q -> Q]
  BY <1>2
<1>5. \A n \in 1..N, s \in Q : step[<<n, s>>] = More(n, s)
  OBVIOUS
<1>a. none = <<>>
  OBVIOUS
<1> HIDE DEF step, Q, none
<1>6. PICK f : Induction!Recurses(f, none, step, N, Q)
  BY <1>1, <1>4, Induction!Recursion
<1>7. /\ f \in [0..N -> Q] /\ f[0] = none
      /\ \A n \in 1..N : f[n] = step[<<n, f[n - 1]>>]
  BY <1>6 DEF Induction!Recurses
<1>8. \A n \in 1..N : f[n] = More(n, f[n - 1])
  <2>1. \A n \in 1..N : n - 1 \in 0..N
    BY <1>1
  <2> HIDE DEF N
  <2>2. \A n \in 1..N : f[n - 1] \in Q
    BY <1>7, <2>1
  <2>3. QED
    BY <1>5, <1>7, <2>2
<1>9. Picks(f, text, places, S)
  BY <1>3, <1>7, <1>8, <1>a DEF Picks, Q
<1>10. QED
  BY <1>9

\* ... and what it ends with is what is picked.
LEMMA PickedIs ==
    ASSUME NEW S, NEW text \in Seq(S), NEW places, NEW f, Picks(f, text, places, S)
    PROVE  Picked(text, places) = f[Len(text)] /\ Picked(text, places) \in Seq(S)
<1> DEFINE N == Len(text)
           More(n, s) == IF n \in places THEN Append(s, text[n]) ELSE s
           Eq(g) == g = [n \in 0..N |-> IF n = 0 THEN <<>> ELSE More(n, g[n - 1])]
           after == CHOOSE g : Eq(g)
<1>1. N \in Nat
  BY LenProperties
<1>2. Picked(text, places) = after[N]
  BY DEF Picked
<1>3. /\ f \in [0..N -> Seq(S)] /\ f[0] = <<>>
      /\ \A n \in 1..N : f[n] = More(n, f[n - 1])
  BY DEF Picks
<1> HIDE DEF More, N
<1>4. Eq(f)
  <2> DEFINE g == [n \in 0..N |-> IF n = 0 THEN <<>> ELSE More(n, f[n - 1])]
  <2>1. \A n \in 0..N : n = 0 \/ n \in 1..N
    BY <1>1
  <2>2. \A n \in 0..N : f[n] = g[n]
    BY <1>3, <2>1
  <2>3. f = [n \in 0..N |-> f[n]]
    BY <1>3
  <2>4. QED
    BY <2>2, <2>3
<1>5. Eq(after)
  BY <1>4
<1> HIDE DEF after
<1>6. after[0] = <<>> /\ \A n \in 1..N : after[n] = More(n, after[n - 1])
  BY <1>1, <1>5
<1> DEFINE T == {n \in 0..N : f[n] = after[n]}
<1>7. 0 \in T
  BY <1>1, <1>3, <1>6
<1>8. \A n \in 0..N : n \in T /\ n < N => n + 1 \in T
  <2>1. SUFFICES ASSUME NEW n \in 0..N, n \in T, n < N PROVE n + 1 \in T
    OBVIOUS
  <2>2. n + 1 \in 1..N /\ n + 1 \in 0..N /\ (n + 1) - 1 = n
    BY <1>1, <2>1
  <2>3. f[n + 1] = More(n + 1, f[n]) /\ after[n + 1] = More(n + 1, after[n])
    BY <1>3, <1>6, <2>2
  <2>4. QED
    BY <2>1, <2>2, <2>3
<1> HIDE DEF T
<1>9. \A n \in 0..N : n \in T
  BY <1>1, <1>7, <1>8, Induction!UpTo
<1>10. N \in 0..N
  BY <1>1
<1>11. f[N] = after[N] /\ f[N] \in Seq(S)
  BY <1>3, <1>9, <1>10 DEF T
<1>12. QED
  BY <1>2, <1>11 DEF N

\* f has the words up to each place of the text.
HasWords(f, text, S) ==
    /\ f \in [0..Len(text) -> Seq(S)] /\ f[0] = <<>>
    /\ \A n \in 1..Len(text) :
         f[n] = IF text[n] \notin White THEN Append(f[n - 1], text[n]) ELSE f[n - 1]

LEMMA WordsExist ==
    ASSUME NEW S, NEW text \in Seq(S)
    PROVE  \E f : HasWords(f, text, S)
<1> DEFINE black == {n \in DOMAIN text : text[n] \notin White}
<1>1. PICK f : Picks(f, text, black, S)
  BY PicksExists
<1>2. DOMAIN text = 1..Len(text)
  BY LenProperties
<1>3. HasWords(f, text, S)
  BY <1>1, <1>2 DEF Picks, HasWords
<1>4. QED
  BY <1>3

LEMMA WordsAre ==
    ASSUME NEW S, NEW text \in Seq(S), NEW f, HasWords(f, text, S)
    PROVE  Words(text) = f[Len(text)] /\ Words(text) \in Seq(S)
<1> DEFINE black == {n \in DOMAIN text : text[n] \notin White}
<1>1. DOMAIN text = 1..Len(text)
  BY LenProperties
<1>2. Picks(f, text, black, S)
  BY <1>1 DEF Picks, HasWords
<1> HIDE DEF black
<1>3. Picked(text, black) = f[Len(text)] /\ Picked(text, black) \in Seq(S)
  BY <1>2, PickedIs
<1>4. QED
  BY <1>3 DEF Words, black

LEMMA WordsType ==
    ASSUME NEW S, NEW text \in Seq(S)
    PROVE  Words(text) \in Seq(S)
BY WordsExist, WordsAre

\* A text without a word has none.
LEMMA NoWords ==
    ASSUME NEW S, NEW text \in Seq(S), \A n \in 1..Len(text) : text[n] \in White
    PROVE  Words(text) = <<>>
<1> DEFINE f == [n \in 0..Len(text) |-> <<>>]
<1>1. Len(text) \in Nat
  BY LenProperties
<1>2. \A n \in 1..Len(text) : n \in 0..Len(text) /\ n - 1 \in 0..Len(text)
  BY <1>1
<1>3. HasWords(f, text, S)
  <2>1. <<>> \in Seq(S)
    OBVIOUS
  <2>2. f \in [0..Len(text) -> Seq(S)]
    BY <2>1
  <2>3. f[0] = <<>> /\ \A n \in 1..Len(text) : f[n] = f[n - 1]
    BY <1>1, <1>2
  <2>4. QED
    BY <2>2, <2>3 DEF HasWords
<1>4. Words(text) = f[Len(text)]
  BY <1>3, WordsAre
<1>5. QED
  BY <1>1, <1>4

\* The words of one text after another are the words of the one and the other.
LEMMA WordsConcat ==
    ASSUME NEW S, NEW s \in Seq(S), NEW t \in Seq(S)
    PROVE  Words(s \o t) = Words(s) \o Words(t)
<1> DEFINE M == Len(s)  N == Len(t)  st == s \o t
<1>1. M \in Nat /\ N \in Nat
  BY LenProperties
<1>2. /\ st \in Seq(S) /\ Len(st) = M + N
      /\ \A n \in 1..(M + N) : st[n] = IF n <= M THEN s[n] ELSE t[n - M]
  BY ConcatProperties
<1>3. PICK f : HasWords(f, s, S)
  BY WordsExist
<1>4. PICK g : HasWords(g, t, S)
  BY WordsExist
<1>5. Words(s) = f[M] /\ Words(t) = g[N]
  BY <1>3, <1>4, WordsAre
<1>6. /\ f \in [0..M -> Seq(S)] /\ f[0] = <<>>
      /\ \A n \in 1..M : f[n] = IF s[n] \notin White THEN Append(f[n - 1], s[n]) ELSE f[n - 1]
  BY <1>3 DEF HasWords
<1>7. /\ g \in [0..N -> Seq(S)] /\ g[0] = <<>>
      /\ \A n \in 1..N : g[n] = IF t[n] \notin White THEN Append(g[n - 1], t[n]) ELSE g[n - 1]
  BY <1>4 DEF HasWords
<1>8. \A n \in 1..N : t[n] \in S
  BY ElementOfSeq
<1> DEFINE h == [n \in 0..(M + N) |-> IF n <= M THEN f[n] ELSE f[M] \o g[n - M]]
<1>9. HasWords(h, st, S)
  <2> HIDE DEF M, N, st
  <2>1. f[M] \in Seq(S)
    BY <1>1, <1>6
  <2>2. \A n \in 0..N : f[M] \o g[n] \in Seq(S)
    BY <1>7, <2>1, ConcatProperties
  <2>3. \A n \in 0..(M + N) : IF n <= M THEN n \in 0..M ELSE n - M \in 0..N
    BY <1>1
  <2>4. h \in [0..(M + N) -> Seq(S)]
    BY <1>6, <2>2, <2>3
  <2>5. h[0] = <<>>
    BY <1>1, <1>6
  <2>6. ASSUME NEW n \in 1..(M + N)
        PROVE  h[n] = IF st[n] \notin White THEN Append(h[n - 1], st[n]) ELSE h[n - 1]
    <3>1. n \in 0..(M + N) /\ n - 1 \in 0..(M + N)
      BY <1>1
    <3>2. CASE n <= M
      <4>1. n \in 1..M /\ n - 1 <= M
        BY <1>1, <3>2
      <4>2. h[n] = f[n] /\ h[n - 1] = f[n - 1] /\ st[n] = s[n]
        BY <1>2, <3>1, <3>2, <4>1
      <4>3. QED
        BY <1>6, <4>1, <4>2
    <3>3. CASE ~(n <= M)
      <4>1. n - M \in 1..N /\ (n - M) - 1 \in 0..N
        BY <1>1, <3>3
      <4>2. h[n] = f[M] \o g[n - M] /\ st[n] = t[n - M]
        BY <1>2, <3>1, <3>3
      <4>3. h[n - 1] = f[M] \o g[(n - M) - 1]
        <5>1. CASE n - 1 <= M
          <6>1. n - 1 = M /\ (n - M) - 1 = 0
            BY <1>1, <3>3, <5>1
          <6>2. h[n - 1] = f[M]
            BY <3>1, <5>1, <6>1
          <6>3. f[M] \o <<>> = f[M]
            BY <2>1, ConcatEmptySeq
          <6>4. QED
            BY <1>7, <6>1, <6>2, <6>3
        <5>2. CASE ~(n - 1 <= M)
          <6>1. (n - 1) - M = (n - M) - 1
            BY <1>1
          <6>2. QED
            BY <3>1, <5>2, <6>1
        <5>3. QED
          BY <5>1, <5>2
      <4>4. g[n - M] = IF t[n - M] \notin White THEN Append(g[(n - M) - 1], t[n - M])
                       ELSE g[(n - M) - 1]
        BY <1>7, <4>1
      <4>5. PICK u \in Seq(S) : u = g[(n - M) - 1]
        BY <1>7, <4>1
      <4>6. PICK w \in S : w = t[n - M]
        BY <1>8, <4>1
      <4>7. f[M] \o Append(u, w) = Append(f[M] \o u, w)
        <5>1. PICK v \in Seq(S) : v = f[M]
          BY <2>1
        <5>2. v \o Append(u, w) = Append(v \o u, w)
          BY AppendConcat
        <5>3. QED
          BY <5>1, <5>2
      <4> HIDE DEF h
      <4>8. QED
        BY <4>2, <4>3, <4>4, <4>5, <4>6, <4>7
    <3>4. QED
      BY <3>2, <3>3
  <2> HIDE DEF h
  <2>7. QED
    BY <1>2, <2>4, <2>5, <2>6 DEF HasWords
<1>10. Words(st) = h[M + N]
  BY <1>2, <1>9, WordsAre
<1>11. h[M + N] = f[M] \o g[N]
  <2>1. f[M] \in Seq(S)
    BY <1>1, <1>6
  <2> HIDE DEF M, N, st
  <2>2. M + N \in 0..(M + N) /\ (M + N) - M = N
    BY <1>1
  <2>3. CASE M + N <= M
    <3>1. N = 0 /\ M + N = M
      BY <1>1, <2>3
    <3>2. f[M] \o <<>> = f[M]
      BY <2>1, ConcatEmptySeq
    <3>3. QED
      BY <1>7, <2>2, <2>3, <3>1, <3>2
  <2>4. CASE ~(M + N <= M)
    BY <2>2, <2>4
  <2>5. QED
    BY <2>3, <2>4
<1>12. QED
  BY <1>5, <1>10, <1>11

\* Cutting off symbols that are no words costs no word.
LEMMA CutKeeps ==
    ASSUME NEW S, NEW text \in Seq(S), NEW a \in 1..(Len(text) + 1), NEW b \in (a - 1)..Len(text),
           \A i \in 1..Len(text) : i < a \/ b < i => text[i] \in White
    PROVE  SubSeq(text, a, b) \in Seq(S) /\ Words(SubSeq(text, a, b)) = Words(text)
<1> DEFINE N == Len(text)
           front == SubSeq(text, 1, a - 1)
           mid == SubSeq(text, a, b)
           upto == SubSeq(text, 1, b)
           back == SubSeq(text, b + 1, N)
<1>1. N \in Nat /\ a \in 1..(N + 1) /\ b \in (a - 1)..N /\ a \in Int /\ b \in Int /\ b \in 0..N
  BY LenProperties
<1>3. front \in Seq(S) /\ Len(front) = a - 1 /\ \A i \in 1..(a - 1) : front[i] = text[i]
  <2>1. 1 \in 1..(N + 1) /\ a - 1 \in (1 - 1)..N
    BY <1>1
  <2>2. /\ front \in Seq(S) /\ Len(front) = ((a - 1) - 1) + 1
        /\ \A i \in 1..(((a - 1) - 1) + 1) : front[i] = text[1 + i - 1]
    BY <2>1, PieceIs
  <2> HIDE DEF front, N
  <2>3. QED
    BY <1>1, <2>2
<1>4. mid \in Seq(S) /\ upto \in Seq(S)
  <2>1. 1 \in 1..(N + 1) /\ b \in (1 - 1)..N
    BY <1>1
  <2>2. QED
    BY <1>1, <2>1, PieceIs
<1>5. back \in Seq(S) /\ Len(back) = N - b /\ \A i \in 1..(N - b) : back[i] = text[b + i]
  <2>1. b + 1 \in 1..(N + 1) /\ N \in ((b + 1) - 1)..N
    BY <1>1
  <2>2. /\ back \in Seq(S) /\ Len(back) = (N - (b + 1)) + 1
        /\ \A i \in 1..((N - (b + 1)) + 1) : back[i] = text[(b + 1) + i - 1]
    BY <2>1, PieceIs
  <2> HIDE DEF back, N
  <2>3. QED
    BY <1>1, <2>2
<1>6. upto = front \o mid
  <2>1. 1 \in 1..(Len(text) + 1) /\ a - 1 \in (1 - 1)..Len(text) /\ b \in (a - 1)..Len(text)
    BY <1>1
  <2>2. SubSeq(text, 1, a - 1) \o SubSeq(text, (a - 1) + 1, b) = SubSeq(text, 1, b)
    BY <2>1, ConcatAdjacentSubSeq
  <2>3. (a - 1) + 1 = a
    BY <1>1
  <2>4. QED
    BY <2>2, <2>3
<1>7. text = upto \o back
  <2>1. 1 \in 1..(Len(text) + 1) /\ b \in (1 - 1)..Len(text) /\ Len(text) \in b..Len(text)
    BY <1>1
  <2>2. SubSeq(text, 1, b) \o SubSeq(text, b + 1, Len(text)) = SubSeq(text, 1, Len(text))
    BY <2>1, ConcatAdjacentSubSeq
  <2>3. QED
    BY <2>2, SubSeqFull
<1>8. Words(front) = <<>>
  <2>1. \A i \in 1..(a - 1) : i \in 1..N /\ i < a
    BY <1>1
  <2> HIDE DEF front
  <2>2. \A i \in 1..Len(front) : front[i] \in White
    BY <1>3, <2>1
  <2>3. QED
    BY <1>3, <2>2, NoWords
<1>9. Words(back) = <<>>
  <2>1. \A i \in 1..(N - b) : b + i \in 1..N /\ b < b + i
    BY <1>1
  <2> HIDE DEF back
  <2>2. \A i \in 1..Len(back) : back[i] \in White
    BY <1>5, <2>1
  <2>3. QED
    BY <1>5, <2>2, NoWords
<1> HIDE DEF front, mid, upto, back
<1>10. Words(text) = Words(upto) \o Words(back)
  BY <1>4, <1>5, <1>7, WordsConcat
<1>11. Words(upto) = Words(front) \o Words(mid)
  BY <1>3, <1>4, <1>6, WordsConcat
<1>12. Words(mid) \in Seq(S) /\ Words(upto) \in Seq(S)
  BY <1>4, WordsType
<1>13. Words(upto) \o <<>> = Words(upto) /\ <<>> \o Words(mid) = Words(mid)
  BY <1>12, ConcatEmptySeq
<1>14. QED
  BY <1>4, <1>8, <1>9, <1>10, <1>11, <1>13 DEF mid

\* What a text is behind its leading white space.
LEMMA TrimStartIs ==
    ASSUME NEW S, NEW text \in Seq(S)
    PROVE  \E n \in 0..Len(text) : /\ TrimStart(text) = SubSeq(text, n + 1, Len(text))
                                   /\ \A i \in 1..n : text[i] \in White
<1> DEFINE N == Len(text)
           blank == {n \in 0..N : \A i \in 1..n : text[i] \in White}
           n == CHOOSE n \in blank : \A m \in blank : m <= n
<1>1. N \in Nat
  BY LenProperties
<1>2. blank \in SUBSET (0..N) /\ blank # {}
  <2>1. 0 \in blank
    BY <1>1
  <2>2. QED
    BY <2>1
<1>3. TrimStart(text) = SubSeq(text, n + 1, N)
  BY DEF TrimStart
<1> HIDE DEF blank, N
<1>4. \E k \in blank : \A m \in blank : m <= k
  BY <1>1, <1>2, GreatestNumber
<1>5. n \in blank
  BY <1>4
<1> HIDE DEF n
<1>6. QED
  BY <1>3, <1>5 DEF blank, N

LEMMA TrimStartKeeps ==
    ASSUME NEW S, NEW text \in Seq(S)
    PROVE  TrimStart(text) \in Seq(S) /\ Words(TrimStart(text)) = Words(text)
<1>1. PICK n \in 0..Len(text) : /\ TrimStart(text) = SubSeq(text, n + 1, Len(text))
                                /\ \A i \in 1..n : text[i] \in White
  BY TrimStartIs
<1>2. Len(text) \in Nat
  BY LenProperties
<1>3. n + 1 \in 1..(Len(text) + 1) /\ Len(text) \in ((n + 1) - 1)..Len(text)
  BY <1>2
<1>4. \A i \in 1..Len(text) : i < n + 1 \/ Len(text) < i => text[i] \in White
  <2>1. SUFFICES ASSUME NEW i \in 1..Len(text), i < n + 1 \/ Len(text) < i
                 PROVE  text[i] \in White
    OBVIOUS
  <2>2. i \in 1..n
    BY <1>2, <2>1
  <2>3. QED
    BY <1>1, <2>2
<1>5. QED
  BY <1>1, <1>3, <1>4, CutKeeps

LEMMA ReverseIs ==
    ASSUME NEW S, NEW text \in Seq(S)
    PROVE  /\ Reverse(text) \in Seq(S) /\ Len(Reverse(text)) = Len(text)
           /\ \A i \in 1..Len(text) : Reverse(text)[i] = text[(Len(text) - i) + 1]
<1>1. Len(text) \in Nat
  BY LenProperties
<1>2. \A i \in 1..Len(text) : (Len(text) - i) + 1 \in 1..Len(text)
  BY <1>1
<1>3. \A i \in 1..Len(text) : text[(Len(text) - i) + 1] \in S
  BY <1>2, ElementOfSeq
<1>4. QED
  BY <1>1, <1>3 DEF Reverse

\* Trimming costs no word.
LEMMA TrimKeeps ==
    ASSUME NEW S, NEW text \in Seq(S)
    PROVE  Trim(text) \in Seq(S) /\ Words(Trim(text)) = Words(text)
<1> DEFINE u == TrimStart(text)
           r == Reverse(u)
           N == Len(u)
<1>1. u \in Seq(S) /\ Words(u) = Words(text)
  BY TrimStartKeeps
<1> HIDE DEF u
<1>2. N \in Nat
  BY <1>1, LenProperties
<1>3. r \in Seq(S) /\ Len(r) = N /\ \A i \in 1..N : r[i] = u[(N - i) + 1]
  BY <1>1, ReverseIs
<1> HIDE DEF r
<1>4. PICK k \in 0..N : TrimStart(r) = SubSeq(r, k + 1, N) /\ \A i \in 1..k : r[i] \in White
  BY <1>3, TrimStartIs
<1> DEFINE c == SubSeq(r, k + 1, N)
<1>5. c \in Seq(S) /\ Len(c) = N - k /\ \A i \in 1..(N - k) : c[i] = r[k + i]
  <2> HIDE DEF N
  <2>1. k + 1 \in 1..(Len(r) + 1) /\ N \in ((k + 1) - 1)..Len(r)
    BY <1>2, <1>3
  <2>2. /\ c \in Seq(S) /\ Len(c) = (N - (k + 1)) + 1
        /\ \A i \in 1..((N - (k + 1)) + 1) : c[i] = r[(k + 1) + i - 1]
    BY <1>3, <2>1, PieceIs
  <2> HIDE DEF c
  <2>3. QED
    BY <1>2, <2>2
<1> DEFINE v == SubSeq(u, 1, N - k)
<1>6. v \in Seq(S) /\ Len(v) = N - k /\ \A i \in 1..(N - k) : v[i] = u[i]
  <2>1. 1 \in 1..(Len(u) + 1) /\ N - k \in (1 - 1)..Len(u)
    BY <1>2
  <2>2. /\ v \in Seq(S) /\ Len(v) = ((N - k) - 1) + 1
        /\ \A i \in 1..(((N - k) - 1) + 1) : v[i] = u[1 + i - 1]
    BY <1>1, <2>1, PieceIs
  <2> HIDE DEF v, N
  <2>3. QED
    BY <1>2, <2>2
<1> HIDE DEF N
<1>7. Trim(text) = Reverse(c)
  BY <1>4 DEF Trim, u, r
<1>8. Reverse(c) = v
  <2> HIDE DEF c, v
  <2>1. /\ Reverse(c) \in Seq(S) /\ Len(Reverse(c)) = N - k
        /\ \A i \in 1..(N - k) : Reverse(c)[i] = c[((N - k) - i) + 1]
    <3>1. /\ Reverse(c) \in Seq(S) /\ Len(Reverse(c)) = Len(c)
          /\ \A i \in 1..Len(c) : Reverse(c)[i] = c[(Len(c) - i) + 1]
      BY <1>5, ReverseIs
    <3>2. QED
      BY <1>5, <3>1
  <2>2. ASSUME NEW i \in 1..(N - k)
        PROVE  Reverse(c)[i] = v[i]
    <3>1. ((N - k) - i) + 1 \in 1..(N - k) /\ k + (((N - k) - i) + 1) = (N - i) + 1
      BY <1>2
    <3>2. (N - i) + 1 \in 1..N /\ (N - ((N - i) + 1)) + 1 = i
      BY <1>2
    <3>3. c[((N - k) - i) + 1] = r[(N - i) + 1]
      BY <1>5, <3>1
    <3>4. r[(N - i) + 1] = u[i]
      BY <1>3, <3>2
    <3>5. QED
      BY <1>6, <2>1, <3>3, <3>4
  <2>3. QED
    BY <1>6, <2>1, <2>2, SeqEqual
<1>9. Words(v) = Words(u)
  <2>1. 1 \in 1..(Len(u) + 1) /\ N - k \in (1 - 1)..Len(u)
    BY <1>2 DEF N
  <2>2. ASSUME NEW i \in 1..Len(u), i < 1 \/ N - k < i
        PROVE  u[i] \in White
    <3>1. (N - i) + 1 \in 1..k /\ (N - i) + 1 \in 1..N /\ (N - ((N - i) + 1)) + 1 = i
      BY <1>2, <2>2 DEF N
    <3>2. u[i] = r[(N - i) + 1]
      BY <1>3, <3>1
    <3>3. r[(N - i) + 1] \in White
      BY <1>4, <3>1
    <3>4. QED
      BY <3>2, <3>3
  <2>3. QED
    BY <1>1, <2>1, <2>2, CutKeeps
<1>10. QED
  BY <1>1, <1>6, <1>7, <1>8, <1>9

\* The first token of a text: a piece of it without white space, between white
\* space and white space or the text's ends.
TokenAt(text, token, c, e) ==
    /\ c + e <= Len(text) /\ Len(token) = e
    /\ \A i \in 1..c : text[i] \in White
    /\ \A i \in 1..e : token[i] = text[c + i] /\ token[i] \notin White
    /\ c + e = Len(text) \/ text[(c + e) + 1] \in White

LEMMA FirstTokenIs ==
    ASSUME NEW S, NEW text \in Seq(S)
    PROVE  /\ FirstToken(text) \in Seq(S)
           /\ \E c, e \in 0..Len(text) : TokenAt(text, FirstToken(text), c, e)
<1> DEFINE u == TrimStart(text)
           N == Len(text)
           M == Len(u)
           black == {n \in 0..M : \A i \in 1..n : u[i] \notin White}
           n == CHOOSE n \in black : \A m \in black : m <= n
           token == FirstToken(text)
<1>1. PICK c \in 0..N : u = SubSeq(text, c + 1, N) /\ \A i \in 1..c : text[i] \in White
  BY TrimStartIs
<1>2. N \in Nat
  BY LenProperties
<1>3. u \in Seq(S) /\ Len(u) = N - c /\ \A i \in 1..(N - c) : u[i] = text[c + i]
  <2>1. c + 1 \in 1..(N + 1) /\ N \in ((c + 1) - 1)..N
    BY <1>2
  <2> DEFINE piece == SubSeq(text, c + 1, N)
  <2>2. /\ piece \in Seq(S) /\ Len(piece) = (N - (c + 1)) + 1
        /\ \A i \in 1..((N - (c + 1)) + 1) : piece[i] = text[(c + 1) + i - 1]
    BY <2>1, PieceIs
  <2>3. u = piece
    BY <1>1
  <2> HIDE DEF N, u, piece
  <2>4. /\ piece \in Seq(S) /\ Len(piece) = N - c
        /\ \A i \in 1..(N - c) : piece[i] = text[c + i]
    BY <1>2, <2>2
  <2>5. QED
    BY <2>3, <2>4
<1>4. token = SubSeq(u, 1, n)
  BY DEF FirstToken
<1> HIDE DEF u, N, token
<1>5. M \in Nat
  BY <1>3, LenProperties
<1>6. n \in black /\ \A m \in black : m <= n
  <2>1. 0 \in black
    BY <1>5
  <2>2. black \in SUBSET (0..M) /\ black # {}
    BY <2>1
  <2> HIDE DEF black
  <2>3. \E k \in black : \A m \in black : m <= k
    BY <1>5, <2>2, GreatestNumber
  <2>4. QED
    BY <2>3
<1>7. n \in 0..M /\ \A i \in 1..n : u[i] \notin White
  BY <1>6
<1> HIDE DEF n
<1>8. n = M \/ u[n + 1] \in White
  <2>1. SUFFICES ASSUME n # M, u[n + 1] \notin White PROVE FALSE
    OBVIOUS
  <2>2. n + 1 \in 0..M
    BY <1>5, <1>7, <2>1
  <2>3. \A i \in 1..(n + 1) : i \in 1..n \/ i = n + 1
    BY <1>5, <1>7
  <2>4. n + 1 \in black
    BY <1>7, <2>1, <2>2, <2>3
  <2>5. n + 1 <= n
    BY <1>6, <2>4
  <2>6. QED
    BY <1>7, <2>5
<1> HIDE DEF black
<1>9. token \in Seq(S) /\ Len(token) = n /\ \A i \in 1..n : token[i] = u[i]
  <2>1. 1 \in 1..(Len(u) + 1) /\ n \in (1 - 1)..Len(u)
    BY <1>5, <1>7
  <2> DEFINE piece == SubSeq(u, 1, n)
  <2>2. /\ piece \in Seq(S) /\ Len(piece) = (n - 1) + 1
        /\ \A i \in 1..((n - 1) + 1) : piece[i] = u[1 + i - 1]
    BY <1>3, <2>1, PieceIs
  <2> HIDE DEF piece, M
  <2>3. /\ piece \in Seq(S) /\ Len(piece) = n /\ \A i \in 1..n : piece[i] = u[i]
    BY <1>5, <1>7, <2>2
  <2>4. QED
    BY <1>4, <2>3 DEF piece
<1>10. M = N - c
  BY <1>3
<1> HIDE DEF M
<1>11. n \in 0..N /\ c + n <= N /\ \A i \in 1..n : i \in 1..(N - c)
  BY <1>2, <1>7, <1>10
<1>12. \A i \in 1..n : token[i] = text[c + i] /\ token[i] \notin White
  BY <1>3, <1>7, <1>9, <1>11
<1>13. c + n = N \/ text[(c + n) + 1] \in White
  <2>1. CASE n = M
    BY <1>2, <1>10, <2>1
  <2>2. CASE n # M
    <3>1. n + 1 \in 1..(N - c) /\ c + (n + 1) = (c + n) + 1
      BY <1>2, <1>7, <1>10, <2>2
    <3>2. u[n + 1] = text[(c + n) + 1]
      BY <1>3, <3>1
    <3>3. QED
      BY <1>8, <2>2, <3>2
  <2>3. QED
    BY <2>1, <2>2
<1>14. TokenAt(text, token, c, n)
  BY <1>1, <1>9, <1>11, <1>12, <1>13 DEF TokenAt, N
<1>15. QED
  BY <1>9, <1>11, <1>14 DEF token, N

\* A text with a command opens with it, and its identifier is the word there.
LEMMA CommandOpens ==
    ASSUME NEW S, NEW text \in Seq(S), IsCommand(text)
    PROVE  \E m, k, n \in DOMAIN text :
             OpensWith(text, m, k, n) /\ Identifier(text) = SubSeq(text, k, n)
<1> DEFINE N == Len(text)
           u == TrimStart(text)
           rest == SubSeq(u, 3, Len(u))
           token == FirstToken(rest)
           Counts == /\ IsPrefix(<<"/model", " ">>, u)
                     /\ token # <<>> /\ token[1] \in Qualified
<1>1. Identifier(text) = IF Counts THEN token ELSE <<>>
  BY DEF Identifier
<1>2. Identifier(text) = token /\ Counts
  BY <1>1 DEF IsCommand
<1> HIDE DEF Counts
<1>3. IsPrefix(<<"/model", " ">>, u) /\ token # <<>> /\ token[1] \in Qualified
  BY <1>2 DEF Counts
<1>4. N \in Nat /\ DOMAIN text = 1..N
  BY LenProperties
<1>5. PICK c \in 0..N : u = SubSeq(text, c + 1, N) /\ \A i \in 1..c : text[i] \in White
  BY TrimStartIs
<1>6. u \in Seq(S) /\ Len(u) = N - c /\ \A i \in 1..(N - c) : u[i] = text[c + i]
  <2>1. c + 1 \in 1..(N + 1) /\ N \in ((c + 1) - 1)..N
    BY <1>4
  <2> DEFINE piece == SubSeq(text, c + 1, N)
  <2>2. /\ piece \in Seq(S) /\ Len(piece) = (N - (c + 1)) + 1
        /\ \A i \in 1..((N - (c + 1)) + 1) : piece[i] = text[(c + 1) + i - 1]
    BY <2>1, PieceIs
  <2>3. u = piece
    BY <1>5
  <2> HIDE DEF N, u, piece
  <2>4. /\ piece \in Seq(S) /\ Len(piece) = N - c
        /\ \A i \in 1..(N - c) : piece[i] = text[c + i]
    BY <1>4, <2>2
  <2>5. QED
    BY <2>3, <2>4
<1> HIDE DEF u, N
<1>a. 2 <= Len(u) /\ Len(u) = N - c
  BY <1>3, <1>6 DEF IsPrefix
<1>b. 2 <= N - c
  BY <1>a
<1>7. u[1] = "/model" /\ u[2] = " "
  <2> DEFINE command == <<"/model", " ">>  upto == SubSeq(u, 1, 2)
  <2>1. Len(command) = 2 /\ command[1] = "/model" /\ command[2] = " "
    OBVIOUS
  <2>2. SubSeq(command, 1, 2) = upto
    BY <1>3, <2>1 DEF IsPrefix
  <2>3. SubSeq(command, 1, 2) = command
    <3>1. command \in Seq({"/model", " "})
      OBVIOUS
    <3>2. QED
      BY <2>1, <3>1, SubSeqFull
  <2>4. 1 \in 1..(Len(u) + 1) /\ 2 \in (1 - 1)..Len(u)
    BY <1>4, <1>a, <1>b
  <2>5. \A i \in 1..((2 - 1) + 1) : upto[i] = u[1 + i - 1]
    BY <1>6, <2>4, PieceIs
  <2> HIDE DEF upto, command
  <2>6. upto[1] = u[1] /\ upto[2] = u[2]
    BY <2>5
  <2>7. QED
    BY <2>1, <2>2, <2>3, <2>6
<1> DEFINE M == (N - c) - 2  b == c + 2
<1>8. M \in Nat /\ b \in Nat /\ b + M = N
  BY <1>4, <1>b
<1>9. rest \in Seq(S) /\ Len(rest) = M /\ \A i \in 1..M : rest[i] = text[b + i]
  <2>1. 3 \in 1..(Len(u) + 1) /\ Len(u) \in (3 - 1)..Len(u)
    BY <1>4, <1>a, <1>b
  <2>2. /\ rest \in Seq(S) /\ Len(rest) = (Len(u) - 3) + 1
        /\ \A i \in 1..((Len(u) - 3) + 1) : rest[i] = u[3 + i - 1]
    BY <1>6, <2>1, PieceIs
  <2> HIDE DEF rest
  <2>3. (Len(u) - 3) + 1 = M
    BY <1>4, <1>6
  <2>4. \A i \in 1..M : 3 + i - 1 = 2 + i /\ 2 + i \in 1..(N - c) /\ c + (2 + i) = b + i
    BY <1>4
  <2>5. QED
    BY <1>6, <2>2, <2>3, <2>4
<1> HIDE DEF rest
<1>10. token \in Seq(S) /\ \E d, e \in 0..M : TokenAt(rest, token, d, e)
  BY <1>9, FirstTokenIs
<1>11. PICK d \in 0..M, e \in 0..M : TokenAt(rest, token, d, e)
  BY <1>10
<1> HIDE DEF token
<1>12. /\ d + e <= M /\ Len(token) = e
       /\ \A i \in 1..d : rest[i] \in White
       /\ \A i \in 1..e : token[i] = rest[d + i] /\ token[i] \notin White
       /\ d + e = M \/ rest[(d + e) + 1] \in White
  BY <1>9, <1>11 DEF TokenAt
<1>13. e # 0
  BY <1>3, <1>10, <1>12, EmptySeq
<1> DEFINE m == c + 1  k == (b + d) + 1  n == (b + d) + e
<1>14. /\ m \in 1..N /\ k \in 1..N /\ n \in 1..N /\ m + 1 < k /\ k <= n
       /\ m + 1 = b /\ (n - k) + 1 = e
  BY <1>4, <1>8, <1>12, <1>13
<1>15. text[m] = "/model" /\ text[m + 1] = " "
  <2>1. 1 \in 1..(N - c) /\ 2 \in 1..(N - c) /\ c + 2 = m + 1
    BY <1>4, <1>b
  <2>2. QED
    BY <1>6, <1>7, <2>1
<1>16. \A i \in 1..d : text[b + i] \in White
  <2>1. \A i \in 1..d : i \in 1..M
    BY <1>8
  <2> HIDE DEF M, b
  <2>2. QED
    BY <1>9, <1>12, <2>1
<1>17. \A i \in 1..e : token[i] = text[(b + d) + i] /\ text[(b + d) + i] \notin White
  <2>a. d + e <= M
    BY <1>12
  <2>b. M \in Nat /\ b \in Nat
    BY <1>8
  <2> HIDE DEF M, b
  <2>1. \A i \in 1..e : d + i \in 1..M /\ b + (d + i) = (b + d) + i
    BY <2>a, <2>b
  <2>2. QED
    BY <1>9, <1>12, <2>1
<1>18. \A j \in 1..n : text[j] \in White <=> (j # m /\ j < k)
  <2>1. SUFFICES ASSUME NEW j \in 1..n
                 PROVE  text[j] \in White <=> (j # m /\ j < k)
    OBVIOUS
  <2>2. CASE j <= c
    <3>1. j \in 1..c /\ j # m /\ j < k
      BY <1>8, <2>2
    <3>2. QED
      BY <1>5, <3>1
  <2>3. CASE j = m
    BY <1>15, <2>3 DEF White
  <2>4. CASE j = m + 1
    <3>1. j # m /\ j < k
      BY <1>14, <2>4
    <3>2. text[j] \in White
      BY <1>15, <2>4 DEF White
    <3>3. QED
      BY <3>1, <3>2
  <2>5. CASE b < j /\ j < k
    <3>1. j - b \in 1..d /\ b + (j - b) = j /\ j # m
      BY <1>8, <2>5
    <3>2. QED
      BY <1>16, <2>5, <3>1
  <2>6. CASE k <= j
    <3>1. j - (b + d) \in 1..e /\ (b + d) + (j - (b + d)) = j /\ ~(j < k)
      BY <1>8, <1>12, <2>1, <2>6
    <3>2. QED
      BY <1>17, <3>1
  <2>7. QED
    BY <1>8, <2>2, <2>3, <2>4, <2>5, <2>6
<1>19. n = N \/ text[n + 1] \in White
  <2>1. CASE d + e = M
    BY <1>8, <2>1
  <2>2. CASE d + e # M
    <3>1. (d + e) + 1 \in 1..M /\ b + ((d + e) + 1) = n + 1
      BY <1>8, <1>12, <2>2
    <3>2. rest[(d + e) + 1] = text[n + 1]
      BY <1>9, <3>1
    <3>3. QED
      BY <1>12, <2>2, <3>2
  <2>3. QED
    BY <2>1, <2>2
<1>20. text[k] \in Qualified
  <2>1. 1 \in 1..e
    BY <1>13
  <2>2. token[1] = text[k]
    BY <1>17, <2>1
  <2>3. QED
    BY <1>3, <2>2
<1>21. token = SubSeq(text, k, n)
  <2> DEFINE piece == SubSeq(text, k, n)
  <2>1. k \in 1..(Len(text) + 1) /\ n \in (k - 1)..Len(text)
    BY <1>4, <1>14 DEF N
  <2>2. /\ piece \in Seq(S) /\ Len(piece) = (n - k) + 1
        /\ \A i \in 1..((n - k) + 1) : piece[i] = text[k + i - 1]
    BY <2>1, PieceIs
  <2>3. \A i \in 1..e : k + i - 1 = (b + d) + i
    BY <1>8
  <2>a. (n - k) + 1 = e
    BY <1>14
  <2> HIDE DEF piece, n, k, b
  <2>b. \A i \in 1..e : piece[i] = token[i]
    BY <1>17, <2>2, <2>3, <2>a
  <2>4. Len(piece) = Len(token) /\ \A i \in 1..Len(token) : piece[i] = token[i]
    BY <1>12, <2>2, <2>a, <2>b
  <2>5. piece = token
    BY <1>10, <2>2, <2>4, SeqEqual
  <2>6. QED
    BY <2>5 DEF piece
<1> HIDE DEF m, k, n, b, M
<1>22. OpensWith(text, m, k, n)
  BY <1>14, <1>15, <1>18, <1>19, <1>20 DEF OpensWith, N
<1>23. QED
  BY <1>2, <1>4, <1>14, <1>21, <1>22

\* str::replace takes the copies of the token and nothing else.
LEMMA WithoutIs ==
    ASSUME NEW S, NEW text \in Seq(S), NEW R, NEW token \in Seq(R)
    PROVE  Without(text, token) = Spared(text, token)
<1> DEFINE N == Len(text)
           L == Len(token)
           starts == {j \in 1..(N + 1 - L) : SubSeq(text, j, j + L - 1) = token}
           gone == UNION {j..(j + L - 1) : j \in starts}
           spared == {n \in DOMAIN text :
                        ~ \E j \in 1..(N + 1 - L) :
                            SubSeq(text, j, j + L - 1) = token /\ j <= n /\ n < j + L}
<1>1. N \in Nat /\ L \in Nat /\ DOMAIN text = 1..N
  BY LenProperties
<1>2. \A n \in 1..N, j \in 1..(N + 1 - L) : n \in j..(j + L - 1) <=> j <= n /\ n < j + L
  BY <1>1
<1>3. \A n : n \in gone <=> \E j \in 1..(N + 1 - L) :
                              SubSeq(text, j, j + L - 1) = token /\ n \in j..(j + L - 1)
  OBVIOUS
<1> HIDE DEF gone
<1>4. DOMAIN text \ gone = spared
  BY <1>1, <1>2, <1>3
<1>5. Without(text, token) = Picked(text, DOMAIN text \ gone)
  BY DEF Without, gone
<1>6. Spared(text, token) = Picked(text, spared)
  BY DEF Spared
<1>7. QED
  BY <1>4, <1>5, <1>6

LEMMA SparedType ==
    ASSUME NEW S, NEW text \in Seq(S), NEW token
    PROVE  Spared(text, token) \in Seq(S)
BY PicksExists, PickedIs DEF Spared

\* "/model " and the identifier.
Opening(text) == <<"/model", " ">> \o Identifier(text)

\* What remains of a text is what stands in no copy of its command, trimmed.
LEMMA RemainderKeeps ==
    ASSUME NEW S, NEW text \in Seq(S), IsCommand(text)
    PROVE  /\ Remainder(text) \in Seq(S) /\ Spared(text, Opening(text)) \in Seq(S)
           /\ Words(Remainder(text)) = Words(Spared(text, Opening(text)))
<1> DEFINE R == S \cup {"/model", " "}
           left == Spared(text, Opening(text))
<1>1. PICK k, n : k \in DOMAIN text /\ n \in DOMAIN text /\ k <= n /\ Identifier(text) = SubSeq(text, k, n)
  BY CommandOpens DEF OpensWith
<1>2. Identifier(text) \in Seq(S)
  <2>1. DOMAIN text = 1..Len(text) /\ Len(text) \in Nat
    BY LenProperties
  <2>2. k \in 1..(Len(text) + 1) /\ n \in (k - 1)..Len(text)
    BY <1>1, <2>1
  <2>3. SubSeq(text, k, n) \in Seq(S)
    BY <2>2, PieceIs
  <2>4. QED
    BY <1>1, <2>3
<1>3. Opening(text) \in Seq(R)
  <2>1. S \subseteq R /\ {"/model", " "} \subseteq R
    OBVIOUS
  <2> HIDE DEF R
  <2>2. Identifier(text) \in Seq(R)
    BY <1>2, <2>1, SeqMonotonic
  <2>3. <<"/model", " ">> \in Seq(R)
    <3>1. <<"/model", " ">> \in Seq({"/model", " "})
      OBVIOUS
    <3>2. QED
      BY <2>1, <3>1, SeqMonotonic
  <2>4. QED
    BY <2>2, <2>3, ConcatProperties DEF Opening
<1>4. Remainder(text) = Trim(left)
  BY <1>3, WithoutIs DEF Remainder, Opening
<1>5. left \in Seq(S)
  BY SparedType
<1> HIDE DEF left
<1>6. Trim(left) \in Seq(S) /\ Words(Trim(left)) = Words(left)
  BY <1>5, TrimKeeps
<1>7. QED
  BY <1>4, <1>5, <1>6 DEF left

\* The words of a message and of a conversation.

Spoken(parts) == [b \in DOMAIN parts |-> Words(parts[b])]

LEMMA SpokenType ==
    ASSUME NEW S, NEW parts \in Seq(Seq(S))
    PROVE  /\ Spoken(parts) \in Seq(Seq(S)) /\ Len(Spoken(parts)) = Len(parts)
           /\ \A b \in 1..Len(parts) : Spoken(parts)[b] = Words(parts[b])
           /\ WordsIn(parts) = FlattenSeq(Spoken(parts)) /\ WordsIn(parts) \in Seq(S)
<1>1. Len(parts) \in Nat /\ DOMAIN parts = 1..Len(parts)
  BY LenProperties
<1>2. \A b \in 1..Len(parts) : parts[b] \in Seq(S)
  BY ElementOfSeq
<1>3. \A b \in 1..Len(parts) : Words(parts[b]) \in Seq(S)
  BY <1>2, WordsType
<1>4. /\ Spoken(parts) \in Seq(Seq(S)) /\ Len(Spoken(parts)) = Len(parts)
      /\ \A b \in 1..Len(parts) : Spoken(parts)[b] = Words(parts[b])
  BY <1>1, <1>3 DEF Spoken
<1>5. WordsIn(parts) = FlattenSeq(Spoken(parts))
  BY DEF WordsIn, Spoken
<1>6. QED
  BY <1>4, <1>5, FlattenTyped

\* What a part keeps the message keeps, though an emptied part is removed.
LEMMA PartsLeftKeeps ==
    ASSUME NEW S, NEW parts \in Seq(Seq(S)), NEW b \in 1..Len(parts),
           NEW left \in Seq(S), NEW spared \in Seq(S), Words(left) = Words(spared)
    PROVE  /\ PartsLeft(parts, b, left) \in Seq(Seq(S))
           /\ [parts EXCEPT ![b] = spared] \in Seq(Seq(S))
           /\ WordsIn(PartsLeft(parts, b, left)) = WordsIn([parts EXCEPT ![b] = spared])
<1> DEFINE whole == [parts EXCEPT ![b] = spared]
           N == Len(parts)
<1>1. N \in Nat /\ b \in 1..N /\ DOMAIN parts = 1..N
  BY LenProperties
<1>2. whole \in Seq(Seq(S)) /\ Len(whole) = N /\ \A c \in 1..N : whole[c] = IF c = b THEN spared ELSE parts[c]
  BY ExceptSeq
<1> HIDE DEF whole
<1>3. DOMAIN whole = 1..N
  BY <1>2, LenProperties
<1>4. CASE left # <<>>
  <2> DEFINE more == [parts EXCEPT ![b] = left]
  <2>1. PartsLeft(parts, b, left) = more
    BY <1>4 DEF PartsLeft
  <2>2. more \in Seq(Seq(S)) /\ Len(more) = N /\ \A c \in 1..N : more[c] = IF c = b THEN left ELSE parts[c]
    BY ExceptSeq
  <2> HIDE DEF more
  <2>3. DOMAIN more = 1..N
    BY <2>2, LenProperties
  <2>4. Spoken(more) = Spoken(whole)
    BY <1>2, <1>3, <2>2, <2>3 DEF Spoken
  <2>5. WordsIn(more) = WordsIn(whole)
    BY <2>4 DEF WordsIn, Spoken
  <2>6. QED
    BY <1>2, <2>1, <2>2, <2>5 DEF whole
<1>5. CASE left = <<>>
  <2> DEFINE less == RemoveAt(parts, b)
  <2>1. PartsLeft(parts, b, left) = less
    BY <1>5 DEF PartsLeft
  <2>2. /\ less \in Seq(Seq(S)) /\ Len(less) = N - 1
        /\ \A i \in 1..(b - 1) : less[i] = parts[i]
        /\ \A i \in b..(N - 1) : less[i] = parts[i + 1]
    BY RemoveAtIs
  <2>3. Words(spared) = <<>>
    <3>1. Len(<<>>) = 0 /\ 1..0 = {} /\ <<>> \in Seq(S)
      OBVIOUS
    <3>2. Words(left) = <<>>
      BY <1>5, <3>1, NoWords
    <3>3. QED
      BY <3>2
  <2> HIDE DEF less
  <2>4. /\ Spoken(whole) \in Seq(Seq(S)) /\ Len(Spoken(whole)) = N
        /\ \A c \in 1..N : Spoken(whole)[c] = Words(whole[c])
        /\ WordsIn(whole) = FlattenSeq(Spoken(whole))
    BY <1>2, SpokenType
  <2>5. /\ Spoken(less) \in Seq(Seq(S)) /\ Len(Spoken(less)) = N - 1
        /\ \A c \in 1..(N - 1) : Spoken(less)[c] = Words(less[c])
        /\ WordsIn(less) = FlattenSeq(Spoken(less))
    BY <2>2, SpokenType
  <2> DEFINE ss == Spoken(whole)  tt == Spoken(less)
  <2> HIDE DEF ss, tt, N
  <2>6. \A i \in 1..(b - 1) : i \in 1..N /\ i \in 1..(N - 1) /\ i # b
    BY <1>1
  <2>7. \A i \in b..(N - 1) : i \in 1..(N - 1) /\ i + 1 \in 1..N /\ i + 1 # b
    BY <1>1
  <2>a. \A i \in 1..(b - 1) : less[i] = whole[i]
    BY <1>2, <2>2, <2>6
  <2>b. \A i \in b..(N - 1) : less[i] = whole[i + 1]
    BY <1>2, <2>2, <2>7
  <2>8. \A i \in 1..(b - 1) : tt[i] = ss[i]
    BY <2>4, <2>5, <2>6, <2>a DEF ss, tt
  <2>9. \A i \in b..(N - 1) : tt[i] = ss[i + 1]
    BY <2>4, <2>5, <2>7, <2>b DEF ss, tt
  <2>10. /\ ss \in Seq(Seq(S)) /\ tt \in Seq(Seq(S)) /\ Len(ss) = N /\ Len(tt) = N - 1
         /\ ss[b] = <<>> /\ b \in 1..Len(ss)
    BY <1>1, <1>2, <2>3, <2>4, <2>5 DEF ss, tt
  <2>11. FlattenSeq(tt) = FlattenSeq(ss)
    BY <2>8, <2>9, <2>10, FlattenDrops
  <2>12. WordsIn(less) = WordsIn(whole)
    BY <2>4, <2>5, <2>11 DEF ss, tt
  <2>13. QED
    BY <1>2, <2>1, <2>2, <2>12 DEF whole
<1>6. QED
  BY <1>4, <1>5

\* The words of each message.
Said(messages) == [i \in DOMAIN messages |-> WordsIn(messages[i].parts)]

LEMMA SaidType ==
    ASSUME NEW S, NEW messages, Len(messages) \in Nat, DOMAIN messages = 1..Len(messages),
           \A i \in 1..Len(messages) : messages[i].parts \in Seq(Seq(S))
    PROVE  /\ Said(messages) \in Seq(Seq(S)) /\ Len(Said(messages)) = Len(messages)
           /\ \A i \in 1..Len(messages) : Said(messages)[i] = WordsIn(messages[i].parts)
           /\ WordsOf(messages) = FlattenSeq(Said(messages))
<1>1. \A i \in 1..Len(messages) : WordsIn(messages[i].parts) \in Seq(S)
  BY SpokenType
<1>2. /\ Said(messages) \in Seq(Seq(S)) /\ Len(Said(messages)) = Len(messages)
      /\ \A i \in 1..Len(messages) : Said(messages)[i] = WordsIn(messages[i].parts)
  BY <1>1 DEF Said
<1>3. QED
  BY <1>2 DEF WordsOf, Said

\* Stripping a command costs the conversation the copies of that command in its
\* part.
LEMMA StrippedKeeps ==
    ASSUME NEW messages \in Seq(Message), NEW i \in DOMAIN messages,
           NEW b \in DOMAIN messages[i].parts, IsCommand(messages[i].parts[b])
    PROVE  WordsOf(Stripped(messages, i, b)) =
             WordsOf([messages EXCEPT ![i].parts[b] =
                        Spared(messages[i].parts[b], Opening(messages[i].parts[b]))])
<1> DEFINE S == STRING
           N == Len(messages)
           old == messages[i].parts
           left == Remainder(old[b])
           spared == Spared(old[b], Opening(old[b]))
           parts == PartsLeft(old, b, left)
           keeping == [old EXCEPT ![b] = spared]
<1>1. N \in Nat /\ DOMAIN messages = 1..N /\ i \in 1..N
  BY LenProperties
<1>2. \A k \in 1..N : messages[k] \in Message
  BY ElementOfSeq
<1>3. \A m \in Message : m.parts \in Seq(Seq(S))
  <2>1. Texts \subseteq Seq(S)
    BY DEF Texts
  <2>2. \A m \in Message : m.parts \in Seq(Texts)
    BY DEF Message
  <2> HIDE DEF S
  <2>3. QED
    BY <2>1, <2>2, SeqMonotonic
<1>4. Stripped(messages, i, b) =
        IF parts = <<>> THEN RemoveAt(messages, i) ELSE [messages EXCEPT ![i].parts = parts]
  BY DEF Stripped
<1>a. PICK w : w = [messages[i] EXCEPT !.parts = keeping]
  OBVIOUS
<1>b. [messages EXCEPT ![i].parts[b] = spared] = [messages EXCEPT ![i] = w]
  BY <1>a
<1> HIDE DEF S
<1>5. old \in Seq(Seq(S)) /\ b \in 1..Len(old) /\ old[b] \in Seq(S) /\ IsCommand(old[b])
  <2>1. old \in Seq(Seq(S))
    BY <1>1, <1>2, <1>3
  <2>2. b \in 1..Len(old) /\ IsCommand(old[b])
    BY <2>1, LenProperties
  <2> HIDE DEF old
  <2>3. QED
    BY <2>1, <2>2, ElementOfSeq
<1>6. /\ parts \in Seq(Seq(S)) /\ keeping \in Seq(Seq(S))
      /\ WordsIn(parts) = WordsIn(keeping)
  <2>1. left \in Seq(S) /\ spared \in Seq(S) /\ Words(left) = Words(spared)
    BY <1>5, RemainderKeeps
  <2> HIDE DEF old, left, spared
  <2>2. QED
    BY <1>5, <2>1, PartsLeftKeeps
<1>7. w.parts = keeping
  BY <1>1, <1>2, <1>a DEF Message
<1> DEFINE whole == [messages EXCEPT ![i] = w]
<1>8. /\ whole \in Seq({m : m \in Message \cup {w}}) /\ Len(whole) = N
      /\ \A k \in 1..N : whole[k] = IF k = i THEN w ELSE messages[k]
  <2>1. messages \in Seq({m : m \in Message \cup {w}})
    <3>1. Message \subseteq {m : m \in Message \cup {w}}
      OBVIOUS
    <3>2. QED
      BY <3>1, SeqMonotonic
  <2>2. w \in {m : m \in Message \cup {w}}
    OBVIOUS
  <2>3. QED
    BY <2>1, <2>2, ExceptSeq
<1> HIDE DEF whole, keeping, parts, N
<1>9. DOMAIN whole = 1..N /\ \A k \in 1..N : whole[k].parts \in Seq(Seq(S))
  <2>1. DOMAIN whole = 1..N
    BY <1>8, LenProperties
  <2>2. \A k \in 1..N : whole[k].parts \in Seq(Seq(S))
    BY <1>2, <1>3, <1>6, <1>7, <1>8
  <2>3. QED
    BY <2>1, <2>2
<1>10. /\ Said(whole) \in Seq(Seq(S)) /\ Len(Said(whole)) = N
       /\ \A k \in 1..N : Said(whole)[k] = WordsIn(whole[k].parts)
       /\ WordsOf(whole) = FlattenSeq(Said(whole))
  BY <1>1, <1>8, <1>9, SaidType
<1>11. CASE parts # <<>>
  <2>1. PICK m : m = [messages[i] EXCEPT !.parts = parts]
    OBVIOUS
  <2>2. Stripped(messages, i, b) = [messages EXCEPT ![i] = m]
    BY <1>4, <1>11, <2>1
  <2>3. m.parts = parts
    BY <1>1, <1>2, <2>1 DEF Message
  <2> DEFINE more == [messages EXCEPT ![i] = m]
  <2>4. DOMAIN more = 1..N /\ \A k \in 1..N : more[k] = IF k = i THEN m ELSE messages[k]
    BY <1>1
  <2> HIDE DEF more
  <2>5. Said(more) = Said(whole)
    BY <1>6, <1>7, <1>8, <1>9, <2>3, <2>4 DEF Said
  <2>6. WordsOf(more) = WordsOf(whole)
    BY <2>5 DEF WordsOf, Said
  <2>7. QED
    BY <1>b, <2>2, <2>6 DEF more, whole
<1>12. CASE parts = <<>>
  <2> DEFINE less == RemoveAt(messages, i)
  <2>1. Stripped(messages, i, b) = less
    BY <1>4, <1>12
  <2>2. /\ less \in Seq(Message) /\ Len(less) = N - 1
        /\ \A k \in 1..(i - 1) : less[k] = messages[k]
        /\ \A k \in i..(N - 1) : less[k] = messages[k + 1]
    BY <1>1, RemoveAtIs DEF N
  <2> HIDE DEF less
  <2>3. WordsIn(keeping) = <<>>
    <3>1. WordsIn(<<>>) = <<>>
      <4>1. DOMAIN <<>> = {}
        OBVIOUS
      <4>2. Spoken(<<>>) = <<>>
        BY <4>1 DEF Spoken
      <4>3. FlattenSeq(<<>>) = <<>>
        BY DEF FlattenSeq
      <4>4. QED
        BY <4>2, <4>3 DEF WordsIn, Spoken
    <3>2. QED
      BY <1>6, <1>12, <3>1
  <2>4. /\ Said(less) \in Seq(Seq(S)) /\ Len(Said(less)) = N - 1
        /\ \A k \in 1..(N - 1) : Said(less)[k] = WordsIn(less[k].parts)
        /\ WordsOf(less) = FlattenSeq(Said(less))
    <3>1. Len(less) \in Nat /\ DOMAIN less = 1..Len(less)
      BY <2>2, LenProperties
    <3>2. \A k \in 1..Len(less) : less[k] \in Message
      BY <2>2, ElementOfSeq
    <3>3. \A k \in 1..Len(less) : less[k].parts \in Seq(Seq(S))
      BY <1>3, <3>2
    <3>4. /\ Said(less) \in Seq(Seq(S)) /\ Len(Said(less)) = Len(less)
          /\ \A k \in 1..Len(less) : Said(less)[k] = WordsIn(less[k].parts)
          /\ WordsOf(less) = FlattenSeq(Said(less))
      BY <3>1, <3>3, SaidType
    <3>5. QED
      BY <2>2, <3>4
  <2> DEFINE ss == Said(whole)  tt == Said(less)
  <2> HIDE DEF ss, tt
  <2>5. \A k \in 1..(i - 1) : k \in 1..N /\ k \in 1..(N - 1) /\ k # i
    BY <1>1
  <2>6. \A k \in i..(N - 1) : k \in 1..(N - 1) /\ k + 1 \in 1..N /\ k + 1 # i
    BY <1>1
  <2>a. \A k \in 1..(i - 1) : less[k] = whole[k]
    BY <1>8, <2>2, <2>5
  <2>b. \A k \in i..(N - 1) : less[k] = whole[k + 1]
    BY <1>8, <2>2, <2>6
  <2>7. \A k \in 1..(i - 1) : tt[k] = ss[k]
    BY <1>10, <2>4, <2>5, <2>a DEF ss, tt
  <2>8. \A k \in i..(N - 1) : tt[k] = ss[k + 1]
    BY <1>10, <2>4, <2>6, <2>b DEF ss, tt
  <2>9. /\ ss \in Seq(Seq(S)) /\ tt \in Seq(Seq(S)) /\ Len(ss) = N /\ Len(tt) = N - 1
        /\ ss[i] = <<>> /\ i \in 1..Len(ss)
    BY <1>1, <1>7, <1>8, <1>10, <2>3, <2>4 DEF ss, tt
  <2>10. FlattenSeq(tt) = FlattenSeq(ss)
    BY <2>7, <2>8, <2>9, FlattenDrops
  <2>11. QED
    BY <1>b, <1>10, <2>1, <2>4, <2>10 DEF ss, tt, whole
<1>13. QED
  BY <1>11, <1>12

\* What resolve_route sends on is what NothingElseStripped says.
LEMMA ResolvedKeeps ==
    ASSUME NEW messages \in Seq(Message), NEW f
    PROVE  OnlyCommandLost(messages, Resolve(messages, f).messages)
<1>1. CASE FirstCommand(messages) = {}
  BY <1>1 DEF Resolve, OnlyCommandLost
<1>2. CASE FirstCommand(messages) # {}
  <2>1. PICK p : p = CHOOSE q \in FirstCommand(messages) : TRUE
    OBVIOUS
  <2>2. p \in Commands(messages)
    BY <1>2, <2>1 DEF FirstCommand
  <2>3. CommandAt(messages, p[1], p[2])
    BY <2>2, CommandsAt
  <2>4. PICK i, b, text : i = p[1] /\ b = p[2] /\ text = messages[i].parts[b]
    OBVIOUS
  <2>5. /\ i \in DOMAIN messages /\ messages[i].role = "user"
        /\ b \in DOMAIN messages[i].parts /\ IsCommand(text)
    BY <2>3, <2>4 DEF CommandAt
  <2>6. Resolve(messages, f).messages = Stripped(messages, i, b)
    BY <1>2, <2>1, <2>4 DEF Resolve
  <2>7. text \in Texts
    <3>1. messages[i] \in Message
      BY <2>5, ElementOfSeq, LenProperties
    <3>2. messages[i].parts \in Seq(Texts)
      BY <3>1 DEF Message
    <3>3. QED
      BY <2>4, <2>5, <3>2, ElementOfSeq, LenProperties
  <2>8. PICK m \in DOMAIN text, k \in DOMAIN text, n \in DOMAIN text :
          OpensWith(text, m, k, n) /\ Identifier(text) = SubSeq(text, k, n)
    BY <2>5, <2>7, CommandOpens DEF Texts
  <2>9. WordsOf(Stripped(messages, i, b)) =
          WordsOf([messages EXCEPT ![i].parts[b] =
                     Spared(messages[i].parts[b], Opening(messages[i].parts[b]))])
    <3>1. IsCommand(messages[i].parts[b])
      BY <2>4, <2>5
    <3>2. QED
      BY <2>5, <3>1, StrippedKeeps
  <2>10. Opening(text) = <<"/model", " ">> \o SubSeq(text, k, n)
    BY <2>8 DEF Opening
  <2>11. PICK spared : spared = Spared(text, <<"/model", " ">> \o SubSeq(text, k, n))
    OBVIOUS
  <2>12. spared = Spared(messages[i].parts[b], Opening(messages[i].parts[b]))
    BY <2>4, <2>10, <2>11
  <2>13. WordsOf(Resolve(messages, f).messages) = WordsOf([messages EXCEPT ![i].parts[b] = spared])
    BY <2>6, <2>9, <2>12
  <2> DEFINE Takes(x, y, z) ==
               /\ OpensWith(messages[i].parts[b], x, y, z)
               /\ WordsOf(Resolve(messages, f).messages) =
                    WordsOf([messages EXCEPT ![i].parts[b] =
                               Spared(messages[i].parts[b],
                                      <<"/model", " ">> \o SubSeq(messages[i].parts[b], y, z))])
  <2>a. spared = Spared(messages[i].parts[b],
                        <<"/model", " ">> \o SubSeq(messages[i].parts[b], k, n))
    BY <2>4, <2>11
  <2>b. Takes(m, k, n)
    BY <2>4, <2>8, <2>13, <2>a
  <2> HIDE DEF Takes
  <2>c. \E x, y, z \in DOMAIN messages[i].parts[b] : Takes(x, y, z)
    BY <2>4, <2>8, <2>b
  <2>14. \E x, y, z \in DOMAIN messages[i].parts[b] :
           /\ OpensWith(messages[i].parts[b], x, y, z)
           /\ WordsOf(Resolve(messages, f).messages) =
                WordsOf([messages EXCEPT ![i].parts[b] =
                           Spared(messages[i].parts[b],
                                  <<"/model", " ">> \o SubSeq(messages[i].parts[b], y, z))])
    BY <2>c DEF Takes
  <2>15. QED
    BY <2>5, <2>14 DEF OnlyCommandLost
<1>3. QED
  BY <1>1, <1>2

-----------------------------------------------------------------------------
\* What goes upstream of a longer conversation.

LEMMA PrefixIs ==
    ASSUME NEW S, NEW s \in Seq(S), NEW t \in Seq(S), Len(s) <= Len(t),
           \A i \in 1..Len(s) : s[i] = t[i]
    PROVE  IsPrefix(s, t)
<1>1. Len(s) \in Nat /\ Len(t) \in Nat
  BY LenProperties
<1>2. 1 \in 1..(Len(t) + 1) /\ Len(s) \in (1 - 1)..Len(t) /\ (Len(s) - 1) + 1 = Len(s)
  BY <1>1
<1> DEFINE front == SubSeq(t, 1, Len(s))
<1>3. /\ front \in Seq(S) /\ Len(front) = (Len(s) - 1) + 1
      /\ \A i \in 1..((Len(s) - 1) + 1) : front[i] = t[1 + i - 1]
  BY <1>2, PieceIs
<1> HIDE DEF front
<1>4. Len(front) = Len(s) /\ \A i \in 1..Len(s) : front[i] = s[i]
  BY <1>2, <1>3
<1>5. front = s
  BY <1>3, <1>4, SeqEqual
<1>6. QED
  BY <1>5, SubSeqFull DEF IsPrefix, front

\* The longer conversation begins with the messages.
Continues(messages, longer) ==
    /\ messages \in Seq(Message) /\ longer \in Seq(Message)
    /\ Len(messages) <= Len(longer) /\ \A i \in DOMAIN messages : longer[i] = messages[i]

\* A command in both is stripped from both the same way ...
LEMMA StrippedExtends ==
    ASSUME NEW messages, NEW longer, Continues(messages, longer),
           NEW i \in DOMAIN messages, NEW b
    PROVE  IsPrefix(Stripped(messages, i, b), Stripped(longer, i, b))
<1> DEFINE N == Len(messages)  L == Len(longer)
           parts == PartsLeft(messages[i].parts, b, Remainder(messages[i].parts[b]))
<1>1. /\ messages \in Seq(Message) /\ longer \in Seq(Message) /\ N <= L
      /\ \A k \in 1..N : longer[k] = messages[k]
      /\ N \in Nat /\ L \in Nat /\ DOMAIN messages = 1..N /\ DOMAIN longer = 1..L
      /\ i \in 1..N /\ i \in 1..L /\ longer[i] = messages[i]
  <2>1. messages \in Seq(Message) /\ longer \in Seq(Message) /\ N <= L
    BY DEF Continues
  <2>2. N \in Nat /\ L \in Nat /\ DOMAIN messages = 1..N /\ DOMAIN longer = 1..L
    BY <2>1, LenProperties
  <2>3. \A k \in 1..N : longer[k] = messages[k]
    BY <2>2 DEF Continues
  <2> HIDE DEF N, L
  <2>4. QED
    BY <2>1, <2>2, <2>3
<1>2. Stripped(messages, i, b) =
        IF parts = <<>> THEN RemoveAt(messages, i) ELSE [messages EXCEPT ![i].parts = parts]
  BY DEF Stripped
<1>3. Stripped(longer, i, b) =
        IF parts = <<>> THEN RemoveAt(longer, i) ELSE [longer EXCEPT ![i].parts = parts]
  BY <1>1 DEF Stripped
<1> HIDE DEF parts
<1>4. CASE parts = <<>>
  <2> DEFINE s == RemoveAt(messages, i)  t == RemoveAt(longer, i)
  <2>1. /\ s \in Seq(Message) /\ Len(s) = N - 1
        /\ \A k \in 1..(i - 1) : s[k] = messages[k]
        /\ \A k \in i..(N - 1) : s[k] = messages[k + 1]
    BY <1>1, RemoveAtIs
  <2>2. /\ t \in Seq(Message) /\ Len(t) = L - 1
        /\ \A k \in 1..(i - 1) : t[k] = longer[k]
        /\ \A k \in i..(L - 1) : t[k] = longer[k + 1]
    BY <1>1, RemoveAtIs
  <2> HIDE DEF s, t, N, L
  <2>3. \A k \in 1..(N - 1) : s[k] = t[k]
    <3>1. SUFFICES ASSUME NEW k \in 1..(N - 1) PROVE s[k] = t[k]
      OBVIOUS
    <3>2. CASE k < i
      <4>1. k \in 1..(i - 1) /\ k \in 1..N
        BY <1>1, <3>2
      <4>2. QED
        BY <1>1, <2>1, <2>2, <4>1
    <3>3. CASE ~(k < i)
      <4>1. k \in i..(N - 1) /\ k \in i..(L - 1) /\ k + 1 \in 1..N
        BY <1>1, <3>3
      <4>2. QED
        BY <1>1, <2>1, <2>2, <4>1
    <3>4. QED
      BY <3>2, <3>3
  <2>4. Len(s) <= Len(t)
    BY <1>1, <2>1, <2>2
  <2>5. IsPrefix(s, t)
    BY <2>1, <2>2, <2>3, <2>4, PrefixIs
  <2>6. QED
    BY <1>2, <1>3, <1>4, <2>5 DEF s, t
<1>5. CASE parts # <<>>
  <2>1. PICK m : m = [messages[i] EXCEPT !.parts = parts]
    OBVIOUS
  <2> DEFINE s == [messages EXCEPT ![i] = m]  t == [longer EXCEPT ![i] = m]
             U == Message \cup {m}
  <2>2. Stripped(messages, i, b) = s /\ Stripped(longer, i, b) = t
    BY <1>1, <1>2, <1>3, <1>5, <2>1
  <2>3. messages \in Seq(U) /\ longer \in Seq(U) /\ m \in U
    <3>1. Message \subseteq U /\ m \in U
      OBVIOUS
    <3> HIDE DEF U
    <3>2. QED
      BY <1>1, <3>1, SeqMonotonic
  <2> HIDE DEF U
  <2>4. s \in Seq(U) /\ Len(s) = N /\ \A k \in 1..N : s[k] = IF k = i THEN m ELSE messages[k]
    BY <1>1, <2>3, ExceptSeq
  <2>5. t \in Seq(U) /\ Len(t) = L /\ \A k \in 1..L : t[k] = IF k = i THEN m ELSE longer[k]
    BY <1>1, <2>3, ExceptSeq
  <2> HIDE DEF s, t, N, L
  <2>6. \A k \in 1..N : k \in 1..L
    BY <1>1
  <2>7. Len(s) <= Len(t) /\ \A k \in 1..Len(s) : s[k] = t[k]
    BY <1>1, <2>4, <2>5, <2>6
  <2>8. IsPrefix(s, t)
    BY <2>4, <2>5, <2>7, PrefixIs
  <2>9. QED
    BY <2>2, <2>8
<1>6. QED
  BY <1>4, <1>5

\* ... and one behind them all leaves them as they are.
LEMMA LaterStripped ==
    ASSUME NEW messages, NEW longer, Continues(messages, longer),
           NEW i \in DOMAIN longer, i \notin DOMAIN messages, NEW b
    PROVE  IsPrefix(messages, Stripped(longer, i, b))
<1> DEFINE N == Len(messages)  L == Len(longer)
           parts == PartsLeft(longer[i].parts, b, Remainder(longer[i].parts[b]))
<1>1. /\ messages \in Seq(Message) /\ longer \in Seq(Message) /\ N <= L
      /\ \A k \in 1..N : longer[k] = messages[k]
      /\ N \in Nat /\ L \in Nat /\ DOMAIN messages = 1..N /\ DOMAIN longer = 1..L
      /\ i \in (N + 1)..L /\ i \in 1..L
  <2>1. messages \in Seq(Message) /\ longer \in Seq(Message) /\ N <= L
    BY DEF Continues
  <2>2. N \in Nat /\ L \in Nat /\ DOMAIN messages = 1..N /\ DOMAIN longer = 1..L
    BY <2>1, LenProperties
  <2>3. \A k \in 1..N : longer[k] = messages[k]
    BY <2>2 DEF Continues
  <2>4. i \in 1..L /\ i \notin 1..N
    BY <2>2
  <2> HIDE DEF N, L
  <2>5. i \in (N + 1)..L
    BY <2>2, <2>4
  <2>6. QED
    BY <2>1, <2>2, <2>3, <2>4, <2>5
<1>2. Stripped(longer, i, b) =
        IF parts = <<>> THEN RemoveAt(longer, i) ELSE [longer EXCEPT ![i].parts = parts]
  BY DEF Stripped
<1> HIDE DEF parts
<1>3. CASE parts = <<>>
  <2> DEFINE t == RemoveAt(longer, i)
  <2>1. /\ t \in Seq(Message) /\ Len(t) = L - 1
        /\ \A k \in 1..(i - 1) : t[k] = longer[k]
    BY <1>1, RemoveAtIs
  <2> HIDE DEF t, N, L
  <2>2. N <= L - 1 /\ \A k \in 1..N : k \in 1..(i - 1)
    BY <1>1
  <2>3. Len(messages) <= Len(t) /\ \A k \in 1..Len(messages) : messages[k] = t[k]
    BY <1>1, <2>1, <2>2 DEF N
  <2>4. IsPrefix(messages, t)
    BY <1>1, <2>1, <2>3, PrefixIs
  <2>5. QED
    BY <1>2, <1>3, <2>4 DEF t
<1>4. CASE parts # <<>>
  <2>1. PICK m : m = [longer[i] EXCEPT !.parts = parts]
    OBVIOUS
  <2> DEFINE t == [longer EXCEPT ![i] = m]
             U == Message \cup {m}
  <2>2. Stripped(longer, i, b) = t
    BY <1>2, <1>4, <2>1
  <2>3. messages \in Seq(U) /\ longer \in Seq(U) /\ m \in U
    <3>1. Message \subseteq U /\ m \in U
      OBVIOUS
    <3> HIDE DEF U
    <3>2. QED
      BY <1>1, <3>1, SeqMonotonic
  <2> HIDE DEF U
  <2>4. t \in Seq(U) /\ Len(t) = L /\ \A k \in 1..L : t[k] = IF k = i THEN m ELSE longer[k]
    BY <1>1, <2>3, ExceptSeq
  <2> HIDE DEF t, N, L
  <2>5. \A k \in 1..N : k \in 1..L /\ k # i
    BY <1>1
  <2>6. Len(messages) <= Len(t) /\ \A k \in 1..Len(messages) : messages[k] = t[k]
    BY <1>1, <2>4, <2>5 DEF N
  <2>7. IsPrefix(messages, t)
    BY <2>3, <2>4, <2>6, PrefixIs
  <2>8. QED
    BY <2>2, <2>7
<1>5. QED
  BY <1>3, <1>4

\* resolve_route sends more of a longer conversation and changes nothing of what
\* it sent, whatever the fields are.
LEMMA ResolveExtends ==
    ASSUME NEW messages, NEW longer, Continues(messages, longer), NEW f, NEW g
    PROVE  IsPrefix(Resolve(messages, f).messages, Resolve(longer, g).messages)
<1>1. /\ messages \in Seq(Message) /\ longer \in Seq(Message)
      /\ Len(messages) <= Len(longer) /\ \A i \in DOMAIN messages : longer[i] = messages[i]
  BY DEF Continues
<1>2. \A p \in FirstCommand(messages) : p \in FirstCommand(longer)
  BY <1>1, FirstStays
<1>3. \A h : \A m \in Seq(Message) : \A p \in FirstCommand(m) :
         Resolve(m, h).messages = Stripped(m, p[1], p[2])
  <2>1. SUFFICES ASSUME NEW h, NEW m \in Seq(Message), NEW p \in FirstCommand(m)
                 PROVE  Resolve(m, h).messages = Stripped(m, p[1], p[2])
    OBVIOUS
  <2>2. (CHOOSE q \in FirstCommand(m) : TRUE) = p
    BY FirstUnique
  <2>3. QED
    BY <2>2 DEF Resolve
<1>4. CASE FirstCommand(longer) = {}
  <2>1. Resolve(messages, f).messages = messages /\ Resolve(longer, g).messages = longer
    BY <1>2, <1>4 DEF Resolve
  <2>2. DOMAIN messages = 1..Len(messages)
    BY <1>1, LenProperties
  <2>3. IsPrefix(messages, longer)
    BY <1>1, <2>2, PrefixIs
  <2>4. QED
    BY <2>1, <2>3
<1>5. CASE FirstCommand(messages) # {}
  <2>1. PICK p \in FirstCommand(messages) : p \in FirstCommand(longer)
    BY <1>2, <1>5
  <2>2. p \in Commands(messages)
    BY DEF FirstCommand
  <2>3. p[1] \in DOMAIN messages
    BY <2>2, CommandsAt DEF CommandAt
  <2>4. IsPrefix(Stripped(messages, p[1], p[2]), Stripped(longer, p[1], p[2]))
    BY <2>3, StrippedExtends
  <2>5. QED
    BY <1>1, <1>3, <2>1, <2>4
<1>6. CASE FirstCommand(messages) = {} /\ FirstCommand(longer) # {}
  <2>1. PICK p \in FirstCommand(longer) : TRUE
    BY <1>6
  <2>2. p \in Commands(longer)
    BY DEF FirstCommand
  <2>3. CommandAt(longer, p[1], p[2])
    BY <2>2, CommandsAt
  <2>4. p[1] \notin DOMAIN messages
    <3>1. SUFFICES ASSUME p[1] \in DOMAIN messages PROVE FALSE
      OBVIOUS
    <3>2. CommandAt(messages, p[1], p[2])
      BY <1>1, <2>3, <3>1 DEF CommandAt
    <3>3. Commands(messages) # {}
      BY <3>2, CommandsAt
    <3>4. QED
      BY <1>1, <1>6, <3>3, FirstExists
  <2>5. p[1] \in DOMAIN longer
    BY <2>3 DEF CommandAt
  <2>6. IsPrefix(messages, Stripped(longer, p[1], p[2]))
    BY <2>4, <2>5, LaterStripped
  <2>7. Resolve(messages, f).messages = messages
    BY <1>6 DEF Resolve
  <2>8. QED
    BY <1>1, <1>3, <2>1, <2>6, <2>7
<1>7. QED
  BY <1>4, <1>5, <1>6

-----------------------------------------------------------------------------
\* The sessions.

LEMMA FieldTyped ==
    ASSUME NEW f
    PROVE  FieldRoute(f).source \in RouteSource
BY DEF FieldRoute, ExplicitRoute, DefaultRoute, RouteSource

\* What the last request sent is the session but for its last answer.
LEMMA SentIs ==
    ASSUME session \in Seq(Message)
    PROVE  /\ Sent \in Seq(Message) /\ Len(Sent) <= Len(session)
           /\ \A i \in DOMAIN Sent : i \in DOMAIN session /\ session[i] = Sent[i]
<1> DEFINE N == Len(session)
<1>1. N \in Nat /\ DOMAIN session = 1..N
  BY LenProperties
<1>2. CASE session = <<>>
  BY <1>1, <1>2 DEF Sent
<1>3. CASE session # <<>>
  <2>1. N # 0
    BY <1>3, EmptySeq
  <2> DEFINE front == SubSeq(session, 1, N - 1)
  <2>2. Sent = front
    BY <1>3 DEF Sent, Front
  <2>3. 1 \in 1..(Len(session) + 1) /\ N - 1 \in (1 - 1)..Len(session) /\ ((N - 1) - 1) + 1 = N - 1
    BY <1>1, <2>1
  <2>4. /\ front \in Seq(Message) /\ Len(front) = ((N - 1) - 1) + 1
        /\ \A i \in 1..(((N - 1) - 1) + 1) : front[i] = session[1 + i - 1]
    BY <2>3, PieceIs
  <2> HIDE DEF front, N
  <2>5. DOMAIN front = 1..(N - 1) /\ \A i \in 1..(N - 1) : i \in 1..N /\ 1 + i - 1 = i
    BY <1>1, <2>3, <2>4, LenProperties
  <2>6. QED
    BY <1>1, <2>2, <2>3, <2>4, <2>5 DEF N
<1>4. QED
  BY <1>2, <1>3

\* A turn keeps the invariant, the route of a session that has a command, and
\* what went upstream before it.
LEMMA TurnInv ==
    ASSUME IInv, Turn
    PROVE  IInv' /\ (Commands(session) # {} => route' = route) /\ IsPrefix(upstream, upstream')
<1>1. PICK typed \in Typed, answer \in Answers :
        LET resolved == Resolve(Append(session, typed), field)
        IN  /\ route' = resolved.route
            /\ upstream' = resolved.messages
            /\ session' = session \o <<typed, [role |-> "assistant", parts |-> <<answer>>]>>
  BY DEF Turn
<1>2. PICK sent, longer :
        /\ TurnMakes(typed, answer, sent, longer)
        /\ route' = Resolve(sent, field).route /\ upstream' = Resolve(sent, field).messages
        /\ session' = longer /\ field' = field
  BY <1>1 DEF Turn, TurnMakes
<1>3. session \in Seq(Message) /\ field \in Qualified \cup Bare
  BY DEF IInv, TypeOK
<1>4. /\ sent \in Seq(Message) /\ session' \in Seq(Message)
      /\ Len(session) <= Len(sent) /\ \A i \in DOMAIN session : sent[i] = session[i]
      /\ session' # <<>> /\ Front(session') = sent
      /\ Commands(session') = Commands(sent)
      /\ \A p \in Commands(session') : session'[p[1]] = sent[p[1]]
  <2>1. TurnMakes(typed, answer, sent, longer) /\ typed \in Typed /\ answer \in Answers
    BY <1>1, <1>2
  <2>2. sent \in Seq(Message) /\ longer \in Seq(Message)
    BY <1>3, <2>1, TurnFacts
  <2>3. Len(session) <= Len(sent)
    BY <1>3, <2>1, TurnFacts
  <2>4. \A i \in DOMAIN session : sent[i] = session[i]
    BY <1>3, <2>1, TurnFacts
  <2>5. longer # <<>> /\ Front(longer) = sent
    BY <1>3, <2>1, TurnFacts
  <2>6. \A s, l : TurnMakes(typed, answer, s, l) => Commands(l) = Commands(s)
    BY <1>3, <2>1, TurnFacts
  <2>7. \A s, l : TurnMakes(typed, answer, s, l) => \A p \in Commands(l) : l[p[1]] = s[p[1]]
    BY <1>3, <2>1, TurnFacts
  <2>8. Commands(longer) = Commands(sent)
    BY <2>1, <2>6
  <2>9. \A p \in Commands(longer) : longer[p[1]] = sent[p[1]]
    BY <2>1, <2>7
  <2>10. session' = longer
    BY <1>2
  <2>11. Commands(session') = Commands(sent)
    BY <2>8, <2>10
  <2>12. \A p \in Commands(session') : session'[p[1]] = sent[p[1]]
    BY <2>9, <2>10
  <2>13. session' \in Seq(Message) /\ session' # <<>> /\ Front(session') = sent
    BY <2>2, <2>5, <2>10
  <2>14. QED
    BY <2>2, <2>3, <2>4, <2>11, <2>12, <2>13
<1>5. FirstCommand(session') = FirstCommand(sent)
  BY <1>4, FirstOfSame
<1>6. ASSUME Commands(sent) # {}
      PROVE  \E p \in FirstCommand(sent) :
               route' = CommandRoute(sent[p[1]].parts[p[2]]) /\ session'[p[1]] = sent[p[1]]
  <2>1. PICK p \in FirstCommand(sent) : TRUE
    BY <1>4, <1>6, FirstExists
  <2>2. p \in Commands(session')
    BY <1>4 DEF FirstCommand
  <2>3. Resolve(sent, field).route = CommandRoute(sent[p[1]].parts[p[2]])
    BY <1>4, Resolved
  <2>4. QED
    BY <1>2, <1>4, <2>2, <2>3
<1>7. RoutedByFirst'
  BY <1>4, <1>5, <1>6 DEF RoutedByFirst
<1>8. Commands(session) # {} => route' = route
  <2>1. SUFFICES ASSUME Commands(session) # {}
                 PROVE  route' = route
    OBVIOUS
  <2>2. PICK p \in FirstCommand(session) : route = CommandRoute(session[p[1]].parts[p[2]])
    BY <2>1 DEF IInv, RoutedByFirst
  <2>3. p \in FirstCommand(sent) /\ sent[p[1]] = session[p[1]]
    BY <1>3, <1>4, FirstStays
  <2>4. route' = CommandRoute(sent[p[1]].parts[p[2]])
    BY <1>2, <1>4, <2>3, Resolved
  <2>5. QED
    BY <2>2, <2>3, <2>4
<1>9. route'.source \in RouteSource
  <2>1. CASE Commands(sent) = {}
    BY <1>2, <1>4, <2>1, Resolved, FieldTyped
  <2>2. CASE Commands(sent) # {}
    BY <1>6, <2>2 DEF CommandRoute, ExplicitRoute, RouteSource
  <2>3. QED
    BY <2>1, <2>2
<1>11. Full(upstream')
  BY <1>2, <1>4, ResolvedFull
<1>12. TypeOK'
  BY <1>2, <1>3, <1>9, <1>11 DEF TypeOK, Full
<1>13. SentResolved'
  <2>1. Sent' = sent
    BY <1>4 DEF Sent
  <2>2. QED
    BY <1>2, <2>1 DEF SentResolved
<1>14. IsPrefix(upstream, upstream')
  <2>1. PICK before : before = Sent
    OBVIOUS
  <2>2. /\ before \in Seq(Message) /\ Len(before) <= Len(session)
        /\ \A i \in DOMAIN before : i \in DOMAIN session /\ session[i] = before[i]
    BY <1>3, <2>1, SentIs
  <2>3. Len(before) \in Nat /\ Len(session) \in Nat /\ Len(sent) \in Nat
    BY <1>3, <1>4, <2>2, LenProperties
  <2>4. Len(before) <= Len(sent)
    BY <1>4, <2>2, <2>3
  <2>5. Continues(before, sent)
    BY <1>4, <2>2, <2>4 DEF Continues
  <2>6. upstream = Resolve(before, field).messages
    BY <2>1 DEF IInv, SentResolved
  <2>7. QED
    BY <1>2, <2>5, <2>6, ResolveExtends
<1>15. QED
  BY <1>4, <1>7, <1>8, <1>12, <1>13, <1>14 DEF IInv

LEMMA RouteInitIInv ==
    ASSUME Init
    PROVE  IInv
<1>1. session = <<>> /\ upstream = <<>> /\ DOMAIN session = {} /\ DOMAIN upstream = {}
  <2>1. DOMAIN <<>> = {}
    OBVIOUS
  <2>2. QED
    BY <2>1 DEF Init
<1>2. Commands(session) = {}
  BY <1>1, CommandsAt DEF CommandAt
<1>3. session \in Seq(Message)
  BY <1>1
<1>4. route.source \in RouteSource
  BY DEF Init, DefaultRoute, RouteSource
<1>5. TypeOK
  BY <1>1, <1>4 DEF Init, TypeOK
<1>6. SentResolved
  <2>1. FirstCommand(session) = {}
    BY <1>2 DEF FirstCommand
  <2>2. Sent = session /\ upstream = session
    BY <1>1 DEF Sent
  <2>3. QED
    BY <2>1, <2>2 DEF SentResolved, Resolve
<1>7. QED
  BY <1>2, <1>3, <1>5, <1>6 DEF IInv, RoutedByFirst

LEMMA RouteNextIInv ==
    ASSUME IInv, [Next]_vars
    PROVE  /\ IInv'
           /\ Turn /\ Commands(session) # {} => route' = route
<1>1. CASE Turn
  BY <1>1, TurnInv
<1>2. CASE SelectModel \/ UNCHANGED vars
  <2>1. session' = session /\ route' = route /\ upstream' = upstream /\ field' \in Qualified \cup Bare
    BY <1>2 DEF SelectModel, vars, IInv, TypeOK
  <2>2. IInv'
    <3>1. Resolve(Sent, field').messages = Resolve(Sent, field).messages
      BY DEF Resolve
    <3>2. Sent' = Sent
      BY <2>1 DEF Sent
    <3>3. SentResolved'
      BY <2>1, <3>1, <3>2 DEF IInv, SentResolved
    <3>4. QED
      BY <2>1, <3>3 DEF IInv, TypeOK, RoutedByFirst
  <2>3. QED
    BY <2>1, <2>2
<1>3. QED
  BY <1>1, <1>2 DEF Next

\* A session with a text command in it is always routed by its first one.
THEOREM RouteInvariant == Spec => []IInv
<1>1. IInv /\ [Next]_vars => IInv'
  BY RouteNextIInv
<1>2. QED
  BY <1>1, RouteInitIInv, PTL DEF Spec

\* apply_strip: no message without a part, and no empty part, goes upstream.
THEOREM NothingEmptySent == Spec => []TypeOK
<1>1. IInv => TypeOK
  BY DEF IInv
<1>2. QED
  BY <1>1, RouteInvariant, PTL

\* parse_and_strip and apply_strip: whatever part, message or turn a command was
\* in, stripping it costs the conversation the copies of "/model id" in its part
\* and nothing else, and leaves what is left in its order.
THEOREM NothingLost == Spec => []NothingElseStripped
<1>1. IInv => NothingElseStripped
  <2>1. SUFFICES ASSUME IInv PROVE NothingElseStripped
    OBVIOUS
  <2>2. PICK sent, f : sent = Sent /\ f = field
    OBVIOUS
  <2>3. sent \in Seq(Message)
    BY <2>1, <2>2, SentIs DEF IInv
  <2>4. upstream = Resolve(sent, f).messages
    BY <2>1, <2>2 DEF IInv, SentResolved
  <2>5. QED
    BY <2>2, <2>3, <2>4, ResolvedKeeps DEF NothingElseStripped
<1>2. QED
  BY <1>1, RouteInvariant, PTL

\* parse_and_strip: once a user has sent a text command the route of the session
\* is settled, whatever is said, selected or answered later.
THEOREM FirstGoverns == Spec => FirstCommandGoverns
<1>1. ASSUME IInv, [Next]_vars
      PROVE  [Turn /\ (\E i \in DOMAIN session :
                 /\ session[i].role = "user"
                 /\ \E b \in DOMAIN session[i].parts : IsCommand(session[i].parts[b]))
              => route' = route]_vars
  <2>1. SUFFICES ASSUME Turn, NEW i \in DOMAIN session, session[i].role = "user",
                        NEW b \in DOMAIN session[i].parts, IsCommand(session[i].parts[b])
                 PROVE  route' = route
    OBVIOUS
  <2>2. CommandAt(session, i, b)
    BY <2>1 DEF CommandAt
  <2>3. Commands(session) # {}
    BY <2>2, CommandsAt
  <2>4. QED
    BY <1>1, <2>1, <2>3, RouteNextIInv
<1>2. QED
  BY <1>1, RouteInvariant, PTL DEF Spec, FirstCommandGoverns

\* parse_and_strip, over the turns of a session: what was sent upstream of a
\* conversation is sent again as it was, with what came since behind it.
THEOREM HistoryKept == Spec => TurnsExtend
<1>1. IInv /\ [Next]_vars => [Turn => IsPrefix(upstream, upstream')]_vars
  BY TurnInv
<1>2. QED
  BY <1>1, RouteInvariant, PTL DEF Spec, TurnsExtend
=============================================================================
