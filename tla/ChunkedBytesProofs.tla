------------------------- MODULE ChunkedBytesProofs -------------------------
(***************************************************************************)
(* A stream of events that comes in chunks, for events of any number,      *)
(* texts of any length and any way to cut them: a reader that has got some *)
(* of the bytes has drained the lines of the events that came whole, and   *)
(* stands inside the line of the next one.                                 *)
(*                                                                         *)
(* Induction is stated about sets and functions instead of operators, so   *)
(* that the provers can use it: a property of numbers is the set of the    *)
(* numbers that have it, and a recursion is a function of the number and   *)
(* of the value before.                                                    *)
(***************************************************************************)
EXTENDS ChunkedBytes, Integers, SequenceTheorems, FiniteSetTheorems, WellFoundedInduction,
        NaturalsInduction, TLAPS

-----------------------------------------------------------------------------
\* Induction.

\* A set of numbers that has an element has a least one.
LEMMA LeastNumber ==
    ASSUME NEW T \in SUBSET Nat, T # {}
    PROVE  \E least \in T : \A n \in T : least <= n
<1>1. IsWellFoundedOn({ss \in Nat \X Nat : ss[1] < ss[2]}, Nat)
  BY NatLessThanWellFounded DEF OpToRel
<1>2. \E least \in T : \A n \in T : ~(<<n, least>> \in {ss \in Nat \X Nat : ss[1] < ss[2]})
  BY <1>1, WFMin
<1>3. \A n, m \in Nat : ~(<<n, m>> \in {ss \in Nat \X Nat : ss[1] < ss[2]}) => m <= n
  <2>1. SUFFICES ASSUME NEW n \in Nat, NEW m \in Nat, n < m
                 PROVE  <<n, m>> \in {ss \in Nat \X Nat : ss[1] < ss[2]}
    OBVIOUS
  <2>2. <<n, m>> \in Nat \X Nat /\ <<n, m>>[1] = n /\ <<n, m>>[2] = m
    OBVIOUS
  <2>3. QED
    BY <2>1, <2>2
<1>4. QED
  BY <1>2, <1>3

\* Induction up to a bound.
LEMMA UpTo ==
    ASSUME NEW N \in Nat, NEW T, 0 \in T,
           \A n \in 0..N : n \in T /\ n < N => n + 1 \in T
    PROVE  \A n \in 0..N : n \in T
<1> DEFINE Without == {n \in 0..N : n \notin T}
<1>1. SUFFICES ASSUME Without # {} PROVE FALSE
  OBVIOUS
<1>2. Without \in SUBSET Nat
  OBVIOUS
<1>3. PICK least \in Without : \A n \in Without : least <= n
  BY <1>1, <1>2, LeastNumber
<1>4. least \in 0..N /\ least \notin T /\ least # 0
  BY <1>3
<1>5. least - 1 \in 0..N /\ least - 1 < N /\ ~(least <= least - 1) /\ (least - 1) + 1 = least
  BY <1>4
<1>6. least - 1 \in T
  BY <1>3, <1>5
<1>7. QED
  BY <1>4, <1>5, <1>6

\* f runs through what step makes, place by place, of the value before.
Recurses(f, first, step, N, S) ==
    /\ f \in [0..N -> S]
    /\ f[0] = first
    /\ \A n \in 1..N : f[n] = step[<<n, f[n - 1]>>]

\* There is such a function for every step.
LEMMA Recursion ==
    ASSUME NEW N \in Nat, NEW S, NEW first \in S, NEW step \in [(1..N) \X S -> S]
    PROVE  \E f : Recurses(f, first, step, N, S)
<1> DEFINE Good(f, n) == /\ f \in [0..n -> S] /\ f[0] = first
                         /\ \A m \in 1..n : f[m] = step[<<m, f[m - 1]>>]
           T == {n \in 0..N : \E f : Good(f, n)}
<1>1. 0 \in T
  <2>1. Good([n \in 0..0 |-> first], 0)
    OBVIOUS
  <2> HIDE DEF Good
  <2>2. 0 \in 0..N /\ \E f : Good(f, 0)
    BY <2>1
  <2>3. QED
    BY <2>2
<1>2. ASSUME NEW n \in 0..N, n \in T, n < N
      PROVE  n + 1 \in T
  <2>1. PICK f : Good(f, n)
    BY <1>2
  <2> DEFINE v == step[<<n + 1, f[n]>>]
             g == [m \in 0..(n + 1) |-> IF m = n + 1 THEN v ELSE f[m]]
  <2>2. n \in Nat /\ n \in 0..n /\ n + 1 \in 1..N /\ n + 1 \in 0..N
    BY <1>2
  <2>3. f[n] \in S
    BY <2>1, <2>2
  <2>4. v \in S
    BY <2>2, <2>3
  <2>5. g \in [0..(n + 1) -> S]
    <3>1. ASSUME NEW m \in 0..(n + 1), m # n + 1
          PROVE  m \in 0..n
      BY <2>2, <3>1
    <3>2. QED
      BY <2>1, <2>4, <3>1
  <2>6. g[0] = first
    BY <2>1, <2>2
  <2>7. ASSUME NEW m \in 1..(n + 1)
        PROVE  g[m] = step[<<m, g[m - 1]>>]
    <3>1. m - 1 \in 0..(n + 1) /\ m - 1 # n + 1 /\ m \in 0..(n + 1)
      BY <2>2
    <3>2. g[m - 1] = f[m - 1]
      BY <3>1
    <3>3. CASE m = n + 1
      <4>1. m - 1 = n /\ g[m] = v
        BY <2>2, <3>3
      <4>2. QED
        BY <3>2, <3>3, <4>1
    <3>4. CASE m # n + 1
      <4>1. m \in 1..n /\ g[m] = f[m]
        BY <2>2, <3>4
      <4>2. QED
        BY <2>1, <3>2, <4>1
    <3>5. QED
      BY <3>3, <3>4
  <2>8. Good(g, n + 1)
    BY <2>5, <2>6, <2>7
  <2>9. QED
    BY <2>2, <2>8
<1> HIDE DEF T
<1>3. N \in T
  BY <1>1, <1>2, UpTo
<1>4. QED
  BY <1>3 DEF T, Recurses

-----------------------------------------------------------------------------
\* Flattening.

Associative(S) == \A s, t, u \in Seq(S) : (s \o t) \o u = s \o (t \o u)

LEMMA Associativity ==
    ASSUME NEW S
    PROVE  Associative(S)
BY ConcatAssociative DEF Associative

\* f is the flattening of the first n sequences of ss, for every n.
Flattens(f, ss, S) ==
    /\ f \in [0..Len(ss) -> Seq(S)]
    /\ f[0] = <<>>
    /\ \A n \in 1..Len(ss) : f[n] = f[n - 1] \o ss[n]

LEMMA FlattensExists ==
    ASSUME NEW S, NEW ss \in Seq(Seq(S))
    PROVE  \E f : Flattens(f, ss, S)
<1> DEFINE N == Len(ss)
           Q == Seq(S)
           none == <<>>
           step == [x \in (1..N) \X Q |-> x[2] \o ss[x[1]]]
<1>1. N \in Nat /\ \A n \in 1..N : ss[n] \in Seq(S)
  BY LenProperties, ElementOfSeq
<1>2. step \in [(1..N) \X Q -> Q]
  BY <1>1, ConcatProperties
<1>3. none \in Q
  OBVIOUS
<1>4. \A n \in 1..N, v \in Q : step[<<n, v>>] = v \o ss[n]
  OBVIOUS
<1> HIDE DEF N, Q, none, step
<1>a. N \in Nat
  BY <1>1
<1>b. PICK f : Recurses(f, none, step, N, Q)
  BY <1>a, <1>2, <1>3, Recursion
<1>5. /\ f \in [0..N -> Q] /\ f[0] = none
      /\ \A n \in 1..N : f[n] = step[<<n, f[n - 1]>>]
  BY <1>b DEF Recurses
<1>6. \A n \in 1..N : n - 1 \in 0..N
  BY <1>1
<1>7. \A n \in 1..N : f[n] = f[n - 1] \o ss[n]
  BY <1>4, <1>5, <1>6
<1>8. QED
  BY <1>5, <1>7 DEF Flattens, N, Q, none

LEMMA FlattensIs ==
    ASSUME NEW S, NEW ss \in Seq(Seq(S)), NEW f, Flattens(f, ss, S)
    PROVE  FlattenSeq(ss) = f[Len(ss)]
<1> DEFINE N == Len(ss)
<1>a. 1 \in 1..N => f[1] = f[0] \o ss[1]
  <2>1. \A n \in 1..N : f[n] = f[n - 1] \o ss[n]
    BY DEF Flattens
  <2>2. 1 - 1 = 0
    OBVIOUS
  <2> HIDE DEF N
  <2>3. QED
    BY <2>1, <2>2
<1> DEFINE Eq(g) == g = [i \in 1..N |-> IF i = 1 THEN ss[i] ELSE g[i - 1] \o ss[i]]
           h == [i \in 1..N |-> f[i]]
           flatten == CHOOSE g : Eq(g)
<1>1. N \in Nat /\ \A n \in 1..N : ss[n] \in Seq(S)
  BY LenProperties, ElementOfSeq
<1>0. f[0] = <<>> /\ \A n \in 1..N : f[n] = f[n - 1] \o ss[n]
  BY DEF Flattens
<1>2. CASE N = 0
  <2>1. ss = <<>>
    BY <1>2, EmptySeq
  <2>2. FlattenSeq(ss) = ss
    BY <1>2 DEF FlattenSeq
  <2>3. QED
    BY <1>2, <1>0, <2>1, <2>2
<1>3. CASE N # 0
  <2>1. FlattenSeq(ss) = flatten[N]
    BY <1>3 DEF FlattenSeq
  <2>2. h[1] = ss[1]
    <3>1. 1 \in 1..N /\ ss[1] \in Seq(S)
      BY <1>1, <1>3
    <3>2. f[1] = f[0] \o ss[1]
      BY <1>a, <3>1
    <3>3. f[1] = ss[1]
      BY <1>0, <3>1, <3>2, ConcatEmptySeq
    <3>4. QED
      BY <3>1, <3>3
  <2>3. \A i \in 1..N : i # 1 => h[i] = h[i - 1] \o ss[i]
    <3>1. SUFFICES ASSUME NEW i \in 1..N, i # 1 PROVE h[i] = h[i - 1] \o ss[i]
      OBVIOUS
    <3>2. i - 1 \in 1..N
      BY <1>1, <3>1
    <3>3. QED
      BY <1>0, <3>1, <3>2
  <2>4. Eq(h)
    <3> DEFINE k == [i \in 1..N |-> IF i = 1 THEN ss[i] ELSE h[i - 1] \o ss[i]]
    <3>1. \A i \in 1..N : h[i] = k[i]
      BY <2>2, <2>3
    <3>2. QED
      BY <3>1
  <2>5. Eq(flatten)
    BY <2>4
  <2>0. N \in Nat
    BY <1>1
  <2> HIDE DEF flatten, h, N
  <2>6. \A i \in 1..N : flatten[i] = IF i = 1 THEN ss[i] ELSE flatten[i - 1] \o ss[i]
    BY <2>5
  <2>a. \A n \in 0..N : n < N => n + 1 \in 1..N /\ n + 1 \in 0..N /\ (n + 1) - 1 = n
    BY <2>0
  <2> DEFINE T == {n \in 0..N : n = 0 \/ flatten[n] = h[n]}
  <2>7. 0 \in T
    BY <2>0
  <2>8. ASSUME NEW n \in 0..N, n \in T, n < N
        PROVE  n + 1 \in T
    <3>1. n + 1 \in 1..N /\ n + 1 \in 0..N /\ (n + 1) - 1 = n
      BY <2>8, <2>a
    <3>2. CASE n = 0
      <4>1. flatten[1] = ss[1] /\ h[1] = ss[1]
        BY <2>2, <2>6, <3>1, <3>2
      <4>2. QED
        BY <3>1, <3>2, <4>1
    <3>3. CASE n # 0
      <4>1. flatten[n] = h[n]
        BY <2>8, <3>3
      <4>2. n + 1 # 1
        BY <3>3
      <4>3. flatten[n + 1] = flatten[n] \o ss[n + 1]
        BY <2>6, <3>1, <4>2
      <4>4. h[n + 1] = h[n] \o ss[n + 1]
        BY <2>3, <3>1, <4>2
      <4>5. QED
        BY <3>1, <4>1, <4>3, <4>4
    <3>4. QED
      BY <3>2, <3>3
  <2> HIDE DEF T
  <2>b. \A n \in 0..N : n \in T /\ n < N => n + 1 \in T
    BY <2>8
  <2>9. N \in T
    <3>1. \A n \in 0..N : n \in T
      BY <2>0, <2>7, <2>b, UpTo
    <3>2. QED
      BY <2>0, <3>1
  <2>10. flatten[N] = h[N]
    BY <1>3, <2>9 DEF T
  <2>11. h[N] = f[N]
    BY <1>3, <2>0 DEF h
  <2>12. QED
    BY <2>1, <2>10, <2>11 DEF N
<1>4. QED
  BY <1>2, <1>3

\* Flattening sequences over S gives a sequence over S.
LEMMA FlattenType ==
    ASSUME NEW S, NEW ss \in Seq(Seq(S))
    PROVE  FlattenSeq(ss) \in Seq(S) /\ FlattenSeq(<<>>) = <<>>
<1>1. PICK f : Flattens(f, ss, S)
  BY FlattensExists
<1>2. FlattenSeq(ss) = f[Len(ss)]
  BY <1>1, FlattensIs
<1>3. Len(ss) \in 0..Len(ss)
  BY LenProperties
<1>4. FlattenSeq(<<>>) = <<>>
  BY DEF FlattenSeq
<1>5. QED
  BY <1>1, <1>2, <1>3, <1>4 DEF Flattens

\* One more sequence at the end ...
LEMMA FlattenGrows ==
    ASSUME NEW S, NEW ss \in Seq(Seq(S)), NEW tt \in Seq(Seq(S)), Len(tt) = Len(ss) + 1,
           \A i \in 1..Len(ss) : tt[i] = ss[i]
    PROVE  FlattenSeq(tt) = FlattenSeq(ss) \o tt[Len(tt)]
<1> DEFINE N == Len(ss)
<1>1. PICK f : Flattens(f, ss, S)
  BY FlattensExists
<1> DEFINE g == [n \in 0..(N + 1) |-> IF n = N + 1 THEN f[N] \o tt[N + 1] ELSE f[n]]
<1>2. N \in Nat /\ Len(tt) = N + 1 /\ \A n \in 1..(N + 1) : tt[n] \in Seq(S)
  BY LenProperties, ElementOfSeq
<1>3. /\ f \in [0..N -> Seq(S)] /\ f[0] = <<>>
      /\ \A n \in 1..N : f[n] = f[n - 1] \o tt[n]
  BY <1>1 DEF Flattens
<1>4. \A i \in 1..N : tt[i] = ss[i]
  OBVIOUS
<1>5. FlattenSeq(ss) = f[N]
  BY <1>1, FlattensIs
<1>6. Flattens(g, tt, S)
  <2> HIDE DEF N
  <2>1. N \in 0..N /\ N + 1 \in 1..(N + 1) /\ 0 \in 0..(N + 1) /\ 0 # N + 1
    BY <1>2
  <2>2. f[N] \o tt[N + 1] \in Seq(S)
    BY <1>2, <1>3, <2>1, ConcatProperties
  <2>3. \A n \in 0..(N + 1) : n # N + 1 => n \in 0..N
    BY <1>2
  <2>4. g \in [0..(N + 1) -> Seq(S)]
    BY <1>3, <2>2, <2>3
  <2>5. g[0] = <<>>
    BY <1>3, <2>1
  <2>6. ASSUME NEW n \in 1..(N + 1)
        PROVE  g[n] = g[n - 1] \o tt[n]
    <3>1. n \in 0..(N + 1) /\ n - 1 \in 0..(N + 1) /\ n - 1 # N + 1
      BY <1>2
    <3>2. g[n - 1] = f[n - 1]
      BY <3>1
    <3>3. CASE n = N + 1
      <4>1. n - 1 = N
        BY <1>2, <3>3
      <4>2. g[n] = f[N] \o tt[N + 1]
        BY <3>1, <3>3
      <4>3. QED
        BY <3>2, <3>3, <4>1, <4>2
    <3>4. CASE n # N + 1
      <4>1. n \in 1..N /\ g[n] = f[n]
        BY <1>2, <3>1, <3>4
      <4>2. QED
        BY <1>3, <3>2, <4>1
    <3>5. QED
      BY <3>3, <3>4
  <2>7. QED
    BY <1>2, <2>4, <2>5, <2>6 DEF Flattens
<1>7. FlattenSeq(tt) = g[N + 1]
  BY <1>2, <1>6, FlattensIs
<1>8. N + 1 \in 0..(N + 1)
  BY <1>2
<1>9. g[N + 1] = f[N] \o tt[N + 1]
  BY <1>8
<1> HIDE DEF g
<1>10. QED
  BY <1>2, <1>5, <1>7, <1>9

\* ... and one more in front.
LEMMA FlattenPeels ==
    ASSUME NEW S, NEW ss \in Seq(Seq(S)), NEW tt \in Seq(Seq(S)), Len(tt) = Len(ss) + 1,
           \A i \in 1..Len(ss) : tt[i + 1] = ss[i]
    PROVE  FlattenSeq(tt) = tt[1] \o FlattenSeq(ss)
<1> DEFINE N == Len(ss)
<1>1. PICK f : Flattens(f, ss, S)
  BY FlattensExists
<1>0. Associative(S)
  BY Associativity
<1> DEFINE g == [n \in 0..(N + 1) |-> IF n = 0 THEN <<>> ELSE tt[1] \o f[n - 1]]
<1>2. /\ N \in Nat /\ Len(tt) = N + 1 /\ tt[1] \in Seq(S)
      /\ \A n \in 1..N : ss[n] \in Seq(S) /\ tt[n + 1] = ss[n]
  BY LenProperties, ElementOfSeq
<1>3. /\ f \in [0..N -> Seq(S)] /\ f[0] = <<>>
      /\ \A n \in 1..N : f[n] = f[n - 1] \o ss[n]
  BY <1>1 DEF Flattens
<1>4. FlattenSeq(ss) = f[N]
  BY <1>1, FlattensIs
<1>5. Flattens(g, tt, S)
  <2> HIDE DEF N
  <2>1. \A n \in 0..(N + 1) : n # 0 => n - 1 \in 0..N
    BY <1>2
  <2>2. \A n \in 0..N : tt[1] \o f[n] \in Seq(S)
    BY <1>2, <1>3, ConcatProperties
  <2>3. g \in [0..(N + 1) -> Seq(S)]
    BY <2>1, <2>2
  <2>4. g[0] = <<>>
    BY <1>2
  <2>5. ASSUME NEW n \in 1..(N + 1)
        PROVE  g[n] = g[n - 1] \o tt[n]
    <3>1. n \in 0..(N + 1) /\ n - 1 \in 0..(N + 1) /\ n # 0
      BY <1>2
    <3>2. g[n] = tt[1] \o f[n - 1]
      BY <3>1
    <3>3. CASE n = 1
      <4>1. n - 1 = 0 /\ g[n - 1] = <<>>
        BY <2>4, <3>3
      <4>2. g[n] = tt[1] \o <<>>
        BY <1>3, <3>2, <4>1
      <4>3. tt[1] \o <<>> = tt[1] /\ <<>> \o tt[1] = tt[1]
        BY <1>2, ConcatEmptySeq
      <4>4. QED
        BY <3>3, <4>1, <4>2, <4>3
    <3>4. CASE n # 1
      <4> HIDE DEF g
      <4>0. N \in Nat
        BY <1>2
      <4>1. /\ n - 1 # 0 /\ n - 1 \in 1..N /\ (n - 1) + 1 = n
            /\ (n - 1) - 1 \in 0..N
        BY <3>4, <4>0
      <4> USE DEF g
      <4>2. g[n - 1] = tt[1] \o f[(n - 1) - 1]
        BY <3>1, <4>1
      <4>3. f[n - 1] = f[(n - 1) - 1] \o ss[n - 1] /\ tt[n] = ss[n - 1]
        BY <1>2, <1>3, <4>1
      <4>4. f[(n - 1) - 1] \in Seq(S) /\ ss[n - 1] \in Seq(S)
        BY <1>2, <1>3, <4>1
      <4>5. tt[1] \o (f[(n - 1) - 1] \o ss[n - 1]) = (tt[1] \o f[(n - 1) - 1]) \o ss[n - 1]
        BY <1>2, <4>4, <1>0 DEF Associative
      <4>6. QED
        BY <3>2, <4>2, <4>3, <4>5
    <3>5. QED
      BY <3>3, <3>4
  <2>6. QED
    BY <1>2, <2>3, <2>4, <2>5 DEF Flattens
<1>6. FlattenSeq(tt) = g[N + 1]
  BY <1>2, <1>5, FlattensIs
<1>7. N + 1 \in 0..(N + 1) /\ N + 1 # 0 /\ (N + 1) - 1 = N
  BY <1>2
<1>8. g[N + 1] = tt[1] \o f[N]
  BY <1>7
<1> HIDE DEF g
<1>9. QED
  BY <1>4, <1>6, <1>8

-----------------------------------------------------------------------------
\* Pieces of sequences.

LEMMA FromFacts ==
    ASSUME NEW S, NEW s \in Seq(S), NEW n \in 0..Len(s)
    PROVE  /\ From(s, n) \in Seq(S) /\ Len(From(s, n)) = Len(s) - n
           /\ \A i \in 1..(Len(s) - n) : From(s, n)[i] = s[n + i]
<1>1. Len(s) \in Nat /\ n \in Nat /\ \A i \in 1..Len(s) : s[i] \in S
  BY LenProperties, ElementOfSeq
<1>2. \A i \in (n + 1)..Len(s) : s[i] \in S
  BY <1>1
<1>3. n + 1 \in Int /\ Len(s) \in Int
  BY <1>1
<1>4. /\ SubSeq(s, n + 1, Len(s)) \in Seq(S)
      /\ Len(SubSeq(s, n + 1, Len(s))) = IF n + 1 <= Len(s) THEN Len(s) - (n + 1) + 1 ELSE 0
      /\ \A i \in 1..(Len(s) - (n + 1) + 1) : SubSeq(s, n + 1, Len(s))[i] = s[(n + 1) + i - 1]
  BY <1>2, <1>3, SubSeqProperties
<1>5. Len(s) - (n + 1) + 1 = Len(s) - n /\ (~(n + 1 <= Len(s)) => Len(s) - n = 0)
  BY <1>1
<1>6. \A i \in 1..(Len(s) - n) : (n + 1) + i - 1 = n + i
  BY <1>1
<1>7. QED
  BY <1>4, <1>5, <1>6 DEF From

LEMMA FirstFacts ==
    ASSUME NEW S, NEW s \in Seq(S), NEW n \in 0..Len(s)
    PROVE  /\ SubSeq(s, 1, n) \in Seq(S) /\ Len(SubSeq(s, 1, n)) = n
           /\ \A i \in 1..n : SubSeq(s, 1, n)[i] = s[i]
<1>1. Len(s) \in Nat /\ n \in Nat /\ \A i \in 1..Len(s) : s[i] \in S
  BY LenProperties, ElementOfSeq
<1>2. \A i \in 1..n : s[i] \in S
  BY <1>1
<1>3. /\ SubSeq(s, 1, n) \in Seq(S)
      /\ Len(SubSeq(s, 1, n)) = IF 1 <= n THEN n - 1 + 1 ELSE 0
      /\ \A i \in 1..(n - 1 + 1) : SubSeq(s, 1, n)[i] = s[1 + i - 1]
  BY <1>1, <1>2, SubSeqProperties
<1>4. n - 1 + 1 = n /\ (~(1 <= n) => n = 0) /\ \A i \in 1..n : 1 + i - 1 = i
  BY <1>1
<1>5. QED
  BY <1>3, <1>4

\* What is left of a sequence, element by element.
LEMMA FromSteps ==
    ASSUME NEW S, NEW s \in Seq(S)
    PROVE  /\ From(s, 0) = s /\ From(s, Len(s)) = <<>>
           /\ \A n \in 0..Len(s) : n < Len(s) => From(s, n) = <<s[n + 1]>> \o From(s, n + 1)
<1>1. Len(s) \in Nat
  BY LenProperties
<1>2. From(s, 0) = s
  BY <1>1, SubSeqFull DEF From
<1>3. From(s, Len(s)) = <<>>
  BY <1>1, SubSeqEmpty DEF From
<1>4. ASSUME NEW n \in 0..Len(s), n < Len(s)
      PROVE  From(s, n) = <<s[n + 1]>> \o From(s, n + 1)
  <2>1. n + 1 \in 1..Len(s) /\ Len(s) \in (n + 1)..Len(s)
    BY <1>1, <1>4
  <2>2. QED
    BY <2>1, SubSeqRecursiveFirst DEF From
<1>5. QED
  BY <1>2, <1>3, <1>4

LEMMA FirstSteps ==
    ASSUME NEW S, NEW s \in Seq(S), NEW n \in 0..Len(s), n < Len(s)
    PROVE  SubSeq(s, 1, n + 1) = Append(SubSeq(s, 1, n), s[n + 1])
<1>1. Len(s) \in Nat /\ n \in Nat /\ n + 1 \in 0..Len(s) /\ n + 1 \in 1..Len(s)
  BY LenProperties
<1>2. s[n + 1] \in S
  BY <1>1, ElementOfSeq
<1> DEFINE a == SubSeq(s, 1, n)  b == SubSeq(s, 1, n + 1)  d == Append(a, s[n + 1])
<1>3. a \in Seq(S) /\ Len(a) = n /\ \A i \in 1..n : a[i] = s[i]
  BY FirstFacts
<1>4. b \in Seq(S) /\ Len(b) = n + 1 /\ \A i \in 1..(n + 1) : b[i] = s[i]
  BY <1>1, FirstFacts
<1> HIDE DEF a, b
<1>5. d \in Seq(S) /\ Len(d) = n + 1 /\ d[n + 1] = s[n + 1] /\ \A i \in 1..n : d[i] = a[i]
  BY <1>2, <1>3, AppendProperties
<1> HIDE DEF d
<1>6. \A i \in 1..(n + 1) : i = n + 1 \/ i \in 1..n
  BY <1>1
<1>7. \A i \in 1..Len(b) : b[i] = d[i]
  BY <1>3, <1>4, <1>5, <1>6
<1>8. b = d
  BY <1>4, <1>5, <1>7, SeqEqual
<1>9. QED
  BY <1>8 DEF a, b, d

-----------------------------------------------------------------------------
\* Texts with characters that were cut.

LEMMA GarbledLonger ==
    ASSUME NEW S, NEW s \in Seq(S), NEW t \in Seq(S), NEW u \in Seq(S), NEW v \in Seq(S),
           Garbled(s, t)
    PROVE  Garbled(s \o u, t \o v)
<1>1. PICK k \in DOMAIN s : /\ s[k] = "replacement" /\ k - 1 <= Len(t)
                            /\ \A i \in 1..(k - 1) : s[i] = t[i]
  BY DEF Garbled
<1>2. /\ Len(s) \in Nat /\ Len(t) \in Nat /\ Len(u) \in Nat /\ Len(v) \in Nat
      /\ k \in 1..Len(s)
  BY <1>1, LenProperties
<1>3. /\ s \o u \in Seq(S) /\ Len(s \o u) = Len(s) + Len(u)
      /\ \A i \in 1..(Len(s) + Len(u)) :
            (s \o u)[i] = IF i <= Len(s) THEN s[i] ELSE u[i - Len(s)]
      /\ Len(t \o v) = Len(t) + Len(v)
      /\ \A i \in 1..(Len(t) + Len(v)) :
            (t \o v)[i] = IF i <= Len(t) THEN t[i] ELSE v[i - Len(t)]
  BY ConcatProperties
<1> DEFINE a == s \o u  b == t \o v
<1>4. a \in Seq(S) /\ Len(a) = Len(s) + Len(u) /\ Len(b) = Len(t) + Len(v)
  BY <1>3
<1>5. \A i \in 1..Len(s) : a[i] = s[i]
  BY <1>2, <1>3
<1>6. \A i \in 1..Len(t) : b[i] = t[i]
  BY <1>2, <1>3
<1> HIDE DEF a, b
<1>7. k \in DOMAIN a
  BY <1>2, <1>4, LenProperties
<1>8. k - 1 <= Len(b) /\ \A i \in 1..(k - 1) : i \in 1..Len(s) /\ i \in 1..Len(t)
  BY <1>1, <1>2, <1>4
<1>9. Garbled(a, b)
  BY <1>1, <1>2, <1>5, <1>6, <1>7, <1>8 DEF Garbled
<1>10. QED
  BY <1>9 DEF a, b

LEMMA GarbledBehind ==
    ASSUME NEW S, NEW t \in Seq(S), NEW u \in Seq(S), NEW v \in Seq(S), Garbled(u, v)
    PROVE  Garbled(t \o u, t \o v)
<1>1. PICK k \in DOMAIN u : /\ u[k] = "replacement" /\ k - 1 <= Len(v)
                            /\ \A i \in 1..(k - 1) : u[i] = v[i]
  BY DEF Garbled
<1> DEFINE N == Len(t)
<1>2. N \in Nat /\ Len(u) \in Nat /\ Len(v) \in Nat /\ k \in 1..Len(u)
  BY <1>1, LenProperties
<1> DEFINE a == t \o u  b == t \o v
<1>3. /\ a \in Seq(S) /\ Len(a) = N + Len(u)
      /\ \A i \in 1..(N + Len(u)) : a[i] = IF i <= N THEN t[i] ELSE u[i - N]
      /\ Len(b) = N + Len(v)
      /\ \A i \in 1..(N + Len(v)) : b[i] = IF i <= N THEN t[i] ELSE v[i - N]
  BY ConcatProperties
<1> HIDE DEF a, b, N
<1>4. N + k \in DOMAIN a /\ N + k \in 1..(N + Len(u)) /\ ~(N + k <= N) /\ (N + k) - N = k
  BY <1>2, <1>3, LenProperties
<1>5. a[N + k] = "replacement"
  BY <1>1, <1>3, <1>4
<1>6. (N + k) - 1 <= Len(b)
  BY <1>1, <1>2, <1>3
<1>7. ASSUME NEW i \in 1..((N + k) - 1)
      PROVE  a[i] = b[i]
  <2>1. i \in 1..(N + Len(u)) /\ i \in 1..(N + Len(v))
    BY <1>1, <1>2, <1>7
  <2>2. CASE i <= N
    BY <1>3, <2>1, <2>2
  <2>3. CASE ~(i <= N)
    <3>1. i - N \in 1..(k - 1)
      BY <1>2, <1>7, <2>3
    <3>2. a[i] = u[i - N] /\ b[i] = v[i - N]
      BY <1>3, <2>1, <2>3
    <3>3. QED
      BY <1>1, <3>1, <3>2
  <2>4. QED
    BY <2>2, <2>3
<1>8. Garbled(a, b)
  BY <1>4, <1>5, <1>6, <1>7 DEF Garbled
<1>9. QED
  BY <1>8 DEF a, b

LEMMA SameLonger ==
    ASSUME NEW S, NEW s \in Seq(S), NEW t \in Seq(S), NEW u \in Seq(S), NEW v \in Seq(S),
           NEW cut, Same(s, t, cut), Same(u, v, cut)
    PROVE  Same(s \o u, t \o v, cut)
<1>1. CASE s = t /\ u = v
  BY <1>1 DEF Same
<1>2. CASE cut /\ Garbled(s, t)
  <2>1. Garbled(s \o u, t \o v)
    BY <1>2, GarbledLonger
  <2>2. QED
    BY <1>2, <2>1 DEF Same
<1>3. CASE cut /\ s = t /\ Garbled(u, v)
  <2>1. Garbled(t \o u, t \o v)
    BY <1>3, GarbledBehind
  <2>2. QED
    BY <1>3, <2>1 DEF Same
<1>4. QED
  BY <1>1, <1>2, <1>3 DEF Same

\* Half a character at the end.
LEMMA GarbledAtEnd ==
    ASSUME NEW S, NEW s \in Seq(S), NEW t \in Seq(S), NEW cut, Same(s, t, cut)
    PROVE  Garbled(Append(s, "replacement"), t)
<1> DEFINE U == S \cup {"replacement"}
           a == Append(s, "replacement")
<1>1. s \in Seq(U) /\ t \in Seq(U) /\ "replacement" \in U
  OBVIOUS
<1>2. /\ a \in Seq(U) /\ Len(a) = Len(s) + 1 /\ a[Len(s) + 1] = "replacement"
      /\ \A i \in 1..Len(s) : a[i] = s[i]
  BY <1>1, AppendProperties
<1>3. Len(s) \in Nat /\ Len(t) \in Nat
  BY LenProperties
<1>4. CASE s = t
  <2>1. Len(s) + 1 \in DOMAIN a /\ (Len(s) + 1) - 1 = Len(s)
    BY <1>2, <1>3, LenProperties
  <2>2. QED
    BY <1>2, <1>3, <1>4, <2>1 DEF Garbled
<1>5. CASE Garbled(s, t)
  <2>1. PICK k \in DOMAIN s : /\ s[k] = "replacement" /\ k - 1 <= Len(t)
                              /\ \A i \in 1..(k - 1) : s[i] = t[i]
    BY <1>5 DEF Garbled
  <2>2. k \in 1..Len(s) /\ k \in DOMAIN a /\ \A i \in 1..(k - 1) : i \in 1..Len(s)
    BY <1>2, <1>3, <2>1, LenProperties
  <2>3. QED
    BY <1>2, <2>1, <2>2 DEF Garbled
<1>6. QED
  BY <1>4, <1>5 DEF Same

-----------------------------------------------------------------------------
\* The stream, byte by byte.

LEMMA ConsFacts ==
    ASSUME NEW S, NEW a \in S, NEW s \in Seq(S)
    PROVE  /\ <<a>> \in Seq(S) /\ <<a>> \o s \in Seq(S) /\ Len(<<a>> \o s) = Len(s) + 1
           /\ (<<a>> \o s)[1] = a /\ \A i \in 1..Len(s) : (<<a>> \o s)[i + 1] = s[i]
<1> DEFINE one == <<a>>  x == one \o s
<1>1. one \in Seq(S) /\ Len(one) = 1 /\ one[1] = a
  OBVIOUS
<1> HIDE DEF one
<1>2. Len(s) \in Nat
  BY LenProperties
<1>a. /\ x \in Seq(S) /\ Len(x) = Len(one) + Len(s)
      /\ \A i \in 1..(Len(one) + Len(s)) : x[i] = IF i <= Len(one) THEN one[i] ELSE s[i - Len(one)]
  BY <1>1, ConcatProperties
<1> HIDE DEF x
<1>3. /\ x \in Seq(S) /\ Len(x) = 1 + Len(s)
      /\ \A i \in 1..(1 + Len(s)) : x[i] = IF i <= 1 THEN one[i] ELSE s[i - 1]
  BY <1>1, <1>a
<1>4. x[1] = a
  BY <1>1, <1>2, <1>3
<1>5. \A i \in 1..Len(s) : i + 1 \in 1..(1 + Len(s)) /\ ~(i + 1 <= 1) /\ (i + 1) - 1 = i
  BY <1>2
<1>6. \A i \in 1..Len(s) : x[i + 1] = s[i]
  BY <1>3, <1>5
<1>7. one \in Seq(S) /\ x \in Seq(S) /\ Len(x) = Len(s) + 1
  BY <1>1, <1>2, <1>3
<1>8. QED
  BY <1>4, <1>6, <1>7 DEF x, one

LEMMA ConsSame ==
    ASSUME NEW S, NEW a \in S, NEW b \in S, NEW s \in Seq(S), NEW t \in Seq(S),
           <<a>> \o s = <<b>> \o t
    PROVE  a = b /\ s = t
<1> DEFINE x == <<a>> \o s  y == <<b>> \o t
<1>1. /\ Len(x) = Len(s) + 1 /\ x[1] = a /\ \A i \in 1..Len(s) : x[i + 1] = s[i]
      /\ Len(y) = Len(t) + 1 /\ y[1] = b /\ \A i \in 1..Len(t) : y[i + 1] = t[i]
  BY ConsFacts
<1>2. x = y
  OBVIOUS
<1> HIDE DEF x, y
<1>3. a = b
  BY <1>1, <1>2
<1>4. Len(s) = Len(t)
  <2>1. Len(s) \in Nat /\ Len(t) \in Nat
    BY LenProperties
  <2>2. QED
    BY <1>1, <1>2, <2>1
<1>5. \A i \in 1..Len(s) : s[i] = t[i]
  BY <1>1, <1>2, <1>4
<1>6. s = t
  BY <1>4, <1>5, SeqEqual
<1>7. QED
  BY <1>3, <1>6

\* A piece for every element.
Mapped(s, piece) == [i \in 1..Len(s) |-> piece[s[i]]]

Maps(m, s, piece, S) ==
    /\ m \in Seq(Seq(S)) /\ Len(m) = Len(s)
    /\ \A i \in 1..Len(s) : m[i] = piece[s[i]]
    /\ FlattenSeq(m) \in Seq(S)
    /\ s = <<>> => FlattenSeq(m) = <<>>

LEMMA MappedType ==
    ASSUME NEW S, NEW T, NEW piece, piece \in [T -> Seq(S)], NEW s, s \in Seq(T)
    PROVE  Maps(Mapped(s, piece), s, piece, S)
<1> DEFINE m == Mapped(s, piece)
<1>1. Len(s) \in Nat /\ \A i \in 1..Len(s) : s[i] \in T
  BY LenProperties, ElementOfSeq
<1>2. m = [i \in 1..Len(s) |-> piece[s[i]]]
  BY DEF Mapped
<1> HIDE DEF m
<1>3. m \in Seq(Seq(S)) /\ Len(m) = Len(s)
  BY <1>1, <1>2
<1>4. \A i \in 1..Len(s) : m[i] = piece[s[i]]
  BY <1>2
<1>5. FlattenSeq(m) \in Seq(S) /\ FlattenSeq(<<>>) = <<>>
  BY <1>3, FlattenType
<1>6. s = <<>> => m = <<>>
  BY <1>3, EmptySeq
<1>7. QED
  BY <1>3, <1>4, <1>5, <1>6 DEF m, Maps

\* The pieces of what is left, one by one, and of what has come.
Peels(s, j, piece) ==
    FlattenSeq(Mapped(From(s, j), piece)) =
        piece[s[j + 1]] \o FlattenSeq(Mapped(From(s, j + 1), piece))
Grows(s, j, piece) ==
    FlattenSeq(Mapped(SubSeq(s, 1, j + 1), piece)) =
        FlattenSeq(Mapped(SubSeq(s, 1, j), piece)) \o piece[s[j + 1]]

LEMMA MappedPeels ==
    ASSUME NEW S, NEW T, NEW piece, piece \in [T -> Seq(S)], NEW s, s \in Seq(T),
           NEW j \in 0..Len(s), j < Len(s)
    PROVE  Peels(s, j, piece)
<1> DEFINE a == From(s, j)  b == From(s, j + 1)  N == Len(s)
           tt == Mapped(a, piece)  ss == Mapped(b, piece)
<1>1. N \in Nat /\ j + 1 \in 0..N
  BY LenProperties
<1>2. a \in Seq(T) /\ Len(a) = N - j /\ \A i \in 1..(N - j) : a[i] = s[j + i]
  BY FromFacts
<1>3. b \in Seq(T) /\ Len(b) = N - (j + 1) /\ \A i \in 1..(N - (j + 1)) : b[i] = s[(j + 1) + i]
  BY <1>1, FromFacts
<1> HIDE DEF a, b
<1>a. Maps(tt, a, piece, S) /\ Maps(ss, b, piece, S)
  BY <1>2, <1>3, MappedType
<1> HIDE DEF tt, ss
<1>4. tt \in Seq(Seq(S)) /\ Len(tt) = N - j /\ \A i \in 1..(N - j) : tt[i] = piece[a[i]]
  BY <1>2, <1>a DEF Maps
<1>5. /\ ss \in Seq(Seq(S)) /\ Len(ss) = N - (j + 1)
      /\ \A i \in 1..(N - (j + 1)) : ss[i] = piece[b[i]]
  BY <1>3, <1>a DEF Maps
<1>6. \A i \in 1..(N - (j + 1)) : i + 1 \in 1..(N - j) /\ j + (i + 1) = (j + 1) + i
  BY <1>1
<1>b. ASSUME NEW i \in 1..(N - (j + 1))
      PROVE  tt[i + 1] = ss[i]
  <2>1. i + 1 \in 1..(N - j) /\ j + (i + 1) = (j + 1) + i
    BY <1>6
  <2>2. tt[i + 1] = piece[a[i + 1]] /\ a[i + 1] = s[j + (i + 1)]
    BY <1>2, <1>4, <2>1
  <2>3. ss[i] = piece[b[i]] /\ b[i] = s[(j + 1) + i]
    BY <1>3, <1>5
  <2>4. QED
    BY <2>1, <2>2, <2>3
<1>7. \A i \in 1..Len(ss) : tt[i + 1] = ss[i]
  BY <1>5, <1>b
<1>8. Len(tt) = Len(ss) + 1 /\ 1 \in 1..(N - j)
  BY <1>1, <1>4, <1>5
<1>9. tt[1] = piece[s[j + 1]]
  BY <1>2, <1>4, <1>8
<1>10. FlattenSeq(tt) = tt[1] \o FlattenSeq(ss)
  BY <1>4, <1>5, <1>7, <1>8, FlattenPeels
<1>11. QED
  BY <1>9, <1>10 DEF Peels, tt, ss, a, b

LEMMA MappedGrows ==
    ASSUME NEW S, NEW T, NEW piece, piece \in [T -> Seq(S)], NEW s, s \in Seq(T),
           NEW j \in 0..Len(s), j < Len(s)
    PROVE  Grows(s, j, piece)
<1> DEFINE a == SubSeq(s, 1, j)  b == SubSeq(s, 1, j + 1)
           ss == Mapped(a, piece)  tt == Mapped(b, piece)
<1>1. Len(s) \in Nat /\ j + 1 \in 0..Len(s) /\ j + 1 \in 1..(j + 1)
  BY LenProperties
<1>2. a \in Seq(T) /\ Len(a) = j /\ \A i \in 1..j : a[i] = s[i]
  BY FirstFacts
<1>3. b \in Seq(T) /\ Len(b) = j + 1 /\ \A i \in 1..(j + 1) : b[i] = s[i]
  BY <1>1, FirstFacts
<1> HIDE DEF a, b
<1>a. Maps(ss, a, piece, S) /\ Maps(tt, b, piece, S)
  BY <1>2, <1>3, MappedType
<1> HIDE DEF tt, ss
<1>4. ss \in Seq(Seq(S)) /\ Len(ss) = j /\ \A i \in 1..j : ss[i] = piece[a[i]]
  BY <1>2, <1>a DEF Maps
<1>5. tt \in Seq(Seq(S)) /\ Len(tt) = j + 1 /\ \A i \in 1..(j + 1) : tt[i] = piece[b[i]]
  BY <1>3, <1>a DEF Maps
<1>6. \A i \in 1..j : i \in 1..(j + 1)
  BY <1>1
<1>b. ASSUME NEW i \in 1..j
      PROVE  tt[i] = ss[i]
  <2>1. i \in 1..(j + 1)
    BY <1>6
  <2>2. tt[i] = piece[b[i]] /\ b[i] = s[i]
    BY <1>3, <1>5, <2>1
  <2>3. ss[i] = piece[a[i]] /\ a[i] = s[i]
    BY <1>2, <1>4
  <2>4. QED
    BY <2>2, <2>3
<1>7. \A i \in 1..Len(ss) : tt[i] = ss[i]
  BY <1>4, <1>b
<1>8. FlattenSeq(tt) = FlattenSeq(ss) \o tt[Len(tt)]
  BY <1>4, <1>5, <1>7, FlattenGrows
<1>9. tt[Len(tt)] = piece[s[j + 1]]
  BY <1>1, <1>3, <1>5
<1>10. QED
  BY <1>8, <1>9 DEF Grows, tt, ss, a, b

Coded(char) == IF char = "W" THEN <<"hi", "lo">> ELSE <<char>>

Coding == [char \in Alphabet |-> Coded(char)]
Lining == [event \in AnyEvent |-> Line(event)]

LEMMA SymbolFacts ==
    /\ Kinds \subseteq Symbol /\ Characters \subseteq Symbol /\ Alphabet \subseteq Characters
    /\ {"W", "hi", "lo", "eol"} \subseteq Symbol /\ "replacement" \in Characters
    /\ \A char \in Characters : char \notin {"hi", "lo", "eol"}
    /\ Kinds \cap {"hi", "lo", "eol"} = {}
BY AlphabetAssumption DEF Kinds, Symbol, Characters

StartSame(a, s, b, t) == <<a>> \o s = <<b>> \o t => a = b /\ s = t

LEMMA SymbolsSame ==
    ASSUME NEW a, a \in Symbol, NEW b, b \in Symbol,
           NEW s, s \in Seq(Symbol), NEW t, t \in Seq(Symbol)
    PROVE  StartSame(a, s, b, t)
BY ConsSame DEF StartSame

LEMMA EventFacts ==
    ASSUME NEW event \in AnyEvent
    PROVE  event.kind \in Kinds /\ event.text \in Seq(Alphabet)
BY DEF AnyEvent, Kinds

LEMMA AnyCoding ==
    Coding \in [Alphabet -> Seq(Symbol)]
<1>1. ASSUME NEW char \in Alphabet PROVE Coded(char) \in Seq(Symbol)
  <2>1. char \in Symbol /\ "hi" \in Symbol /\ "lo" \in Symbol
    BY SymbolFacts
  <2>2. <<"hi", "lo">> \in Seq(Symbol) /\ <<char>> \in Seq(Symbol)
    BY <2>1
  <2>3. QED
    BY <2>2 DEF Coded
<1>2. QED
  BY <1>1 DEF Coding

LEMMA BytesIs ==
    ASSUME NEW chars, chars \in Seq(Alphabet)
    PROVE  Bytes(chars) = FlattenSeq(Mapped(chars, Coding)) /\ Bytes(chars) \in Seq(Symbol)
<1>1. \A i \in 1..Len(chars) : chars[i] \in Alphabet
  BY ElementOfSeq
<1>2. \A i \in 1..Len(chars) : Coding[chars[i]] = Coded(chars[i])
  BY <1>1 DEF Coding
<1>3. Mapped(chars, Coding) = [i \in 1..Len(chars) |-> Coded(chars[i])]
  BY <1>2 DEF Mapped
<1>4. Bytes(chars) = FlattenSeq(Mapped(chars, Coding))
  BY <1>3 DEF Bytes, Coded
<1>5. Maps(Mapped(chars, Coding), chars, Coding, Symbol)
  BY AnyCoding, MappedType
<1>6. QED
  BY <1>4, <1>5 DEF Maps

\* A text's bytes, character by character.
LEMMA BytesSteps ==
    ASSUME NEW chars, chars \in Seq(Alphabet)
    PROVE  /\ Bytes(From(chars, Len(chars))) = <<>>
           /\ \A j \in 0..Len(chars) : j < Len(chars) =>
                Bytes(From(chars, j)) = Coded(chars[j + 1]) \o Bytes(From(chars, j + 1))
<1>1. Len(chars) \in Nat
  BY LenProperties
<1>2. \A j \in 0..Len(chars) : From(chars, j) \in Seq(Alphabet)
  BY FromFacts
<1>3. \A j \in 0..Len(chars) : Bytes(From(chars, j)) = FlattenSeq(Mapped(From(chars, j), Coding))
  BY <1>2, BytesIs
<1>4. Bytes(From(chars, Len(chars))) = <<>>
  <2> DEFINE none == From(chars, Len(chars))
  <2>1. none = <<>> /\ none \in Seq(Alphabet)
    BY <1>1, <1>2, FromSteps
  <2> HIDE DEF none
  <2>2. Maps(Mapped(none, Coding), none, Coding, Symbol)
    BY <2>1, AnyCoding, MappedType
  <2>3. FlattenSeq(Mapped(none, Coding)) = <<>>
    BY <2>1, <2>2 DEF Maps
  <2>4. Bytes(none) = FlattenSeq(Mapped(none, Coding))
    BY <2>1, BytesIs
  <2>5. QED
    BY <2>3, <2>4 DEF none
<1>5. ASSUME NEW j \in 0..Len(chars), j < Len(chars)
      PROVE  Bytes(From(chars, j)) = Coded(chars[j + 1]) \o Bytes(From(chars, j + 1))
  <2>1. j + 1 \in 0..Len(chars) /\ j + 1 \in 1..Len(chars)
    BY <1>1, <1>5
  <2>a. Peels(chars, j, Coding)
    BY <1>5, AnyCoding, MappedPeels
  <2>2. FlattenSeq(Mapped(From(chars, j), Coding)) =
            Coding[chars[j + 1]] \o FlattenSeq(Mapped(From(chars, j + 1), Coding))
    BY <2>a DEF Peels
  <2>3. chars[j + 1] \in Alphabet
    BY <2>1, ElementOfSeq
  <2>4. Coding[chars[j + 1]] = Coded(chars[j + 1])
    BY <2>3 DEF Coding
  <2>5. QED
    BY <1>3, <2>1, <2>2, <2>4
<1>6. QED
  BY <1>4, <1>5

LEMMA AnyLining ==
    Lining \in [AnyEvent -> Seq(Symbol)]
<1>1. ASSUME NEW event \in AnyEvent PROVE Line(event) \in Seq(Symbol)
  <2> DEFINE head == <<event.kind>>  last == <<"eol">>  b == Bytes(event.text)
  <2>1. event.kind \in Symbol /\ "eol" \in Symbol /\ b \in Seq(Symbol)
    BY EventFacts, SymbolFacts, BytesIs
  <2>2. head \in Seq(Symbol) /\ last \in Seq(Symbol)
    BY <2>1
  <2> HIDE DEF head, last, b
  <2>3. head \o b \in Seq(Symbol)
    BY <2>1, <2>2, ConcatProperties
  <2>4. (head \o b) \o last \in Seq(Symbol)
    BY <2>2, <2>3, ConcatProperties
  <2>5. QED
    BY <2>4 DEF Line, head, last, b
<1>2. QED
  BY <1>1 DEF Lining

LEMMA EncodeIs ==
    ASSUME NEW events, events \in Seq(AnyEvent)
    PROVE  Encode(events) = FlattenSeq(Mapped(events, Lining)) /\ Encode(events) \in Seq(Symbol)
<1>1. \A i \in 1..Len(events) : events[i] \in AnyEvent
  BY ElementOfSeq
<1>2. \A i \in 1..Len(events) : Lining[events[i]] = Line(events[i])
  BY <1>1 DEF Lining
<1>3. Mapped(events, Lining) = [i \in 1..Len(events) |-> Line(events[i])]
  BY <1>2 DEF Mapped
<1>4. Encode(events) = FlattenSeq(Mapped(events, Lining))
  BY <1>3 DEF Encode
<1>5. Maps(Mapped(events, Lining), events, Lining, Symbol)
  BY AnyLining, MappedType
<1>6. QED
  BY <1>4, <1>5 DEF Maps

\* The stream, line by line.
LEMMA EncodeSteps ==
    ASSUME NEW events, events \in Seq(AnyEvent)
    PROVE  /\ Encode(From(events, Len(events))) = <<>>
           /\ \A c \in 0..Len(events) : Encode(From(events, c)) \in Seq(Symbol)
           /\ \A c \in 0..Len(events) : c < Len(events) =>
                Encode(From(events, c)) = <<events[c + 1].kind>> \o LeftInside(events, c, 0)
<1>1. Len(events) \in Nat
  BY LenProperties
<1>2. \A c \in 0..Len(events) : From(events, c) \in Seq(AnyEvent)
  BY FromFacts
<1>3. \A c \in 0..Len(events) : /\ Encode(From(events, c)) = FlattenSeq(Mapped(From(events, c), Lining))
                                /\ Encode(From(events, c)) \in Seq(Symbol)
  BY <1>2, EncodeIs
<1>4. Encode(From(events, Len(events))) = <<>>
  <2> DEFINE none == From(events, Len(events))
  <2>1. none = <<>> /\ none \in Seq(AnyEvent)
    BY <1>1, <1>2, FromSteps
  <2> HIDE DEF none
  <2>2. Maps(Mapped(none, Lining), none, Lining, Symbol)
    BY <2>1, AnyLining, MappedType
  <2>3. FlattenSeq(Mapped(none, Lining)) = <<>>
    BY <2>1, <2>2 DEF Maps
  <2>4. Encode(none) = FlattenSeq(Mapped(none, Lining))
    BY <2>1, EncodeIs
  <2>5. QED
    BY <2>3, <2>4 DEF none
<1>5. ASSUME NEW c \in 0..Len(events), c < Len(events)
      PROVE  Encode(From(events, c)) = <<events[c + 1].kind>> \o LeftInside(events, c, 0)
  <2> DEFINE e == events[c + 1]  head == <<e.kind>>  last == <<"eol">>
             b == Bytes(e.text)  more == Encode(From(events, c + 1))
  <2>1. c + 1 \in 0..Len(events) /\ c + 1 \in 1..Len(events)
    BY <1>1, <1>5
  <2>a. Peels(events, c, Lining)
    BY <1>5, AnyLining, MappedPeels
  <2>2. FlattenSeq(Mapped(From(events, c), Lining)) =
            Lining[events[c + 1]] \o FlattenSeq(Mapped(From(events, c + 1), Lining))
    BY <2>a DEF Peels
  <2>3. e \in AnyEvent
    BY <2>1, ElementOfSeq
  <2>4. Lining[e] = Line(e)
    BY <2>3 DEF Lining
  <2>5. Encode(From(events, c)) = ((head \o b) \o last) \o more
    BY <1>3, <2>1, <2>2, <2>4 DEF Line
  <2>6. From(e.text, 0) = e.text
    BY <2>3, EventFacts, FromSteps
  <2>7. LeftInside(events, c, 0) = b \o (last \o more)
    BY <2>6 DEF LeftInside
  <2>8. e.kind \in Symbol /\ "eol" \in Symbol /\ b \in Seq(Symbol)
    BY <2>3, EventFacts, SymbolFacts, BytesIs
  <2>9. head \in Seq(Symbol) /\ last \in Seq(Symbol) /\ more \in Seq(Symbol)
    BY <1>3, <2>1, <2>8
  <2> HIDE DEF head, last, b, more
  <2>10. Associative(Symbol)
    BY Associativity
  <2>11. head \o b \in Seq(Symbol)
    BY <2>8, <2>9, ConcatProperties
  <2>12. ((head \o b) \o last) \o more = (head \o b) \o (last \o more)
    BY <2>9, <2>10, <2>11 DEF Associative
  <2>13. last \o more \in Seq(Symbol)
    BY <2>9, ConcatProperties
  <2>14. (head \o b) \o (last \o more) = head \o (b \o (last \o more))
    BY <2>8, <2>9, <2>10, <2>13 DEF Associative
  <2>15. QED
    BY <2>5, <2>7, <2>12, <2>14 DEF head
<1>6. QED
  BY <1>3, <1>4, <1>5

\* ... and inside a line.
LEMMA LeftSteps ==
    ASSUME NEW events, events \in Seq(AnyEvent), NEW c \in 0..Len(events), c < Len(events)
    PROVE  /\ \A j \in 0..Len(events[c + 1].text) : LeftInside(events, c, j) \in Seq(Symbol)
           /\ LeftInside(events, c, Len(events[c + 1].text)) = <<"eol">> \o Encode(From(events, c + 1))
           /\ \A j \in 0..Len(events[c + 1].text) : j < Len(events[c + 1].text) =>
                LeftInside(events, c, j) = IF events[c + 1].text[j + 1] = "W"
                                     THEN <<"hi">> \o (<<"lo">> \o LeftInside(events, c, j + 1))
                                     ELSE <<events[c + 1].text[j + 1]>> \o LeftInside(events, c, j + 1)
<1> DEFINE t == events[c + 1].text
           more == <<"eol">> \o Encode(From(events, c + 1))
           N == Len(t)
<1>1. c + 1 \in 0..Len(events) /\ c + 1 \in 1..Len(events)
  BY LenProperties
<1>2. events[c + 1] \in AnyEvent
  BY <1>1, ElementOfSeq
<1>3. t \in Seq(Alphabet) /\ N \in Nat
  BY <1>2, EventFacts, LenProperties
<1>4. more \in Seq(Symbol)
  BY <1>1, EncodeSteps, SymbolFacts, ConsFacts
<1>5. \A j : LeftInside(events, c, j) = Bytes(From(t, j)) \o more
  BY DEF LeftInside
<1> HIDE DEF t, more
<1>6. \A j \in 0..N : Bytes(From(t, j)) \in Seq(Symbol)
  <2>1. \A j \in 0..N : From(t, j) \in Seq(Alphabet)
    BY <1>3, FromFacts
  <2>2. QED
    BY <2>1, BytesIs
<1>7. \A j \in 0..N : LeftInside(events, c, j) \in Seq(Symbol)
  BY <1>4, <1>5, <1>6, ConcatProperties
<1>8. LeftInside(events, c, N) = more
  <2>1. Bytes(From(t, N)) = <<>>
    BY <1>3, BytesSteps
  <2>2. <<>> \o more = more
    BY <1>4, ConcatEmptySeq
  <2>3. QED
    BY <1>5, <2>1, <2>2
<1>9. ASSUME NEW j \in 0..N, j < N
      PROVE  LeftInside(events, c, j) = IF t[j + 1] = "W" THEN <<"hi">> \o (<<"lo">> \o LeftInside(events, c, j + 1))
                                ELSE <<t[j + 1]>> \o LeftInside(events, c, j + 1)
  <2> DEFINE b == Bytes(From(t, j + 1))  one == <<t[j + 1]>>  two == <<"hi", "lo">>
             hi == <<"hi">>  lo == <<"lo">>
  <2>1. j + 1 \in 0..N /\ j + 1 \in 1..N
    BY <1>3, <1>9
  <2>2. Bytes(From(t, j)) = Coded(t[j + 1]) \o b
    BY <1>3, <1>9, BytesSteps
  <2>3. t[j + 1] \in Symbol /\ "hi" \in Symbol /\ "lo" \in Symbol
    BY <1>3, <2>1, ElementOfSeq, SymbolFacts
  <2>4. one \in Seq(Symbol) /\ hi \in Seq(Symbol) /\ lo \in Seq(Symbol) /\ two = hi \o lo
    BY <2>3
  <2>5. b \in Seq(Symbol) /\ LeftInside(events, c, j + 1) = b \o more
    BY <1>5, <1>6, <2>1
  <2>6. Coded(t[j + 1]) = IF t[j + 1] = "W" THEN two ELSE one
    BY DEF Coded
  <2>7. LeftInside(events, c, j) = (Coded(t[j + 1]) \o b) \o more
    BY <1>5, <2>2
  <2> HIDE DEF b, one, two, hi, lo
  <2>8. Associative(Symbol)
    BY Associativity
  <2>9. (one \o b) \o more = one \o (b \o more)
    BY <1>4, <2>4, <2>5, <2>8 DEF Associative
  <2>10. lo \o b \in Seq(Symbol)
    BY <2>4, <2>5, ConcatProperties
  <2>11. (hi \o lo) \o b = hi \o (lo \o b)
    BY <2>4, <2>5, <2>8 DEF Associative
  <2>12. (hi \o (lo \o b)) \o more = hi \o ((lo \o b) \o more)
    BY <1>4, <2>4, <2>8, <2>10 DEF Associative
  <2>13. (lo \o b) \o more = lo \o (b \o more)
    BY <1>4, <2>4, <2>5, <2>8 DEF Associative
  <2>14. (two \o b) \o more = hi \o (lo \o (b \o more))
    BY <2>4, <2>11, <2>12, <2>13
  <2>15. LeftInside(events, c, j) = IF t[j + 1] = "W" THEN hi \o (lo \o LeftInside(events, c, j + 1))
                            ELSE one \o LeftInside(events, c, j + 1)
    BY <2>5, <2>6, <2>7, <2>9, <2>14
  <2>16. QED
    BY <2>15 DEF one, hi, lo
<1>10. QED
  BY <1>7, <1>8, <1>9 DEF t, more
-----------------------------------------------------------------------------
\* A reader, symbol by symbol.

ReaderType == [lines : Seq(Seq(Symbol)), pending : Seq(Symbol)]

\* What the end of a line does ...
LEMMA FeedEol ==
    ASSUME NEW reader \in ReaderType
    PROVE  /\ Feed(reader, "eol") \in ReaderType
           /\ Feed(reader, "eol").pending = <<>>
           /\ Feed(reader, "eol").lines = Append(reader.lines, reader.pending)
<1> DEFINE more == Append(reader.lines, reader.pending)  none == <<>>
<1>1. more \in Seq(Seq(Symbol)) /\ none \in Seq(Symbol)
  BY DEF ReaderType
<1>2. Feed(reader, "eol") = [lines |-> more, pending |-> none]
  BY DEF Feed, LeftPending
<1> HIDE DEF more, none
<1>3. Feed(reader, "eol") \in ReaderType
  BY <1>1, <1>2 DEF ReaderType
<1>4. Feed(reader, "eol").pending = none /\ Feed(reader, "eol").lines = more
  BY <1>2
<1>5. QED
  BY <1>3, <1>4 DEF more, none

\* ... and any other symbol.
LEMMA FeedMore ==
    ASSUME NEW reader \in ReaderType, NEW symbol \in Symbol, symbol # "eol"
    PROVE  /\ Feed(reader, symbol) \in ReaderType
           /\ Feed(reader, symbol).pending = Append(reader.pending, symbol)
           /\ Feed(reader, symbol).lines = reader.lines
<1>1. Append(reader.pending, symbol) \in Seq(Symbol)
  BY DEF ReaderType
<1>2. Feed(reader, symbol) = [reader EXCEPT !.pending = Append(reader.pending, symbol)]
  BY DEF Feed
<1>3. QED
  BY <1>1, <1>2 DEF ReaderType

LEMMA FeedType ==
    ASSUME NEW reader \in ReaderType, NEW symbol \in Symbol
    PROVE  Feed(reader, symbol) \in ReaderType
BY FeedEol, FeedMore

\* f is the reader after every beginning of the symbols.
Feeds(f, reader, symbols) ==
    /\ f \in [0..Len(symbols) -> ReaderType]
    /\ f[0] = reader
    /\ \A n \in 1..Len(symbols) : f[n] = Feed(f[n - 1], symbols[n])

LEMMA FeedsExists ==
    ASSUME NEW reader \in ReaderType, NEW symbols, symbols \in Seq(Symbol)
    PROVE  \E f : Feeds(f, reader, symbols)
<1> DEFINE N == Len(symbols)
           step == [x \in (1..N) \X ReaderType |-> Feed(x[2], symbols[x[1]])]
<1>1. N \in Nat /\ \A n \in 1..N : symbols[n] \in Symbol
  BY LenProperties, ElementOfSeq
<1>2. step \in [(1..N) \X ReaderType -> ReaderType]
  BY <1>1, FeedType
<1>3. \A n \in 1..N, v \in ReaderType : step[<<n, v>>] = Feed(v, symbols[n])
  OBVIOUS
<1> HIDE DEF N, step
<1>4. PICK f : Recurses(f, reader, step, N, ReaderType)
  BY <1>1, <1>2, Recursion
<1>5. /\ f \in [0..N -> ReaderType] /\ f[0] = reader
      /\ \A n \in 1..N : f[n] = step[<<n, f[n - 1]>>]
  BY <1>4 DEF Recurses
<1>6. \A n \in 1..N : n - 1 \in 0..N
  BY <1>1
<1>7. \A n \in 1..N : f[n] = Feed(f[n - 1], symbols[n])
  BY <1>3, <1>5, <1>6
<1>8. QED
  BY <1>5, <1>7 DEF Feeds, N

LEMMA FedIs ==
    ASSUME NEW reader \in ReaderType, NEW symbols, symbols \in Seq(Symbol), NEW f, Feeds(f, reader, symbols)
    PROVE  Fed(reader, symbols) = f[Len(symbols)]
<1> DEFINE N == Len(symbols)
           Eq(g) == g = [n \in 0..N |-> IF n = 0 THEN reader ELSE Feed(g[n - 1], symbols[n])]
           after == CHOOSE g : Eq(g)
<1>1. N \in Nat
  BY LenProperties
<1>2. /\ f \in [0..N -> ReaderType] /\ f[0] = reader
      /\ \A n \in 1..N : f[n] = Feed(f[n - 1], symbols[n])
  BY DEF Feeds
<1>3. Eq(f)
  <2> DEFINE g == [n \in 0..N |-> IF n = 0 THEN reader ELSE Feed(f[n - 1], symbols[n])]
  <2>1. \A n \in 0..N : n = 0 \/ n \in 1..N
    BY <1>1
  <2>2. \A n \in 0..N : f[n] = g[n]
    BY <1>2, <2>1
  <2>3. f = [n \in 0..N |-> f[n]]
    BY <1>2
  <2>4. QED
    BY <2>2, <2>3
<1>4. Eq(after)
  BY <1>3
<1>5. Fed(reader, symbols) = after[N]
  BY DEF Fed
<1> DEFINE T == {n \in 0..N : after[n] = f[n]}
<1>6. \A n \in 0..N : after[n] = IF n = 0 THEN reader ELSE Feed(after[n - 1], symbols[n])
  <2> HIDE DEF after
  <2>1. QED
    BY <1>4
<1> HIDE DEF after
<1>7. 0 \in T
  BY <1>1, <1>2, <1>6
<1>8. \A n \in 0..N : n \in T /\ n < N => n + 1 \in T
  <2>1. SUFFICES ASSUME NEW n \in 0..N, n \in T, n < N PROVE after[n + 1] = f[n + 1] /\ n + 1 \in 0..N
    OBVIOUS
  <2>2. n + 1 \in 0..N /\ n + 1 \in 1..N /\ n + 1 # 0 /\ (n + 1) - 1 = n
    BY <1>1, <2>1
  <2>3. after[n + 1] = Feed(after[n], symbols[n + 1])
    BY <1>6, <2>2
  <2>4. f[n + 1] = Feed(f[n], symbols[n + 1])
    BY <1>2, <2>2
  <2>5. QED
    BY <2>1, <2>2, <2>3, <2>4
<1> HIDE DEF T
<1>9. N \in T
  <2>1. \A n \in 0..N : n \in T
    BY <1>1, <1>7, <1>8, UpTo
  <2>2. QED
    BY <1>1, <2>1
<1>10. QED
  BY <1>5, <1>9 DEF T

\* The reader after one more symbol.
LEMMA FedSteps ==
    ASSUME NEW reader \in ReaderType
    PROVE  /\ Fed(reader, <<>>) = reader
           /\ \A symbols \in Seq(Symbol) : Fed(reader, symbols) \in ReaderType
           /\ \A symbols \in Seq(Symbol), symbol \in Symbol :
                Fed(reader, symbols \o <<symbol>>) = Feed(Fed(reader, symbols), symbol)
<1>1. Fed(reader, <<>>) = reader
  <2> DEFINE none == <<>>
  <2>1. none \in Seq(Symbol) /\ Len(none) = 0
    OBVIOUS
  <2> HIDE DEF none
  <2>2. PICK f : Feeds(f, reader, none)
    BY <2>1, FeedsExists
  <2>3. Fed(reader, none) = f[0]
    BY <2>1, <2>2, FedIs
  <2>4. QED
    BY <2>2, <2>3 DEF Feeds, none
<1>2. ASSUME NEW symbols \in Seq(Symbol)
      PROVE  Fed(reader, symbols) \in ReaderType
  <2>1. PICK f : Feeds(f, reader, symbols)
    BY FeedsExists
  <2>2. Fed(reader, symbols) = f[Len(symbols)]
    BY <2>1, FedIs
  <2>3. Len(symbols) \in 0..Len(symbols)
    BY LenProperties
  <2>4. QED
    BY <2>1, <2>2, <2>3 DEF Feeds
<1>3. ASSUME NEW symbols \in Seq(Symbol), NEW symbol \in Symbol
      PROVE  Fed(reader, symbols \o <<symbol>>) = Feed(Fed(reader, symbols), symbol)
  <2> DEFINE N == Len(symbols)  more == Append(symbols, symbol)
  <2>1. PICK f : Feeds(f, reader, more)
    <3>1. more \in Seq(Symbol)
      OBVIOUS
    <3> HIDE DEF more
    <3>2. QED
      BY <3>1, FeedsExists
  <2>2. /\ N \in Nat /\ more \in Seq(Symbol) /\ Len(more) = N + 1
        /\ more[N + 1] = symbol /\ \A i \in 1..N : more[i] = symbols[i]
    BY LenProperties, AppendProperties
  <2>3. more = symbols \o <<symbol>>
    BY AppendIsConcat
  <2> HIDE DEF more
  <2>4. /\ f \in [0..(N + 1) -> ReaderType] /\ f[0] = reader
        /\ \A n \in 1..(N + 1) : f[n] = Feed(f[n - 1], more[n])
    BY <2>1, <2>2 DEF Feeds
  <2> DEFINE g == [n \in 0..N |-> f[n]]
  <2>5. \A n \in 0..N : n \in 0..(N + 1)
    BY <2>2
  <2>6. \A n \in 1..N : n \in 0..N /\ n - 1 \in 0..N /\ n \in 1..(N + 1)
    BY <2>2
  <2>7. g \in [0..N -> ReaderType] /\ g[0] = reader
    BY <2>2, <2>4, <2>5
  <2>8. \A n \in 1..N : g[n] = Feed(g[n - 1], symbols[n])
    BY <2>2, <2>4, <2>6
  <2>9. Feeds(g, reader, symbols)
    BY <2>7, <2>8 DEF Feeds
  <2>10. g[N] = f[N]
    BY <2>2
  <2> HIDE DEF g
  <2>11. Fed(reader, symbols) = f[N]
    BY <2>9, <2>10, FedIs
  <2>12. Fed(reader, more) = f[N + 1]
    BY <2>1, <2>2, FedIs
  <2>13. N + 1 \in 1..(N + 1) /\ (N + 1) - 1 = N
    BY <2>2
  <2>14. f[N + 1] = Feed(f[N], symbol)
    BY <2>2, <2>4, <2>13
  <2>15. QED
    BY <2>3, <2>11, <2>12, <2>14
<1>4. QED
  BY <1>1, <1>2, <1>3

-----------------------------------------------------------------------------
\* A chunk, byte by byte.

Piece(chunk, i) ==
    CASE chunk[i] = "hi" -> IF i < Len(chunk) THEN <<>> ELSE <<"replacement">>
      [] chunk[i] = "lo" -> IF i > 1 THEN <<"W">> ELSE <<"replacement">>
      [] OTHER -> <<chunk[i]>>

\* What the first k bytes of the chunk decode to.
Pieces(chunk, k) == [i \in 1..k |-> Piece(chunk, i)]
Decoded(chunk, k) == FlattenSeq(Pieces(chunk, k))

LEMMA PieceType ==
    ASSUME NEW chunk, chunk \in Seq(Symbol), NEW i \in 1..Len(chunk)
    PROVE  Piece(chunk, i) \in Seq(Symbol)
<1>1. chunk[i] \in Symbol /\ "replacement" \in Symbol /\ "W" \in Symbol
  BY ElementOfSeq, SymbolFacts
<1>2. <<chunk[i]>> \in Seq(Symbol) /\ <<"replacement">> \in Seq(Symbol) /\ <<"W">> \in Seq(Symbol)
  BY <1>1
<1>3. <<>> \in Seq(Symbol)
  OBVIOUS
<1>4. QED
  BY <1>2, <1>3 DEF Piece

LEMMA DecodedSteps ==
    ASSUME NEW chunk, chunk \in Seq(Symbol)
    PROVE  /\ Decoded(chunk, 0) = <<>>
           /\ Decode(chunk) = Decoded(chunk, Len(chunk))
           /\ \A k \in 0..Len(chunk) : Decoded(chunk, k) \in Seq(Symbol)
           /\ \A k \in 0..Len(chunk) : k < Len(chunk) =>
                Decoded(chunk, k + 1) = Decoded(chunk, k) \o Piece(chunk, k + 1)
<1>1. Len(chunk) \in Nat
  BY LenProperties
<1>2. ASSUME NEW k \in 0..Len(chunk)
      PROVE  Pieces(chunk, k) \in Seq(Seq(Symbol)) /\ Len(Pieces(chunk, k)) = k
  <2>1. k \in Nat /\ \A i \in 1..k : i \in 1..Len(chunk)
    BY <1>1
  <2>2. \A i \in 1..k : Piece(chunk, i) \in Seq(Symbol)
    BY <2>1, PieceType
  <2> DEFINE s == [i \in 1..k |-> Piece(chunk, i)]
  <2>3. s \in Seq(Seq(Symbol)) /\ Len(s) = k
    BY <2>1, <2>2
  <2>4. QED
    BY <2>3 DEF Pieces
<1>3. \A k \in 0..Len(chunk) : Decoded(chunk, k) \in Seq(Symbol)
  BY <1>2, FlattenType DEF Decoded
<1>4. Decoded(chunk, 0) = <<>>
  <2> DEFINE none == Pieces(chunk, 0)
  <2>1. none \in Seq(Seq(Symbol)) /\ Len(none) = 0
    BY <1>1, <1>2
  <2> HIDE DEF none
  <2>2. none = <<>> /\ FlattenSeq(<<>>) = <<>>
    BY <2>1, EmptySeq, FlattenType
  <2>3. QED
    BY <2>2 DEF none, Decoded
<1>5. ASSUME NEW k \in 0..Len(chunk), k < Len(chunk)
      PROVE  Decoded(chunk, k + 1) = Decoded(chunk, k) \o Piece(chunk, k + 1)
  <2> DEFINE ss == Pieces(chunk, k)  tt == Pieces(chunk, k + 1)
  <2>1. k + 1 \in 0..Len(chunk) /\ k + 1 \in 1..(k + 1) /\ \A i \in 1..k : i \in 1..(k + 1)
    BY <1>1, <1>5
  <2>2. \A i \in 1..k : tt[i] = ss[i]
    BY <2>1 DEF Pieces
  <2>3. tt[k + 1] = Piece(chunk, k + 1)
    BY <2>1 DEF Pieces
  <2>4. /\ ss \in Seq(Seq(Symbol)) /\ Len(ss) = k
        /\ tt \in Seq(Seq(Symbol)) /\ Len(tt) = k + 1
    BY <1>2, <2>1
  <2> HIDE DEF ss, tt
  <2>5. FlattenSeq(tt) = FlattenSeq(ss) \o tt[Len(tt)]
    <3>1. Len(tt) = Len(ss) + 1 /\ \A i \in 1..Len(ss) : tt[i] = ss[i]
      BY <2>2, <2>4
    <3>2. QED
      BY <2>4, <3>1, FlattenGrows
  <2>6. QED
    BY <2>3, <2>4, <2>5 DEF Decoded, ss, tt
<1>6. Decode(chunk) = Decoded(chunk, Len(chunk))
  BY DEF Decode, Decoded, Pieces, Piece
<1>7. QED
  BY <1>3, <1>4, <1>5, <1>6

\* The reader after one more byte of a chunk, its first or last one perhaps.
Heard(reader, byte, first, last) ==
    IF byte = "hi" THEN IF last THEN Feed(reader, "replacement") ELSE reader
    ELSE IF byte = "lo" THEN IF first THEN Feed(reader, "replacement") ELSE Feed(reader, "W")
    ELSE Feed(reader, byte)

Hears(reader, chunk, k) ==
    Fed(reader, Decoded(chunk, k + 1)) =
        Heard(Fed(reader, Decoded(chunk, k)), chunk[k + 1], k = 0, k + 1 = Len(chunk))

LEMMA FedByte ==
    ASSUME NEW reader \in ReaderType, NEW chunk, chunk \in Seq(Symbol),
           NEW k \in 0..Len(chunk), k < Len(chunk)
    PROVE  Hears(reader, chunk, k)
<1> DEFINE b == chunk[k + 1]  d == Decoded(chunk, k)  p == Piece(chunk, k + 1)
<1>1. k + 1 \in 1..Len(chunk) /\ (k + 1 < Len(chunk) <=> k + 1 # Len(chunk)) /\ (k + 1 > 1 <=> k # 0)
  BY LenProperties
<1>2. b \in Symbol /\ "replacement" \in Symbol /\ "W" \in Symbol
  BY <1>1, ElementOfSeq, SymbolFacts
<1>3. d \in Seq(Symbol) /\ Decoded(chunk, k + 1) = d \o p
  BY DecodedSteps
<1>4. p = IF b = "hi" THEN IF k + 1 = Len(chunk) THEN <<"replacement">> ELSE <<>>
          ELSE IF b = "lo" THEN IF k = 0 THEN <<"replacement">> ELSE <<"W">>
          ELSE <<b>>
  BY <1>1 DEF Piece
<1> HIDE DEF d, p, b
<1>5. \A symbol \in Symbol : Fed(reader, d \o <<symbol>>) = Feed(Fed(reader, d), symbol)
  BY <1>3, FedSteps
<1>6. d \o <<>> = d
  BY <1>3, ConcatEmptySeq
<1>7. Fed(reader, d \o p) = Heard(Fed(reader, d), b, k = 0, k + 1 = Len(chunk))
  BY <1>2, <1>4, <1>5, <1>6 DEF Heard
<1>8. QED
  BY <1>3, <1>7 DEF Hears, d, b

\* The complete lines after one more byte.
LEMMA LinesSteps ==
    ASSUME NEW got \in Seq(Symbol), NEW byte \in Symbol
    PROVE  /\ Lines(<<>>) = 0
           /\ Lines(got \o <<byte>>) = IF byte = "eol" THEN Lines(got) + 1 ELSE Lines(got)
<1> DEFINE N == Len(got)  x == Append(got, byte)
           old == {i \in DOMAIN got : got[i] = "eol"}  new == {i \in DOMAIN x : x[i] = "eol"}
<1>0. Lines(<<>>) = 0
  <2>1. {i \in DOMAIN <<>> : <<>>[i] = "eol"} = {}
    OBVIOUS
  <2>2. QED
    BY <2>1, FS_EmptySet DEF Lines
<1>1. got \o <<byte>> = x
  BY AppendIsConcat
<1>2. N \in Nat /\ DOMAIN got = 1..N
  BY LenProperties
<1>3. x \in Seq(Symbol) /\ Len(x) = N + 1 /\ x[N + 1] = byte /\ \A i \in 1..N : x[i] = got[i]
  BY AppendProperties
<1> HIDE DEF x
<1>4. DOMAIN x = 1..(N + 1)
  BY <1>3, LenProperties
<1>5. IsFiniteSet(old) /\ N + 1 \notin old
  <2>1. IsFiniteSet(1..N)
    BY <1>2, FS_Interval
  <2>2. old \in SUBSET (1..N)
    BY <1>2
  <2>3. N + 1 \notin 1..N
    BY <1>2
  <2> HIDE DEF old
  <2>4. QED
    BY <2>1, <2>2, <2>3, FS_Subset
<1>6. \A i : i \in 1..(N + 1) <=> i \in 1..N \/ i = N + 1
  BY <1>2
<1>7. CASE byte = "eol"
  <2>1. new = old \cup {N + 1}
    BY <1>2, <1>3, <1>4, <1>6, <1>7
  <2> HIDE DEF old, new
  <2>2. Cardinality(new) = Cardinality(old) + 1
    BY <1>5, <2>1, FS_AddElement
  <2>3. QED
    BY <1>0, <1>1, <1>7, <2>2 DEF Lines, old, new
<1>8. CASE byte # "eol"
  <2>1. new = old
    BY <1>2, <1>3, <1>4, <1>6, <1>8
  <2>2. QED
    BY <1>0, <1>1, <1>8, <2>1 DEF Lines
<1>9. QED
  BY <1>7, <1>8

LEMMA LinesCounted ==
    ASSUME NEW got \in Seq(Symbol)
    PROVE  Lines(got) \in Nat
<1>1. Len(got) \in Nat /\ DOMAIN got = 1..Len(got)
  BY LenProperties
<1>2. IsFiniteSet(1..Len(got)) /\ {i \in DOMAIN got : got[i] = "eol"} \in SUBSET (1..Len(got))
  BY <1>1, FS_Interval
<1>3. IsFiniteSet({i \in DOMAIN got : got[i] = "eol"})
  BY <1>2, FS_Subset
<1>4. QED
  BY <1>3, FS_CardinalityType DEF Lines

-----------------------------------------------------------------------------
\* Inside a line.

\* read is what a reader has of the text of the event.
Reading(event, pending, read) ==
    read \in Seq(Characters) /\ pending = <<event.kind>> \o read

LEMMA ReadingFacts ==
    ASSUME NEW event \in AnyEvent, NEW pending, NEW read, Reading(event, pending, read)
    PROVE  /\ pending \in Seq(Symbol) /\ pending # <<>> /\ "eol" \notin ToSet(pending)
           /\ Tail(pending) = read /\ KindOf(pending) = event.kind
<1> DEFINE k == event.kind  one == <<k>>  tail == Tail(pending)
<1>2. k \in Symbol /\ k # "eol"
  BY EventFacts, SymbolFacts
<1>3. read \in Seq(Characters) /\ read \in Seq(Symbol) /\ pending = one \o read
  BY SymbolFacts, SeqMonotonic DEF Reading
<1>4. /\ pending \in Seq(Symbol) /\ Len(pending) = Len(read) + 1 /\ pending[1] = k
      /\ \A i \in 1..Len(read) : pending[i + 1] = read[i]
  BY <1>2, <1>3, ConsFacts
<1> HIDE DEF one, k
<1>5. Len(read) \in Nat
  BY <1>3, LenProperties
<1>6. pending # <<>>
  BY <1>4, <1>5, EmptySeq
<1>7. tail \in Seq(Symbol) /\ Len(tail) = Len(pending) - 1 /\ \A i \in 1..Len(tail) : tail[i] = pending[i + 1]
  BY <1>4, <1>6, HeadTailProperties
<1> HIDE DEF tail
<1>8. Len(tail) = Len(read)
  BY <1>4, <1>5, <1>7
<1>9. \A i \in 1..Len(tail) : tail[i] = read[i]
  BY <1>4, <1>7, <1>8
<1>10. tail = read
  BY <1>3, <1>7, <1>8, <1>9, SeqEqual
<1>11. KindOf(pending) = k
  BY <1>4, <1>6 DEF KindOf
<1>12. "eol" \notin ToSet(pending)
  <2>1. \A i \in 1..Len(read) : read[i] # "eol"
    BY <1>3, ElementOfSeq, SymbolFacts
  <2>2. \A i \in 1..(Len(read) + 1) : i = 1 \/ (i - 1 \in 1..Len(read) /\ (i - 1) + 1 = i)
    BY <1>5
  <2>3. ASSUME NEW i \in 1..(Len(read) + 1)
        PROVE  pending[i] # "eol"
    <3>1. CASE i = 1
      BY <1>2, <1>4, <3>1
    <3>2. CASE i # 1
      <4>1. i - 1 \in 1..Len(read) /\ (i - 1) + 1 = i
        BY <2>2, <3>2
      <4>2. pending[i] = read[i - 1]
        BY <1>4, <4>1
      <4>3. QED
        BY <2>1, <4>1, <4>2
    <3>3. QED
      BY <3>1, <3>2
  <2>4. DOMAIN pending = 1..(Len(read) + 1)
    BY <1>4, LenProperties
  <2>5. QED
    BY <2>3, <2>4 DEF ToSet
<1>13. QED
  BY <1>4, <1>6, <1>10, <1>11, <1>12 DEF k, tail

\* One more character is read.
LEMMA ReadingMore ==
    ASSUME NEW event \in AnyEvent, NEW pending, NEW read, Reading(event, pending, read),
           NEW char \in Characters
    PROVE  Reading(event, Append(pending, char), Append(read, char))
<1> DEFINE one == <<event.kind>>  last == <<char>>
<1>1. char \in Symbol /\ event.kind \in Symbol
  BY EventFacts, SymbolFacts
<1>3. read \in Seq(Characters) /\ read \in Seq(Symbol) /\ pending = one \o read
  BY SymbolFacts, SeqMonotonic DEF Reading
<1>4. Append(read, char) \in Seq(Characters) /\ Append(read, char) = read \o last
  BY <1>3, AppendIsConcat
<1>6. one \in Seq(Symbol) /\ last \in Seq(Symbol)
  BY <1>1
<1> HIDE DEF one
<1>7. one \o read \in Seq(Symbol)
  BY <1>3, <1>6, ConcatProperties
<1>8. Append(pending, char) = (one \o read) \o last
  BY <1>1, <1>3, <1>7, AppendIsConcat
<1> HIDE DEF last
<1>9. Associative(Symbol)
  BY Associativity
<1>10. (one \o read) \o last = one \o (read \o last)
  BY <1>3, <1>6, <1>9 DEF Associative
<1>11. QED
  BY <1>4, <1>8, <1>10 DEF Reading, one

\* Where a reader is in a line, after j characters or in the middle of the next.
Whole(events, left, c, j, cut, read) ==
    left = LeftInside(events, c, j) /\ Same(read, SubSeq(events[c + 1].text, 1, j), cut)
Half(events, left, c, j, cut, boundary, read) ==
    /\ j < Len(events[c + 1].text) /\ events[c + 1].text[j + 1] = "W"
    /\ left = <<"lo">> \o LeftInside(events, c, j + 1)
    /\ IF boundary THEN cut /\ Garbled(read, SubSeq(events[c + 1].text, 1, j))
       ELSE Same(read, SubSeq(events[c + 1].text, 1, j), cut)

LEMMA InsideIs ==
    ASSUME NEW events, events \in Seq(AnyEvent), NEW c \in 0..Len(events), c < Len(events),
           NEW pending, NEW left, NEW j, NEW cut, NEW boundary
    PROVE  Inside(events, pending, left, c, j, cut, boundary) <=>
             \E read : /\ Reading(events[c + 1], pending, read)
                       /\ \/ Whole(events, left, c, j, cut, read)
                          \/ Half(events, left, c, j, cut, boundary, read)
<1>1. ASSUME Inside(events, pending, left, c, j, cut, boundary)
      PROVE  /\ Reading(events[c + 1], pending, Tail(pending))
             /\ \/ Whole(events, left, c, j, cut, Tail(pending))
                \/ Half(events, left, c, j, cut, boundary, Tail(pending))
  BY <1>1 DEF Inside, LineOf, Reading, Whole, Half
<1>2. ASSUME NEW read, Reading(events[c + 1], pending, read),
             \/ Whole(events, left, c, j, cut, read)
             \/ Half(events, left, c, j, cut, boundary, read)
      PROVE  Inside(events, pending, left, c, j, cut, boundary)
  <2>1. c + 1 \in 1..Len(events)
    BY LenProperties
  <2>2. events[c + 1] \in AnyEvent
    BY <2>1, ElementOfSeq
  <2>3. pending # <<>> /\ Tail(pending) = read
    BY <1>2, <2>2, ReadingFacts
  <2>4. LineOf(events[c + 1], pending, Tail(pending))
    BY <1>2, <2>3 DEF Reading, LineOf
  <2>5. CASE Whole(events, left, c, j, cut, read)
    BY <2>3, <2>4, <2>5 DEF Inside, Whole
  <2>6. CASE Half(events, left, c, j, cut, boundary, read)
    BY <2>3, <2>4, <2>6 DEF Inside, Half
  <2>7. QED
    BY <1>2, <2>5, <2>6
<1>3. QED
  BY <1>1, <1>2

-----------------------------------------------------------------------------
\* One more byte.

\* One more character at the end.
LEMMA GarbledAppend ==
    ASSUME NEW S, NEW s \in Seq(S), NEW t \in Seq(S), NEW a \in S, NEW b \in S, Garbled(s, t)
    PROVE  Garbled(Append(s, a), Append(t, b))
<1>1. <<a>> \in Seq(S) /\ <<b>> \in Seq(S)
  OBVIOUS
<1>2. Garbled(s \o <<a>>, t \o <<b>>)
  BY <1>1, GarbledLonger
<1>3. QED
  BY <1>2, AppendIsConcat

LEMMA SameAppend ==
    ASSUME NEW S, NEW s \in Seq(S), NEW t \in Seq(S), NEW a \in S, NEW cut, Same(s, t, cut)
    PROVE  Same(Append(s, a), Append(t, a), cut)
BY GarbledAppend DEF Same

\* The lines are those of the events behind the first few.
Told(events, lines, from, cut) ==
    \A i \in 1..Len(lines) : Tells(lines[i], events[from + i], cut)

\* A reader that started behind the first from events, base lines having ended
\* by then, is behind c of them.
Counts(reader, from, base, got, c) ==
    c = from + Len(reader.lines) /\ Lines(got) = base + Len(reader.lines)

At(events, reader, from, base, got, c, cut) ==
    /\ reader \in ReaderType
    /\ Counts(reader, from, base, got, c)
    /\ Told(events, reader.lines, from, cut)

Arrives(events, reader, from, base, got, left, cut, boundary) ==
    \E c \in 0..Len(events) : /\ At(events, reader, from, base, got, c, cut)
                              /\ Stands(events, reader.pending, left, c, cut, boundary)

LEMMA AtMore ==
    ASSUME NEW events, NEW reader, NEW from \in Nat, NEW base \in Nat, NEW got \in Seq(Symbol),
           NEW c, NEW cut, At(events, reader, from, base, got, c, cut),
           NEW byte \in Symbol, byte # "eol"
    PROVE  /\ At(events, reader, from, base, got \o <<byte>>, c, cut)
           /\ \A symbol \in Symbol : symbol # "eol" =>
                At(events, Feed(reader, symbol), from, base, got \o <<byte>>, c, cut)
<1>1. reader \in ReaderType
  BY DEF At
<1>2. Lines(got \o <<byte>>) = Lines(got)
  BY LinesSteps
<1>3. At(events, reader, from, base, got \o <<byte>>, c, cut)
  BY <1>2 DEF At, Counts
<1>4. ASSUME NEW symbol \in Symbol, symbol # "eol"
      PROVE  At(events, Feed(reader, symbol), from, base, got \o <<byte>>, c, cut)
  <2>1. Feed(reader, symbol) \in ReaderType /\ Feed(reader, symbol).lines = reader.lines
    BY <1>1, <1>4, FeedMore
  <2>2. QED
    BY <1>3, <2>1 DEF At, Counts
<1>5. QED
  BY <1>3, <1>4

LEMMA AtEol ==
    ASSUME NEW events, NEW reader, NEW from \in Nat, NEW base \in Nat, NEW got \in Seq(Symbol),
           NEW c, NEW cut, At(events, reader, from, base, got, c, cut),
           Tells(reader.pending, events[c + 1], cut)
    PROVE  At(events, Feed(reader, "eol"), from, base, got \o <<"eol">>, c + 1, cut)
<1> DEFINE lines == reader.lines  more == Append(lines, reader.pending)  n == Len(lines)
           after == Feed(reader, "eol")
<1>1. reader \in ReaderType /\ Counts(reader, from, base, got, c) /\ Told(events, lines, from, cut)
  BY DEF At
<1>2. after \in ReaderType /\ after.lines = more
  BY <1>1, FeedEol
<1>3. lines \in Seq(Seq(Symbol)) /\ reader.pending \in Seq(Symbol)
  BY <1>1 DEF ReaderType
<1>4. n \in Nat /\ Len(more) = n + 1 /\ more[n + 1] = reader.pending /\ \A i \in 1..n : more[i] = lines[i]
  BY <1>3, AppendProperties, LenProperties
<1>5. Lines(got \o <<"eol">>) = Lines(got) + 1
  BY SymbolFacts, LinesSteps
<1>6. c = from + n /\ Lines(got) = base + n
  BY <1>1 DEF Counts
<1>7. \A i \in 1..n : Tells(lines[i], events[from + i], cut)
  BY <1>1 DEF Told
<1> HIDE DEF after, more, lines, n
<1>8. \A i \in 1..(n + 1) : i \in 1..n \/ i = n + 1
  BY <1>4
<1>9. c + 1 = from + (n + 1) /\ Lines(got \o <<"eol">>) = base + (n + 1)
  BY <1>4, <1>5, <1>6
<1>10. \A i \in 1..(n + 1) : Tells(more[i], events[from + i], cut)
  <2>1. SUFFICES ASSUME NEW i \in 1..(n + 1) PROVE Tells(more[i], events[from + i], cut)
    OBVIOUS
  <2>2. CASE i \in 1..n
    BY <1>4, <1>7, <2>2
  <2>3. CASE i = n + 1
    BY <1>4, <1>9, <2>3
  <2>4. QED
    BY <1>8, <2>2, <2>3
<1>11. Counts(after, from, base, got \o <<"eol">>, c + 1) /\ Told(events, after.lines, from, cut)
  BY <1>2, <1>4, <1>9, <1>10 DEF Counts, Told
<1>12. QED
  BY <1>2, <1>11 DEF At, after

LEMMA ArrivesInside ==
    ASSUME NEW events, events \in Seq(AnyEvent), NEW c \in 0..Len(events), c < Len(events),
           NEW j \in 0..Len(events[c + 1].text), NEW reader, NEW from, NEW base, NEW got, NEW cut,
           At(events, reader, from, base, got, c, cut),
           NEW read, Reading(events[c + 1], reader.pending, read), NEW left, NEW boundary,
           Whole(events, left, c, j, cut, read) \/ Half(events, left, c, j, cut, boundary, read)
    PROVE  Arrives(events, reader, from, base, got, left, cut, boundary)
<1>1. Inside(events, reader.pending, left, c, j, cut, boundary)
  BY InsideIs
<1>2. Stands(events, reader.pending, left, c, cut, boundary)
  BY <1>1 DEF Stands
<1>3. QED
  BY <1>2 DEF Arrives

\* The first byte of a line: its event.
LEMMA LineStarts ==
    ASSUME NEW events, events \in Seq(AnyEvent), NEW c \in 0..Len(events), NEW reader,
           NEW from \in Nat, NEW base \in Nat, NEW got \in Seq(Symbol), NEW cut,
           At(events, reader, from, base, got, c, cut), reader.pending = <<>>,
           NEW byte \in Symbol, NEW more \in Seq(Symbol),
           Encode(From(events, c)) = <<byte>> \o more,
           NEW first, NEW last
    PROVE  Arrives(events, Heard(reader, byte, first, last), from, base, got \o <<byte>>, more, cut, last)
<1> DEFINE e == events[c + 1]  after == Feed(reader, byte)  none == <<>>
<1>0. none = <<>> /\ none \in Seq(Characters) /\ none \in Seq(Symbol) /\ Len(none) = 0
  OBVIOUS
<1> HIDE DEF none
<1>1. c < Len(events)
  <2>1. <<byte>> \o more # <<>>
    <3>1. Len(<<byte>> \o more) = Len(more) + 1 /\ Len(more) \in Nat
      BY ConsFacts, LenProperties
    <3>2. Len(<<>>) = 0
      OBVIOUS
    <3>3. QED
      BY <3>1, <3>2
  <2>2. Encode(From(events, Len(events))) = <<>> /\ Len(events) \in Nat
    BY EncodeSteps, LenProperties
  <2>3. QED
    BY <2>1, <2>2
<1>2. c + 1 \in 1..Len(events)
  BY <1>1, LenProperties
<1>3. e \in AnyEvent /\ e.kind \in Kinds /\ e.text \in Seq(Alphabet)
  BY <1>2, ElementOfSeq, EventFacts
<1>4. e.kind \in Symbol /\ e.kind \notin {"hi", "lo", "eol"}
  BY <1>3, SymbolFacts
<1>5. 0 \in 0..Len(e.text) /\ LeftInside(events, c, 0) \in Seq(Symbol)
  BY <1>1, <1>3, LeftSteps, LenProperties
<1>6. byte = e.kind /\ more = LeftInside(events, c, 0)
  <2>1. <<byte>> \o more = <<e.kind>> \o LeftInside(events, c, 0)
    BY <1>1, EncodeSteps
  <2>2. StartSame(byte, more, e.kind, LeftInside(events, c, 0))
    BY <1>4, <1>5, SymbolsSame
  <2>3. QED
    BY <2>1, <2>2 DEF StartSame
<1>7. Heard(reader, byte, first, last) = after
  BY <1>4, <1>6 DEF Heard
<1>8. after.pending = Append(reader.pending, byte)
  BY <1>4, <1>6, FeedMore DEF At
<1>9. At(events, after, from, base, got \o <<byte>>, c, cut)
  BY <1>4, <1>6, AtMore
<1> HIDE DEF after
<1>10. after.pending = <<e.kind>> \o none
  <2>1. <<e.kind>> \o <<>> = <<e.kind>>
    BY <1>4
  <2>2. QED
    BY <1>0, <1>6, <1>8, <2>1
<1>11. Reading(e, after.pending, none)
  BY <1>0, <1>10 DEF Reading
<1>12. Whole(events, more, c, 0, cut, none)
  <2>1. SubSeq(e.text, 1, 0) = <<>>
    BY SubSeqEmpty
  <2>2. QED
    BY <1>0, <1>6, <2>1 DEF Whole, Same
<1>13. Arrives(events, after, from, base, got \o <<byte>>, more, cut, last)
  BY <1>1, <1>5, <1>9, <1>11, <1>12, ArrivesInside
<1>14. QED
  BY <1>7, <1>13

\* The reader is inside a line, all of the characters that came decoded.
LEMMA WholeGoesOn ==
    ASSUME NEW events, events \in Seq(AnyEvent), NEW c \in 0..Len(events), c < Len(events),
           NEW j \in 0..Len(events[c + 1].text), NEW reader,
           NEW from \in Nat, NEW base \in Nat, NEW got \in Seq(Symbol), NEW cut,
           At(events, reader, from, base, got, c, cut),
           NEW read, Reading(events[c + 1], reader.pending, read),
           NEW byte \in Symbol, NEW more \in Seq(Symbol),
           Whole(events, <<byte>> \o more, c, j, cut, read),
           NEW first, NEW last, last /\ byte = "hi" => cut
    PROVE  Arrives(events, Heard(reader, byte, first, last), from, base, got \o <<byte>>, more, cut, last)
<1> DEFINE e == events[c + 1]  t == e.text  N == Len(t)  said == SubSeq(t, 1, j)
<1>1. c + 1 \in 1..Len(events) /\ c + 1 \in 0..Len(events)
  BY LenProperties
<1>2. e \in AnyEvent /\ e.kind \in Kinds /\ t \in Seq(Alphabet) /\ N \in Nat
  BY <1>1, ElementOfSeq, EventFacts, LenProperties
<1>3. <<byte>> \o more = LeftInside(events, c, j) /\ Same(read, said, cut)
  BY DEF Whole
<1>4. read \in Seq(Characters) /\ said \in Seq(Characters)
  <2>1. said \in Seq(Alphabet)
    BY <1>2, FirstFacts
  <2>2. QED
    BY <2>1, SymbolFacts, SeqMonotonic DEF Reading
<1>0. reader \in ReaderType
  BY DEF At
<1>5. CASE j = N
  <2> DEFINE after == Feed(reader, "eol")  rest1 == Encode(From(events, c + 1))
  <2>1. <<byte>> \o more = <<"eol">> \o rest1
    BY <1>3, <1>5, LeftSteps
  <2>2. rest1 \in Seq(Symbol) /\ "eol" \in Symbol
    BY <1>1, EncodeSteps, SymbolFacts
  <2> HIDE DEF rest1
  <2>3. StartSame(byte, more, "eol", rest1)
    BY <2>2, SymbolsSame
  <2>4. byte = "eol" /\ more = rest1
    BY <2>1, <2>3 DEF StartSame
  <2>5. Heard(reader, byte, first, last) = after
    BY <2>4 DEF Heard
  <2>6. said = t
    BY <1>2, <1>5, SubSeqFull
  <2>7. reader.pending # <<>> /\ Tail(reader.pending) = read
    BY <1>2, ReadingFacts
  <2>8. Tells(reader.pending, e, cut)
    BY <1>3, <2>6, <2>7 DEF Tells, LineOf, Reading
  <2>9. At(events, after, from, base, got \o <<byte>>, c + 1, cut)
    BY <2>4, <2>8, AtEol
  <2>10. after.pending = <<>>
    BY <1>0, FeedEol
  <2> HIDE DEF after
  <2>11. Stands(events, after.pending, more, c + 1, cut, last)
    BY <2>4, <2>10 DEF Stands, rest1
  <2>12. QED
    BY <1>1, <2>5, <2>9, <2>11 DEF Arrives
<1>6. CASE j # N
  <2> DEFINE char == t[j + 1]
  <2>1. j < N /\ j + 1 \in 1..N /\ j + 1 \in 0..N
    BY <1>2, <1>6
  <2>2. char \in Alphabet /\ char \in Characters /\ char \in Symbol /\ char \notin {"hi", "lo", "eol"}
    BY <1>2, <2>1, ElementOfSeq, SymbolFacts
  <2>3. LeftInside(events, c, j + 1) \in Seq(Symbol)
    BY <2>1, LeftSteps
  <2>4. LeftInside(events, c, j) = IF char = "W" THEN <<"hi">> \o (<<"lo">> \o LeftInside(events, c, j + 1))
                           ELSE <<char>> \o LeftInside(events, c, j + 1)
    BY <2>1, LeftSteps
  <2>5. SubSeq(t, 1, j + 1) = Append(said, char)
    BY <1>2, <2>1, FirstSteps
  <2> HIDE DEF char, said, t
  <2>6. CASE char # "W"
    <3> DEFINE after == Feed(reader, char)
    <3>1. byte = char /\ more = LeftInside(events, c, j + 1)
      <4>1. <<byte>> \o more = <<char>> \o LeftInside(events, c, j + 1)
        BY <1>3, <2>4, <2>6
      <4>2. StartSame(byte, more, char, LeftInside(events, c, j + 1))
        BY <2>2, <2>3, SymbolsSame
      <4>3. QED
        BY <4>1, <4>2 DEF StartSame
    <3>2. Heard(reader, byte, first, last) = after
      BY <2>2, <3>1 DEF Heard
    <3>3. after.pending = Append(reader.pending, char)
      BY <1>0, <2>2, FeedMore
    <3>4. At(events, after, from, base, got \o <<byte>>, c, cut)
      BY <2>2, <3>1, AtMore
    <3> HIDE DEF after
    <3>5. Reading(e, after.pending, Append(read, char))
      BY <1>2, <2>2, <3>3, ReadingMore
    <3>6. Same(Append(read, char), Append(said, char), cut)
      BY <1>3, <1>4, <2>2, SameAppend
    <3>7. Whole(events, more, c, j + 1, cut, Append(read, char))
      BY <2>5, <3>1, <3>6 DEF Whole, t
    <3>8. Arrives(events, after, from, base, got \o <<byte>>, more, cut, last)
      BY <2>1, <3>4, <3>5, <3>7, ArrivesInside DEF t
    <3>9. QED
      BY <3>2, <3>8
  <2>7. CASE char = "W"
    <3> DEFINE lo == <<"lo">> \o LeftInside(events, c, j + 1)
    <3>1. "hi" \in Symbol /\ "lo" \in Symbol /\ "replacement" \in Characters /\ "replacement" \in Symbol
      BY SymbolFacts
    <3>2. lo \in Seq(Symbol)
      BY <2>3, <3>1, ConsFacts
    <3>3. byte = "hi" /\ more = lo
      <4>1. <<byte>> \o more = <<"hi">> \o lo
        BY <1>3, <2>4, <2>7
      <4> HIDE DEF lo
      <4>2. StartSame(byte, more, "hi", lo)
        BY <3>1, <3>2, SymbolsSame
      <4>3. QED
        BY <4>1, <4>2 DEF StartSame
    <3>4. CASE last
      <4> DEFINE after == Feed(reader, "replacement")
      <4>1. Heard(reader, byte, first, last) = after /\ cut
        BY <3>3, <3>4 DEF Heard
      <4>2. after.pending = Append(reader.pending, "replacement")
        BY <1>0, <3>1, FeedMore
      <4>3. At(events, after, from, base, got \o <<byte>>, c, cut)
        BY <3>1, <3>3, AtMore
      <4> HIDE DEF after
      <4>4. Reading(e, after.pending, Append(read, "replacement"))
        BY <1>2, <3>1, <4>2, ReadingMore
      <4>5. Garbled(Append(read, "replacement"), said)
        BY <1>3, <1>4, GarbledAtEnd
      <4>6. Half(events, more, c, j, cut, last, Append(read, "replacement"))
        BY <2>1, <2>7, <3>3, <3>4, <4>1, <4>5 DEF Half, said, t, char
      <4>7. Arrives(events, after, from, base, got \o <<byte>>, more, cut, last)
        BY <4>3, <4>4, <4>6, ArrivesInside
      <4>8. QED
        BY <4>1, <4>7
    <3>5. CASE ~last
      <4>1. Heard(reader, byte, first, last) = reader
        BY <3>3, <3>5 DEF Heard
      <4>2. At(events, reader, from, base, got \o <<byte>>, c, cut)
        BY <3>1, <3>3, AtMore
      <4>3. Half(events, more, c, j, cut, last, read)
        BY <1>3, <2>1, <2>7, <3>3, <3>5 DEF Half, said, t, char
      <4>4. Arrives(events, reader, from, base, got \o <<byte>>, more, cut, last)
        BY <4>2, <4>3, ArrivesInside
      <4>5. QED
        BY <4>1, <4>4
    <3>6. QED
      BY <3>4, <3>5
  <2>8. QED
    BY <2>6, <2>7
<1>7. QED
  BY <1>5, <1>6

\* The reader is in the middle of a character.
LEMMA HalfGoesOn ==
    ASSUME NEW events, events \in Seq(AnyEvent), NEW c \in 0..Len(events), c < Len(events),
           NEW j \in 0..Len(events[c + 1].text), NEW reader,
           NEW from \in Nat, NEW base \in Nat, NEW got \in Seq(Symbol), NEW cut,
           At(events, reader, from, base, got, c, cut),
           NEW read, Reading(events[c + 1], reader.pending, read),
           NEW byte \in Symbol, NEW more \in Seq(Symbol), NEW first, NEW last,
           Half(events, <<byte>> \o more, c, j, cut, first, read)
    PROVE  Arrives(events, Heard(reader, byte, first, last), from, base, got \o <<byte>>, more, cut, last)
<1> DEFINE e == events[c + 1]  t == e.text  N == Len(t)  said == SubSeq(t, 1, j)
           char == IF first THEN "replacement" ELSE "W"
           after == Feed(reader, char)  read1 == Append(read, char)
<1>1. c + 1 \in 1..Len(events)
  BY LenProperties
<1>2. e \in AnyEvent /\ t \in Seq(Alphabet) /\ N \in Nat
  BY <1>1, ElementOfSeq, EventFacts, LenProperties
<1>3. /\ j < N /\ t[j + 1] = "W" /\ <<byte>> \o more = <<"lo">> \o LeftInside(events, c, j + 1)
      /\ IF first THEN cut /\ Garbled(read, said) ELSE Same(read, said, cut)
  BY DEF Half
<1>4. j + 1 \in 1..N /\ j + 1 \in 0..N
  BY <1>2, <1>3
<1>5. read \in Seq(Characters) /\ said \in Seq(Characters)
  <2>1. said \in Seq(Alphabet)
    BY <1>2, FirstFacts
  <2>2. QED
    BY <2>1, SymbolFacts, SeqMonotonic DEF Reading
<1>6. "W" \in Characters /\ char \in Characters /\ char \in Symbol /\ char # "eol"
  <2>1. t[j + 1] \in Alphabet
    BY <1>2, <1>4, ElementOfSeq
  <2>2. QED
    BY <1>3, <2>1, SymbolFacts
<1>7. byte = "lo" /\ more = LeftInside(events, c, j + 1)
  <2>1. LeftInside(events, c, j + 1) \in Seq(Symbol) /\ "lo" \in Symbol
    BY <1>4, LeftSteps, SymbolFacts
  <2>2. StartSame(byte, more, "lo", LeftInside(events, c, j + 1))
    BY <2>1, SymbolsSame
  <2>3. QED
    BY <1>3, <2>2 DEF StartSame
<1>8. Heard(reader, byte, first, last) = after
  BY <1>7 DEF Heard
<1>9. SubSeq(t, 1, j + 1) = Append(said, "W")
  BY <1>2, <1>3, FirstSteps
<1> HIDE DEF said, t
<1>10. Same(read1, Append(said, "W"), cut)
  <2>1. CASE first
    <3>1. Garbled(read, said) /\ cut /\ char = "replacement"
      BY <1>3, <2>1
    <3>2. Garbled(Append(read, char), Append(said, "W"))
      BY <1>5, <1>6, <3>1, GarbledAppend
    <3>3. QED
      BY <3>1, <3>2 DEF Same
  <2>2. CASE ~first
    BY <1>3, <1>5, <1>6, <2>2, SameAppend
  <2>3. QED
    BY <2>1, <2>2
<1> HIDE DEF char
<1>11. after.pending = Append(reader.pending, char)
  BY <1>6, FeedMore DEF At
<1>12. At(events, after, from, base, got \o <<byte>>, c, cut)
  BY <1>6, <1>7, AtMore
<1> HIDE DEF after
<1>13. Reading(e, after.pending, read1)
  BY <1>2, <1>6, <1>11, ReadingMore
<1> HIDE DEF read1
<1>14. Whole(events, more, c, j + 1, cut, read1)
  BY <1>7, <1>9, <1>10 DEF Whole, t
<1>15. Arrives(events, after, from, base, got \o <<byte>>, more, cut, last)
  BY <1>4, <1>12, <1>13, <1>14, ArrivesInside DEF t
<1>16. QED
  BY <1>8, <1>15

LEMMA ByteArrives ==
    ASSUME NEW events, events \in Seq(AnyEvent), NEW reader, NEW from \in Nat, NEW base \in Nat,
           NEW got \in Seq(Symbol), NEW cut, NEW first, NEW last,
           NEW byte \in Symbol, NEW more \in Seq(Symbol),
           Arrives(events, reader, from, base, got, <<byte>> \o more, cut, first),
           last /\ byte = "hi" => cut
    PROVE  Arrives(events, Heard(reader, byte, first, last), from, base, got \o <<byte>>, more, cut, last)
<1> DEFINE left == <<byte>> \o more
<1>1. PICK c \in 0..Len(events) : /\ At(events, reader, from, base, got, c, cut)
                                  /\ Stands(events, reader.pending, left, c, cut, first)
  BY DEF Arrives
<1>2. CASE left = Encode(From(events, c)) /\ reader.pending = <<>>
  BY <1>1, <1>2, LineStarts
<1>3. ASSUME c < Len(events), NEW j \in 0..Len(events[c + 1].text),
             Inside(events, reader.pending, left, c, j, cut, first)
      PROVE  Arrives(events, Heard(reader, byte, first, last), from, base, got \o <<byte>>, more, cut, last)
  <2>1. PICK read : /\ Reading(events[c + 1], reader.pending, read)
                    /\ \/ Whole(events, left, c, j, cut, read)
                       \/ Half(events, left, c, j, cut, first, read)
    BY <1>3, InsideIs
  <2>2. CASE Whole(events, left, c, j, cut, read)
    BY <1>1, <1>3, <2>1, <2>2, WholeGoesOn
  <2>3. CASE Half(events, left, c, j, cut, first, read)
    BY <1>1, <1>3, <2>1, <2>3, HalfGoesOn
  <2>4. QED
    BY <2>1, <2>2, <2>3
<1>4. QED
  BY <1>1, <1>2, <1>3 DEF Stands

-----------------------------------------------------------------------------
\* A chunk.

\* What is true of characters that were cut stays true when more are.
LEMMA CutMore ==
    ASSUME NEW events, NEW pending, NEW left, NEW c, NEW cut, NEW more, NEW boundary, cut => more,
           Stands(events, pending, left, c, cut, boundary)
    PROVE  Stands(events, pending, left, c, more, boundary)
<1>1. \A s, t : Same(s, t, cut) => Same(s, t, more)
  BY DEF Same
<1>2. ASSUME NEW j, Inside(events, pending, left, c, j, cut, boundary)
      PROVE  Inside(events, pending, left, c, j, more, boundary)
  BY <1>1, <1>2 DEF Inside
<1>3. QED
  BY <1>2 DEF Stands

\* At the end of the stream all of the lines have ended.
LEMMA StandsFacts ==
    ASSUME NEW events, events \in Seq(AnyEvent), NEW c \in 0..Len(events),
           NEW pending, NEW left, NEW cut, NEW boundary, Stands(events, pending, left, c, cut, boundary)
    PROVE  /\ left \in Seq(Symbol) /\ pending \in Seq(Symbol) /\ "eol" \notin ToSet(pending)
           /\ left = <<>> => c = Len(events)
<1>1. ASSUME left = Encode(From(events, c)), pending = <<>>
      PROVE  /\ left \in Seq(Symbol) /\ pending \in Seq(Symbol) /\ "eol" \notin ToSet(pending)
             /\ left = <<>> => c = Len(events)
  <2>1. left \in Seq(Symbol)
    BY <1>1, EncodeSteps
  <2>2. "eol" \notin ToSet(pending) /\ <<>> \in Seq(Symbol)
    BY <1>1 DEF ToSet
  <2>3. ASSUME left = <<>>, c < Len(events) PROVE FALSE
    <3>1. c + 1 \in 1..Len(events)
      BY <2>3, LenProperties
    <3>2. events[c + 1].kind \in Symbol
      BY <3>1, ElementOfSeq, EventFacts, SymbolFacts
    <3>3. 0 \in 0..Len(events[c + 1].text)
      BY <3>1, ElementOfSeq, EventFacts, LenProperties
    <3> DEFINE more == LeftInside(events, c, 0)
    <3>4. more \in Seq(Symbol)
      BY <2>3, <3>3, LeftSteps
    <3>5. left = <<events[c + 1].kind>> \o more
      BY <1>1, <2>3, EncodeSteps
    <3> HIDE DEF more
    <3>6. Len(left) = Len(more) + 1 /\ Len(more) \in Nat
      BY <3>2, <3>4, <3>5, ConsFacts, LenProperties
    <3>7. Len(left) = 0
      BY <2>3
    <3> DEFINE n == Len(more)
    <3>8. n \in Nat /\ n + 1 = 0
      BY <3>6, <3>7
    <3> HIDE DEF n
    <3>9. QED
      BY <3>8
  <2>4. left = <<>> => c = Len(events)
    BY <2>3, LenProperties
  <2>5. QED
    BY <1>1, <2>1, <2>2, <2>4
<1>2. ASSUME c < Len(events), NEW j \in 0..Len(events[c + 1].text),
             Inside(events, pending, left, c, j, cut, boundary)
      PROVE  /\ left \in Seq(Symbol) /\ left # <<>>
             /\ pending \in Seq(Symbol) /\ "eol" \notin ToSet(pending)
  <2>1. PICK read : /\ Reading(events[c + 1], pending, read)
                    /\ \/ Whole(events, left, c, j, cut, read)
                       \/ Half(events, left, c, j, cut, boundary, read)
    BY <1>2, InsideIs
  <2>2. c + 1 \in 1..Len(events) /\ c + 1 \in 0..Len(events)
    BY <1>2, LenProperties
  <2> DEFINE t == events[c + 1].text
  <2>3. events[c + 1] \in AnyEvent /\ t \in Seq(Alphabet) /\ Len(t) \in Nat
    BY <2>2, ElementOfSeq, EventFacts, LenProperties
  <2>4. pending \in Seq(Symbol) /\ "eol" \notin ToSet(pending)
    BY <2>1, <2>3, ReadingFacts
  <2>5. \A a \in Symbol : \A s \in Seq(Symbol) : <<a>> \o s \in Seq(Symbol) /\ <<a>> \o s # <<>>
    <3>1. SUFFICES ASSUME NEW a \in Symbol, NEW s \in Seq(Symbol)
                   PROVE  <<a>> \o s \in Seq(Symbol) /\ <<a>> \o s # <<>>
      OBVIOUS
    <3>2. <<a>> \o s \in Seq(Symbol) /\ Len(<<a>> \o s) = Len(s) + 1 /\ Len(s) \in Nat
      BY ConsFacts, LenProperties
    <3>3. Len(<<>>) = 0
      OBVIOUS
    <3>4. QED
      BY <3>2, <3>3
  <2>6. "lo" \in Symbol /\ "eol" \in Symbol /\ "hi" \in Symbol
    BY SymbolFacts
  <2>7. \A i \in 0..Len(t) : LeftInside(events, c, i) \in Seq(Symbol)
    BY <1>2, LeftSteps
  <2>8. CASE Half(events, left, c, j, cut, boundary, read)
    <3>1. j + 1 \in 0..Len(t) /\ left = <<"lo">> \o LeftInside(events, c, j + 1)
      BY <2>3, <2>8 DEF Half
    <3>2. LeftInside(events, c, j + 1) \in Seq(Symbol)
      BY <2>7, <3>1
    <3>3. QED
      BY <2>4, <2>5, <2>6, <3>1, <3>2
  <2>9. CASE Whole(events, left, c, j, cut, read)
    <3>1. left = LeftInside(events, c, j)
      BY <2>9 DEF Whole
    <3>2. CASE j = Len(t)
      <4>1. left = <<"eol">> \o Encode(From(events, c + 1))
        BY <1>2, <3>1, <3>2, LeftSteps
      <4>2. Encode(From(events, c + 1)) \in Seq(Symbol)
        BY <2>2, EncodeSteps
      <4>3. QED
        BY <2>4, <2>5, <2>6, <4>1, <4>2
    <3>3. CASE j # Len(t)
      <4>1. j < Len(t) /\ j + 1 \in 0..Len(t) /\ j + 1 \in 1..Len(t)
        BY <2>3, <3>3
      <4>2. t[j + 1] \in Symbol
        BY <2>3, <4>1, ElementOfSeq, SymbolFacts
      <4>3. LeftInside(events, c, j + 1) \in Seq(Symbol)
        BY <2>7, <4>1
      <4>4. left = IF t[j + 1] = "W" THEN <<"hi">> \o (<<"lo">> \o LeftInside(events, c, j + 1))
                   ELSE <<t[j + 1]>> \o LeftInside(events, c, j + 1)
        BY <1>2, <3>1, <4>1, LeftSteps
      <4>5. <<"lo">> \o LeftInside(events, c, j + 1) \in Seq(Symbol)
        BY <2>5, <2>6, <4>3
      <4> HIDE DEF t
      <4>6. CASE t[j + 1] = "W"
        BY <2>4, <2>5, <2>6, <4>4, <4>5, <4>6
      <4>7. CASE t[j + 1] # "W"
        BY <2>4, <2>5, <4>2, <4>3, <4>4, <4>7
      <4>8. QED
        BY <4>6, <4>7
    <3>4. QED
      BY <3>2, <3>3
  <2>10. QED
    BY <2>1, <2>8, <2>9
<1>3. QED
  BY <1>1, <1>2 DEF Stands

LEMMA ChunkArrives ==
    ASSUME NEW events, events \in Seq(AnyEvent), NEW reader \in ReaderType,
           NEW from \in Nat, NEW base \in Nat, NEW got \in Seq(Symbol),
           NEW left, left \in Seq(Symbol), NEW cut, NEW n \in 1..Len(left),
           Arrives(events, reader, from, base, got, left, cut, TRUE), left[n] = "hi" => cut
    PROVE  Arrives(events, Fed(reader, Decode(SubSeq(left, 1, n))), from, base,
                   got \o SubSeq(left, 1, n), From(left, n), cut, TRUE)
<1> DEFINE chunk == SubSeq(left, 1, n)
           Come(k) == Arrives(events, Fed(reader, Decoded(chunk, k)), from, base,
                              got \o SubSeq(left, 1, k), From(left, k), cut, k = 0 \/ k = n)
           T == {k \in 0..n : Come(k)}
<1>1. Len(left) \in Nat /\ n \in Nat /\ n \in 0..Len(left) /\ \A k \in 0..n : k \in 0..Len(left)
  BY LenProperties
<1>2. chunk \in Seq(Symbol) /\ Len(chunk) = n /\ \A i \in 1..n : chunk[i] = left[i]
  BY <1>1, FirstFacts
<1>3. 0 \in T
  <2>1. Fed(reader, Decoded(chunk, 0)) = reader
    BY <1>2, DecodedSteps, FedSteps
  <2>2. SubSeq(left, 1, 0) = <<>> /\ From(left, 0) = left
    BY SubSeqEmpty, FromSteps
  <2>3. got \o <<>> = got
    BY ConcatEmptySeq
  <2>4. (0 = 0 \/ 0 = n) = TRUE
    OBVIOUS
  <2>5. Come(0)
    BY <2>1, <2>2, <2>3, <2>4
  <2>6. QED
    BY <1>1, <2>5
<1>4. ASSUME NEW k \in 0..n, k \in T, k < n
      PROVE  k + 1 \in T
  <2> DEFINE before == Fed(reader, Decoded(chunk, k))  b == left[k + 1]
             came == got \o SubSeq(left, 1, k)  more == From(left, k + 1)
  <2>1. /\ k + 1 \in 0..n /\ k + 1 \in 1..n /\ k \in 0..Len(left) /\ k + 1 \in 0..Len(left)
        /\ k + 1 \in 1..Len(left) /\ k < Len(left) /\ k \in 0..Len(chunk) /\ k < Len(chunk)
    BY <1>1, <1>2, <1>4
  <2>2. Come(k)
    BY <1>4
  <2>3. (k = 0 \/ k = n) = (k = 0) /\ (k + 1 = 0 \/ k + 1 = n) = (k + 1 = n)
    BY <1>1, <1>4
  <2>4. From(left, k) = <<b>> \o more
    BY <2>1, FromSteps
  <2>5. b \in Symbol /\ more \in Seq(Symbol) /\ SubSeq(left, 1, k) \in Seq(Symbol)
    BY <2>1, ElementOfSeq, FromFacts, FirstFacts
  <2>6. came \in Seq(Symbol)
    BY <2>5, ConcatProperties
  <2>7. Arrives(events, before, from, base, came, <<b>> \o more, cut, k = 0)
    BY <2>2, <2>3, <2>4
  <2>8. (k + 1 = n /\ b = "hi") => cut
    OBVIOUS
  <2>9. Fed(reader, Decoded(chunk, k + 1)) = Heard(before, b, k = 0, k + 1 = n)
    <3>1. chunk[k + 1] = b /\ Len(chunk) = n
      BY <1>2, <2>1
    <3> HIDE DEF chunk
    <3>2. Hears(reader, chunk, k)
      BY <1>2, <2>1, FedByte
    <3>3. QED
      BY <3>1, <3>2 DEF Hears
  <2>10. got \o SubSeq(left, 1, k + 1) = came \o <<b>>
    <3> DEFINE s == SubSeq(left, 1, k)  last == <<b>>
    <3>1. SubSeq(left, 1, k + 1) = Append(s, b)
      BY <2>1, FirstSteps
    <3>2. Append(s, b) = s \o last
      BY <2>5, AppendIsConcat
    <3>3. last \in Seq(Symbol) /\ s \in Seq(Symbol)
      BY <2>5
    <3> HIDE DEF s, last
    <3>4. Associative(Symbol)
      BY Associativity
    <3>5. got \o (s \o last) = (got \o s) \o last
      BY <3>3, <3>4 DEF Associative
    <3>6. QED
      BY <3>1, <3>2, <3>5 DEF s, last
  <2> HIDE DEF before, b, came, more
  <2>11. Arrives(events, Heard(before, b, k = 0, k + 1 = n), from, base, came \o <<b>>, more, cut, k + 1 = n)
    BY <2>5, <2>6, <2>7, <2>8, ByteArrives
  <2>12. Come(k + 1)
    BY <2>3, <2>9, <2>10, <2>11 DEF more
  <2>13. QED
    BY <2>1, <2>12
<1> HIDE DEF T
<1>5. n \in T
  <2>1. \A k \in 0..n : k \in T /\ k < n => k + 1 \in T
    BY <1>4
  <2>2. \A k \in 0..n : k \in T
    BY <1>1, <1>3, <2>1, UpTo
  <2>3. QED
    BY <1>1, <2>2
<1>6. Come(n)
  BY <1>5 DEF T
<1>7. Decode(chunk) = Decoded(chunk, n)
  BY <1>2, DecodedSteps
<1>8. (n = 0 \/ n = n) = TRUE
  OBVIOUS
<1>9. QED
  BY <1>6, <1>7, <1>8

\* What a chunk is for SentinelScan and ChatStream: the reader stands behind c
\* lines, drains the next n bytes, and stands behind the lines they end.
LEMMA ChunkRead ==
    ASSUME NEW events, events \in Seq(AnyEvent), NEW c \in 0..Len(events), NEW pending, NEW left,
           NEW got \in Seq(Symbol), NEW cut, NEW more, cut => more,
           Stands(events, pending, left, c, cut, TRUE), NEW n \in 1..Len(left), left[n] = "hi" => more
    PROVE  Arrives(events, Drained(pending, SubSeq(left, 1, n)), c, Lines(got),
                   got \o SubSeq(left, 1, n), From(left, n), more, TRUE)
<1> DEFINE none == <<>>  reader == [lines |-> none, pending |-> pending]
<1>1. left \in Seq(Symbol) /\ pending \in Seq(Symbol)
  BY StandsFacts
<1>2. none \in Seq(Seq(Symbol)) /\ Len(none) = 0
  OBVIOUS
<1>3. Drained(pending, SubSeq(left, 1, n)) = Fed(reader, Decode(SubSeq(left, 1, n)))
  BY DEF Drained
<1> HIDE DEF none
<1>4. reader \in ReaderType /\ reader.pending = pending /\ reader.lines = none
  BY <1>1, <1>2 DEF ReaderType
<1> HIDE DEF reader
<1>5. c \in Nat /\ Lines(got) \in Nat
  BY LinesCounted, LenProperties
<1>6. At(events, reader, c, Lines(got), got, c, more)
  <2>1. c = c + Len(reader.lines) /\ Lines(got) = Lines(got) + Len(reader.lines)
    BY <1>2, <1>4, <1>5
  <2>2. 1..Len(reader.lines) = {}
    BY <1>2, <1>4
  <2>3. QED
    BY <1>4, <2>1, <2>2 DEF At, Counts, Told
<1>7. Stands(events, reader.pending, left, c, more, TRUE)
  BY <1>4, CutMore
<1>8. Arrives(events, reader, c, Lines(got), got, left, more, TRUE)
  BY <1>6, <1>7 DEF Arrives
<1>9. QED
  BY <1>1, <1>3, <1>4, <1>5, <1>8, ChunkArrives
=============================================================================
