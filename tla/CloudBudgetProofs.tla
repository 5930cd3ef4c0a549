-------------------------- MODULE CloudBudgetProofs -------------------------
(***************************************************************************)
(* The sliding budget, for every number of callers, every cap, window and  *)
(* stall.  IInv of CloudBudget is inductive; the invariants the runs check *)
(* are conjuncts of it, and the refinement of BudgetPool needs only its    *)
(* first two.                                                              *)
(***************************************************************************)
EXTENDS CloudBudget, SequenceTheorems, TLAPS

USE CapAssumption, HourAssumption, StallAssumption, TimeAssumption

\* prune_window after k pops leaves a deque of instants k shorter, with the
\* remaining entries in their places.
LEMMA KeptFacts ==
    ASSUME calls \in Seq(Time), NEW k \in 0..Len(calls)
    PROVE  /\ Kept(k) \in Seq(Time)
           /\ Len(Kept(k)) = Len(calls) - k
           /\ \A i \in 1..(Len(calls) - k) : Kept(k)[i] = calls[k + i]
<1>1. Len(calls) \in Nat
  BY LenProperties
<1>2. \A i \in (k + 1)..Len(calls) : calls[i] \in Time
  BY <1>1, ElementOfSeq
<1>3. QED
  BY <1>1, <1>2, SubSeqProperties DEF Kept

\* An expired reservation is an hour older than the instant it is compared
\* with: saturation never makes one expire.
LEMMA ExpiredIsOld ==
    ASSUME NEW n \in Time, NEW t \in Time, Expired(n, t)
    PROVE  t + Hour <= n
BY DEF Expired, DurationSince, Time

\* And one that has not expired is less than an hour older.
LEMMA FreshIsRecent ==
    ASSUME NEW n \in Time, NEW t \in Time, ~Expired(n, t)
    PROVE  n < t + Hour
BY DEF Expired, DurationSince, Time

\* The fields of a grant are instants, and instants are numbers.
LEMMA GrantFields ==
    ASSUME NEW g \in Grants
    PROVE  g.stamp \in Nat /\ g.at \in Nat
BY DEF Grants, Time

\* A grant stamped s and made at a, whose stamp was an hour old at the instant
\* n, is an hour old at t, but for one stall.
LEMMA OldArithmetic ==
    ASSUME NEW s \in Nat, NEW a \in Nat, NEW n \in Nat, NEW t \in Nat,
           s + Hour <= n, n <= t, a <= s + MaxStall
    PROVE  a + Hour - MaxStall <= t
OBVIOUS

\* A grant stamped s, made at a and no later than another at b, whose stamp was
\* fresh at the instant n: b is recent at t, but for one stall.
LEMMA FreshArithmetic ==
    ASSUME NEW s \in Nat, NEW a \in Nat, NEW b \in Nat, NEW n \in Nat, NEW t \in Nat,
           n < s + Hour, s <= a, a <= b, t <= n + MaxStall
    PROVE  t < b + Hour + MaxStall
OBVIOUS

\* Appending one element keeps the places of the others.
LEMMA AppendFacts ==
    ASSUME NEW S, NEW s \in Seq(S), NEW e \in S
    PROVE  /\ Append(s, e) \in Seq(S)
           /\ Len(Append(s, e)) = Len(s) + 1
           /\ \A i \in 1..Len(s) : Append(s, e)[i] = s[i]
           /\ Append(s, e)[Len(s) + 1] = e
BY AppendProperties, LenProperties

\* The initial state satisfies the inductive invariant.
LEMMA InitIInv == Init => IInv
BY DEF Init, IInv, TypeOK, Time, Waiting, Returned, Grants, BudgetNeverExceeded,
       DequeIsRecentGrants, StampsAreRecent, SamplesAreRecent, PrunedAreOld,
       WindowCap, Popped

\* What a call that pops k reservations pops was granted at least an hour ago,
\* but for the stall: the loop compares with an instant that is already past.
LEMMA PoppedByPruneAreOld ==
    ASSUME IInv, NEW c \in Callers, pc[c] \in Waiting,
           NEW k \in 0..Len(calls), PruneStopsAt(k, now[c])
    PROVE  \A i \in 1..(Popped + k) :
               granted[i].at + Hour - MaxStall <= clock
<1>1. /\ Len(calls) \in Nat /\ Len(granted) \in Nat
      /\ Len(calls) <= Len(granted)
      /\ clock \in Nat /\ now[c] \in Time
  BY LenProperties DEF IInv, TypeOK, Time, DequeIsRecentGrants
<1>2. SUFFICES ASSUME NEW i \in 1..(Popped + k)
               PROVE  granted[i].at + Hour - MaxStall <= clock
  OBVIOUS
<1>3. CASE i <= Popped
  BY <1>1, <1>3, SMTT(30) DEF IInv, PrunedAreOld, Popped
<1>4. CASE i > Popped
  <2> DEFINE j == i - Popped
  <2>1. j \in 1..k /\ j \in 1..Len(calls) /\ i = Popped + j /\ i \in 1..Len(granted)
    BY <1>1, <1>4 DEF Popped
  <2>2. calls[j] = granted[i].stamp
    BY <2>1 DEF IInv, DequeIsRecentGrants
  <2>3. calls[j] \in Time
    BY <2>1, ElementOfSeq DEF IInv, TypeOK
  <2>4. calls[j] + Hour <= now[c]
    BY <1>1, <2>1, <2>3, ExpiredIsOld DEF PruneStopsAt
  <2>5. now[c] <= clock
    BY DEF IInv, SamplesAreRecent
  <2>6. granted[i] \in Grants
    BY <2>1, ElementOfSeq DEF IInv, TypeOK
  <2>7. granted[i].at <= granted[i].stamp + MaxStall
    BY <2>1 DEF IInv, StampsAreRecent
  <2>8. granted[i].stamp + Hour <= now[c]
    BY <2>2, <2>4, Zenon
  <2>9. now[c] \in Nat /\ clock \in Nat /\ granted[i].at \in Nat /\ granted[i].stamp \in Nat
    <3>1. now[c] \in Nat
      BY <1>1 DEF Time
    <3>2. QED
      BY <1>1, <2>6, <3>1, GrantFields, Zenon
  <2>10. QED
    BY <2>5, <2>7, <2>8, <2>9, OldArithmetic, Zenon
<1>5. QED
  BY <1>1, <1>3, <1>4 DEF Popped

\* Every locked step of a call prunes k reservations and may grant one more;
\* this is what the pruned deque still says of the history.
LEMMA KeptIsRecent ==
    ASSUME IInv, NEW k \in 0..Len(calls)
    PROVE  \A i \in 1..Len(Kept(k)) : Kept(k)[i] = granted[Popped + k + i].stamp
<1>1. /\ Len(calls) \in Nat /\ Len(granted) \in Nat
      /\ Len(calls) <= Len(granted)
  BY LenProperties DEF IInv, TypeOK, DequeIsRecentGrants
<1>2. /\ Len(Kept(k)) = Len(calls) - k
      /\ \A i \in 1..(Len(calls) - k) : Kept(k)[i] = calls[k + i]
  BY KeptFacts DEF IInv, TypeOK
<1>3. \A i \in 1..(Len(calls) - k) : calls[k + i] = granted[Popped + (k + i)].stamp
  BY <1>1 DEF IInv, DequeIsRecentGrants
<1>4. \A i \in 1..(Len(calls) - k) : Popped + (k + i) = Popped + k + i
  BY <1>1 DEF Popped
<1>5. QED
  BY <1>1, <1>2, <1>3, <1>4

\* A grant preserves the invariant: the reservation that leaves the last Cap
\* of the history is one the call has pruned, now or earlier.
LEMMA GrantIInv ==
    ASSUME IInv, NEW c \in Callers, Grant(c)
    PROVE  IInv'
<1> DEFINE g == [stamp |-> now[c], at |-> clock]
<1>1. PICK k \in 0..Len(calls) :
          /\ PruneStopsAt(k, now[c])
          /\ Len(Kept(k)) < Cap
          /\ calls' = Append(Kept(k), now[c])
  BY DEF Grant
<1>2. /\ Len(calls) \in Nat /\ Len(granted) \in Nat
      /\ Len(calls) <= Len(granted)
      /\ clock \in Time /\ now[c] \in Time /\ g \in Grants
  BY LenProperties DEF IInv, TypeOK, DequeIsRecentGrants, Grants
<1>3. /\ Kept(k) \in Seq(Time)
      /\ Len(Kept(k)) = Len(calls) - k
  BY KeptFacts DEF IInv, TypeOK
<1>4. /\ calls' \in Seq(Time)
      /\ Len(calls') = Len(calls) - k + 1
      /\ \A i \in 1..(Len(calls) - k) : calls'[i] = Kept(k)[i]
      /\ calls'[Len(calls) - k + 1] = now[c]
  BY <1>1, <1>2, <1>3, AppendFacts
<1>5. /\ granted' \in Seq(Grants)
      /\ Len(granted') = Len(granted) + 1
      /\ \A i \in 1..Len(granted) : granted'[i] = granted[i]
      /\ granted'[Len(granted) + 1] = g
  BY <1>2, AppendFacts DEF IInv, TypeOK, Grant
<1>6. Popped' = Popped + k
  BY <1>1, <1>2, <1>4, <1>5 DEF Popped
<1>7. \A i \in 1..Len(granted) : granted[i] \in Grants
  BY ElementOfSeq DEF IInv, TypeOK
<1>8. \A i \in 1..(Popped + k) : granted[i].at + Hour - MaxStall <= clock
  BY <1>1, PoppedByPruneAreOld DEF Waiting, Grant
<1>9. now[c] <= clock /\ clock <= now[c] + MaxStall
  BY DEF IInv, SamplesAreRecent, Waiting, Grant
<1>10. TypeOK'
  BY <1>4, <1>5 DEF IInv, TypeOK, Returned, Grant
<1>11. BudgetNeverExceeded'
  BY <1>1, <1>2, <1>3, <1>4 DEF BudgetNeverExceeded
<1>12. DequeIsRecentGrants'
  <2>1. \A i \in 1..(Len(calls) - k) :
            calls'[i] = granted'[Popped + k + i].stamp
    <3>1. \A i \in 1..(Len(calls) - k) : Kept(k)[i] = granted[Popped + k + i].stamp
      BY <1>1, <1>3, KeptIsRecent
    <3>2. \A i \in 1..(Len(calls) - k) : Popped + k + i \in 1..Len(granted)
      BY <1>1, <1>2 DEF Popped
    <3>3. QED
      BY <1>4, <1>5, <3>1, <3>2
  <2>2. Popped + k + (Len(calls) - k + 1) = Len(granted) + 1
    <3>1. Len(calls) \in Nat /\ Len(granted) \in Nat
      BY <1>2
    <3>2. QED
      BY <1>1, <3>1 DEF Popped
  <2>3. calls'[Len(calls) - k + 1] = granted'[Len(granted) + 1].stamp
    BY <1>4, <1>5
  <2>4. \A i \in 1..Len(calls') : calls'[i] = granted'[Popped' + i].stamp
    <3>1. SUFFICES ASSUME NEW i \in 1..(Len(calls) - k + 1)
                   PROVE  calls'[i] = granted'[Popped + k + i].stamp
      BY <1>4, <1>6
    <3>2. CASE i \in 1..(Len(calls) - k)
      BY <2>1, <3>2
    <3>3. CASE i = Len(calls) - k + 1
      BY <2>2, <2>3, <3>3
    <3>4. i \in 1..(Len(calls) - k) \/ i = Len(calls) - k + 1
      BY <1>1, <1>2, <3>1
    <3>5. QED
      BY <3>2, <3>3, <3>4
  <2>5. Len(calls') <= Len(granted')
    BY <1>1, <1>2, <1>4, <1>5
  <2>6. QED
    BY <2>4, <2>5 DEF DequeIsRecentGrants
<1>13. StampsAreRecent'
  <2>1. \A i \in 1..Len(granted) :
            /\ granted[i].stamp <= granted[i].at
            /\ granted[i].at <= granted[i].stamp + MaxStall
            /\ granted[i].at <= clock
    BY DEF IInv, StampsAreRecent
  <2>2. \A i \in 1..Len(granted') :
            /\ granted'[i].stamp <= granted'[i].at
            /\ granted'[i].at <= granted'[i].stamp + MaxStall
            /\ granted'[i].at <= clock'
    BY <1>2, <1>5, <1>9, <2>1, SMTT(30) DEF Time, Grant
  <2>3. \A i, j \in 1..Len(granted') : i <= j => granted'[i].at <= granted'[j].at
    <3>1. \A i, j \in 1..Len(granted) : i <= j => granted[i].at <= granted[j].at
      BY DEF IInv, StampsAreRecent
    <3>2. \A i \in 1..Len(granted) : granted[i].at <= g.at
      BY <2>1
    <3>3. \A i \in 1..Len(granted') :
              i \in 1..Len(granted) \/ i = Len(granted) + 1
      BY <1>2, <1>5
    <3>4. g.at <= g.at
      BY <1>2 DEF Time
    <3>5. SUFFICES ASSUME NEW i \in 1..Len(granted'), NEW j \in 1..Len(granted'),
                          i <= j
                   PROVE  granted'[i].at <= granted'[j].at
      OBVIOUS
    <3>6. CASE j \in 1..Len(granted)
      <4>1. i \in 1..Len(granted)
        BY <1>2, <1>5, <3>5, <3>6
      <4>2. QED
        BY <1>5, <3>1, <3>5, <3>6, <4>1
    <3>7. CASE j = Len(granted) + 1
      BY <1>5, <3>2, <3>3, <3>4, <3>7
    <3>8. QED
      BY <3>3, <3>6, <3>7
  <2>4. QED
    BY <2>2, <2>3 DEF StampsAreRecent
<1>14. SamplesAreRecent'
  BY <1>2 DEF IInv, TypeOK, SamplesAreRecent, Waiting, Grant
<1>15. PrunedAreOld'
  BY <1>2, <1>5, <1>6, <1>8, SMTT(30) DEF PrunedAreOld, Popped, Grant
<1>16. WindowCap'
  <2>1. SUFFICES ASSUME NEW i \in 1..Len(granted'), i + Cap <= Len(granted')
                 PROVE  granted'[i + Cap].at >= granted'[i].at + Hour - MaxStall
    BY DEF WindowCap
  <2>2. CASE i + Cap <= Len(granted)
    <3>1. i \in 1..Len(granted) /\ i + Cap \in 1..Len(granted)
      BY <1>2, <2>2
    <3>2. granted[i + Cap].at >= granted[i].at + Hour - MaxStall
      BY <2>2, <3>1 DEF IInv, WindowCap
    <3>3. granted'[i] = granted[i] /\ granted'[i + Cap] = granted[i + Cap]
      BY <1>5, <3>1
    <3>4. QED
      BY <3>2, <3>3
  <2>3. CASE i + Cap = Len(granted) + 1
    <3>1. i \in 1..(Popped + k) /\ i \in 1..Len(granted)
      BY <1>1, <1>2, <1>3, <2>3 DEF Popped
    <3>2. granted[i].at + Hour - MaxStall <= clock
      BY <1>8, <3>1
    <3>3. granted'[i] = granted[i] /\ granted'[i + Cap].at = clock
      BY <1>5, <2>3, <3>1
    <3>4. QED
      BY <1>2, <1>7, <3>1, <3>2, <3>3 DEF Grants, Time
  <2>4. i + Cap <= Len(granted) \/ i + Cap = Len(granted) + 1
    <3>1. Len(granted) \in Nat /\ Len(granted') = Len(granted) + 1
      BY <1>2, <1>5
    <3>2. i \in 1..Len(granted') /\ i + Cap <= Len(granted')
      BY <2>1
    <3>3. QED
      BY <3>1, <3>2
  <2>5. QED
    BY <2>2, <2>3, <2>4
<1>17. QED
  BY <1>10, <1>11, <1>12, <1>13, <1>14, <1>15, <1>16 DEF IInv

\* Pruning alone, in a denial or a report, preserves the invariant.
LEMMA PruneIInv ==
    ASSUME IInv, NEW c \in Callers, Deny(c) \/ Report(c)
    PROVE  IInv'
<1>1. PICK k \in 0..Len(calls) : PruneStopsAt(k, now[c]) /\ calls' = Kept(k)
  BY DEF Deny, Report
<1>2. /\ pc[c] \in Waiting
      /\ \E r \in {"denied", "reported"} : pc' = [pc EXCEPT ![c] = r]
      /\ UNCHANGED <<clock, now, granted>>
  BY DEF Deny, Report, Waiting
<1>3. /\ Len(calls) \in Nat /\ Len(granted) \in Nat
      /\ Len(calls) <= Len(granted)
      /\ Kept(k) \in Seq(Time) /\ Len(Kept(k)) = Len(calls) - k
  BY KeptFacts, LenProperties DEF IInv, TypeOK, DequeIsRecentGrants
<1>4. Popped' = Popped + k
  BY <1>1, <1>2, <1>3 DEF Popped
<1>5. TypeOK'
  BY <1>1, <1>2, <1>3 DEF IInv, TypeOK, Returned
<1>6. BudgetNeverExceeded'
  BY <1>1, <1>3 DEF IInv, BudgetNeverExceeded
<1>7. DequeIsRecentGrants'
  <2>1. Len(calls') = Len(calls) - k /\ granted' = granted
    BY <1>1, <1>2, <1>3
  <2>2. Len(calls') <= Len(granted')
    BY <1>3, <2>1
  <2>3. \A i \in 1..Len(calls') : calls'[i] = granted'[Popped' + i].stamp
    BY <1>1, <1>4, <2>1, KeptIsRecent
  <2>4. QED
    BY <2>2, <2>3 DEF DequeIsRecentGrants
<1>8. SamplesAreRecent'
  BY <1>2 DEF IInv, TypeOK, SamplesAreRecent, Waiting
<1>9. PrunedAreOld'
  BY <1>1, <1>2, <1>4, PoppedByPruneAreOld DEF PrunedAreOld
<1>10. StampsAreRecent' /\ WindowCap'
  BY <1>2 DEF IInv, StampsAreRecent, WindowCap
<1>11. QED
  BY <1>5, <1>6, <1>7, <1>8, <1>9, <1>10 DEF IInv

\* The steps outside the lock touch neither the deque nor the history.
LEMMA CallerIInv ==
    ASSUME IInv, NEW c \in Callers, Sample(c) \/ Return(c)
    PROVE  IInv'
<1>1. UNCHANGED <<clock, calls, granted>>
  BY DEF Sample, Return
<1>2. TypeOK'
  <2>1. /\ pc \in [Callers -> {"idle"} \cup Waiting \cup Returned]
        /\ now \in [Callers -> Time] /\ clock \in Time /\ 0 \in Time
    BY DEF IInv, TypeOK, Time
  <2>2. pc' \in [Callers -> {"idle"} \cup Waiting \cup Returned]
    BY <2>1 DEF Sample, Return
  <2>3. now' \in [Callers -> Time]
    BY <2>1 DEF Sample, Return
  <2>4. QED
    BY <1>1, <2>2, <2>3 DEF IInv, TypeOK
<1>3. SamplesAreRecent'
  <2>1. clock \in Nat /\ MaxStall \in Nat
    BY DEF IInv, TypeOK, Time
  <2>2. CASE Sample(c)
    BY <1>1, <2>1, <2>2 DEF IInv, TypeOK, SamplesAreRecent, Sample, Waiting
  <2>3. CASE Return(c)
    BY <1>1, <2>3 DEF IInv, TypeOK, SamplesAreRecent, Return, Waiting
  <2>4. QED
    BY <2>2, <2>3
<1>4. /\ BudgetNeverExceeded' /\ DequeIsRecentGrants' /\ StampsAreRecent'
      /\ PrunedAreOld' /\ WindowCap'
  BY <1>1 DEF IInv, BudgetNeverExceeded, DequeIsRecentGrants, StampsAreRecent,
              PrunedAreOld, WindowCap, Popped
<1>5. QED
  BY <1>2, <1>3, <1>4 DEF IInv

\* Time may pass: what was old stays old, and no caller stalls too long.
LEMMA TickIInv ==
    ASSUME IInv, Tick
    PROVE  IInv'
<1> USE DEF Tick
<1>1. clock \in Nat /\ clock' = clock + 1 /\ UNCHANGED <<pc, now, calls, granted>>
  BY DEF IInv, TypeOK, Time
<1>2. TypeOK'
  BY <1>1 DEF IInv, TypeOK, Time
<1>3. SamplesAreRecent'
  BY <1>1 DEF IInv, TypeOK, SamplesAreRecent, Waiting, Time
<1>4. \A i \in 1..Len(granted) : granted[i].at \in Nat
  <2>1. \A i \in 1..Len(granted) : granted[i] \in Grants
    BY ElementOfSeq DEF IInv, TypeOK
  <2>2. QED
    BY <2>1 DEF Grants, Time
<1>5. StampsAreRecent'
  <2>1. \A i \in 1..Len(granted) : granted[i].at <= clock'
    BY <1>1, <1>4 DEF IInv, StampsAreRecent
  <2>2. QED
    BY <1>1, <2>1 DEF IInv, StampsAreRecent
<1>6. PrunedAreOld'
  <2>1. Len(calls) \in Nat /\ Len(granted) \in Nat
    BY LenProperties DEF IInv, TypeOK
  <2>2. SUFFICES ASSUME NEW i \in 1..Popped
                 PROVE  granted[i].at + Hour - MaxStall <= clock + 1
    BY <1>1 DEF PrunedAreOld, Popped
  <2>3. granted[i].at + Hour - MaxStall <= clock
    BY DEF IInv, PrunedAreOld
  <2>4. granted[i].at \in Nat
    BY <1>4, <2>1 DEF Popped
  <2>5. QED
    BY <1>1, <2>3, <2>4
<1>7. BudgetNeverExceeded' /\ DequeIsRecentGrants' /\ WindowCap'
  BY <1>1 DEF IInv, BudgetNeverExceeded, DequeIsRecentGrants, WindowCap, Popped
<1>8. QED
  BY <1>2, <1>3, <1>5, <1>6, <1>7 DEF IInv

\* IInv is inductive: no step of any caller, in any order, breaks it.
LEMMA NextIInv == IInv /\ [Next]_vars => IInv'
<1> SUFFICES ASSUME IInv, [Next]_vars
             PROVE  IInv'
  OBVIOUS
<1>1. CASE Tick
  BY <1>1, TickIInv
<1>2. ASSUME NEW c \in Callers, Sample(c) \/ Return(c)
      PROVE  IInv'
  BY <1>2, CallerIInv
<1>3. ASSUME NEW c \in Callers, Grant(c)
      PROVE  IInv'
  BY <1>3, GrantIInv
<1>4. ASSUME NEW c \in Callers, Deny(c) \/ Report(c)
      PROVE  IInv'
  BY <1>4, PruneIInv
<1>5. CASE UNCHANGED vars
  BY <1>5 DEF vars, IInv, TypeOK, BudgetNeverExceeded, DequeIsRecentGrants,
              StampsAreRecent, SamplesAreRecent, PrunedAreOld, WindowCap, Popped
<1>6. QED
  BY <1>1, <1>2, <1>3, <1>4, <1>5 DEF Next

\* The inductive invariant holds in every reachable state.
THEOREM Invariance == Spec => []IInv
<1>1. QED
  BY InitIInv, NextIInv, PTL DEF Spec

\* Every variable keeps its type, for every value of the constants.
THEOREM TypeCorrect == Spec => []TypeOK
<1>1. IInv => TypeOK
  BY DEF IInv
<1>2. QED
  BY <1>1, Invariance, PTL

\* The deque never holds more than max_cloud_requests_per_hour entries.
THEOREM BudgetIsACap == Spec => []BudgetNeverExceeded
<1>1. IInv => BudgetNeverExceeded
  BY DEF IInv
<1>2. QED
  BY <1>1, Invariance, PTL

\* Cap + 1 grants in a row span an hour, less at most one stall.
THEOREM WindowIsCapped == Spec => []WindowCap
<1>1. IInv => WindowCap
  BY DEF IInv
<1>2. QED
  BY <1>1, Invariance, PTL

\* Deny and Report leave only reservations that were granted within an hour
\* and a stall: the front is fresh, and those behind it were granted later.
THEOREM NothingStaleIsCounted == Spec => NothingStaleCounted
<1> DEFINE Fresh ==
        \A c \in Callers :
            AnsweredWithoutGrant(c) =>
                \A i \in (Popped' + 1)..Len(granted') :
                    clock' < granted'[i].at + Hour + MaxStall
<1>1. IInv /\ [Next]_vars => [Fresh]_vars
  <2> SUFFICES ASSUME IInv, Next, NEW c \in Callers, AnsweredWithoutGrant(c),
                      NEW i \in (Popped' + 1)..Len(granted')
               PROVE  clock' < granted'[i].at + Hour + MaxStall
    BY DEF vars, AnsweredWithoutGrant, Waiting
  <2>1. Deny(c) \/ Report(c)
    <3>1. pc \in [Callers -> {"idle"} \cup Waiting \cup Returned]
      BY DEF IInv, TypeOK
    <3>2. pc[c] # pc'[c]
      BY DEF AnsweredWithoutGrant, Waiting
    <3>3. ~Tick
      BY <3>2 DEF Tick
    <3>4. PICK d \in Callers :
              Sample(d) \/ Grant(d) \/ Deny(d) \/ Report(d) \/ Return(d)
      BY <3>3 DEF Next
    <3>5. d = c
      BY <3>1, <3>2, <3>4 DEF Sample, Grant, Deny, Report, Return
    <3>6. pc'[c] # "granted" /\ pc'[c] # "idle" /\ pc'[c] \notin Waiting
      BY DEF AnsweredWithoutGrant, Waiting
    <3>7. QED
      BY <3>1, <3>4, <3>5, <3>6 DEF Sample, Grant, Return
  <2>2. PICK k \in 0..Len(calls) : PruneStopsAt(k, now[c]) /\ calls' = Kept(k)
    BY <2>1 DEF Deny, Report
  <2>3. UNCHANGED <<clock, granted>> /\ pc[c] \in Waiting
    BY <2>1 DEF Deny, Report, Waiting
  <2>4. /\ Len(calls) \in Nat /\ Len(granted) \in Nat /\ Len(calls) <= Len(granted)
        /\ Len(calls') = Len(calls) - k /\ clock \in Nat /\ now[c] \in Time
    BY <2>2, KeptFacts, LenProperties DEF IInv, TypeOK, DequeIsRecentGrants, Time
  <2>5. Popped' = Popped + k
    BY <2>3, <2>4 DEF Popped
  <2> DEFINE f == Popped + k + 1
  <2>6. f \in 1..Len(granted) /\ i \in 1..Len(granted) /\ f <= i
        /\ k + 1 \in 1..Len(calls) /\ k < Len(calls)
    <3>1. Popped \in Nat /\ Popped + Len(calls) = Len(granted)
      BY <2>4 DEF Popped
    <3>2. i \in (Popped + k + 1)..Len(granted)
      BY <2>3, <2>5
    <3>3. QED
      BY <2>4, <3>1, <3>2
  <2>7. calls[k + 1] = granted[f].stamp
    <3>1. calls[k + 1] = granted[Popped + (k + 1)].stamp
      BY <2>6 DEF IInv, DequeIsRecentGrants
    <3>2. Popped + (k + 1) = f
      BY <2>4 DEF Popped
    <3>3. QED
      BY <3>1, <3>2
  <2>8. granted[f] \in Grants /\ granted[i] \in Grants
    BY <2>6, ElementOfSeq DEF IInv, TypeOK
  <2>9. now[c] < granted[f].stamp + Hour
    <3>1. ~Expired(now[c], calls[k + 1])
      BY <2>2, <2>6 DEF PruneStopsAt
    <3>2. granted[f].stamp \in Time
      BY <2>8 DEF Grants
    <3>3. QED
      BY <2>4, <2>7, <3>1, <3>2, FreshIsRecent, Zenon
  <2>10. granted[f].stamp <= granted[f].at /\ granted[f].at <= granted[i].at
    BY <2>6 DEF IInv, StampsAreRecent
  <2>11. clock <= now[c] + MaxStall
    BY <2>3 DEF IInv, SamplesAreRecent
  <2>12. /\ granted[f].stamp \in Nat /\ granted[f].at \in Nat
         /\ granted[i].at \in Nat /\ now[c] \in Nat /\ clock \in Nat
    <3>1. now[c] \in Nat
      BY <2>4 DEF Time
    <3>2. QED
      BY <2>4, <2>8, <3>1, GrantFields, Zenon
  <2>13. clock < granted[i].at + Hour + MaxStall
    BY <2>9, <2>10, <2>11, <2>12, FreshArithmetic, Zenon
  <2>14. QED
    BY <2>3, <2>13
<1>2. QED
  BY <1>1, Invariance, PTL DEF Spec, NothingStaleCounted

\* A locked call is one step of the pool, everything else a stutter, a return
\* or the passing of time: the deque of instants implements BudgetPool.
THEOREM ImplementsPool == Spec => PoolSpec
<1>1. Init => Pool!Init
  BY DEF Init, Pool!Init, Answer
<1>2. IInv /\ [Next]_vars => [Pool!Next]_(Pool!vars)
  <2> SUFFICES ASSUME IInv, [Next]_vars
               PROVE  [Pool!Next]_(Pool!vars)
    OBVIOUS
  <2> USE DEF Pool!vars
  <2>1. /\ pc \in [Callers -> {"idle"} \cup Waiting \cup Returned]
        /\ Len(calls) \in Nat /\ Len(calls) <= Cap
    BY LenProperties DEF IInv, TypeOK, BudgetNeverExceeded
  <2>2. CASE UNCHANGED vars \/ Tick
    BY <2>2 DEF vars, Tick, Answer
  <2>3. ASSUME NEW c \in Callers, Sample(c)
        PROVE  UNCHANGED <<Len(calls), Answer>>
    BY <2>1, <2>3 DEF Sample, Answer, Waiting
  <2>4. ASSUME NEW c \in Callers, Grant(c)
        PROVE  Pool!Reserve(c)
    <3>1. PICK k \in 0..Len(calls) :
              Len(Kept(k)) < Cap /\ calls' = Append(Kept(k), now[c])
      BY <2>4 DEF Grant
    <3>2. /\ Kept(k) \in Seq(Time) /\ Len(Kept(k)) = Len(calls) - k
          /\ now[c] \in Time
      BY KeptFacts DEF IInv, TypeOK
    <3>3. Len(calls') = Len(calls) - k + 1
      <4>1. Len(Append(Kept(k), now[c])) = Len(Kept(k)) + 1
        BY <3>2, AppendFacts
      <4>2. QED
        BY <3>1, <3>2, <4>1, Zenon
    <3>4. Answer' = [Answer EXCEPT ![c] = "granted"]
      BY <2>1, <2>4 DEF Grant, Answer
    <3>5. Len(calls) - k \in 0..Len(calls) /\ Len(calls) - k < Cap
      BY <2>1, <3>1, <3>2
    <3>6. QED
      BY <3>3, <3>4, <3>5 DEF Pool!Reserve
  <2>5. ASSUME NEW c \in Callers, Deny(c)
        PROVE  Pool!Deny(c)
    <3>1. PICK k \in 0..Len(calls) : Len(Kept(k)) >= Cap /\ calls' = Kept(k)
      BY <2>5 DEF Deny
    <3>2. Len(Kept(k)) = Len(calls) - k
      BY KeptFacts DEF IInv, TypeOK
    <3>3. Len(calls) = Cap /\ Len(calls') = Len(calls)
      BY <2>1, <3>1, <3>2
    <3>4. Answer' = [Answer EXCEPT ![c] = "denied"]
      BY <2>1, <2>5 DEF Deny, Answer
    <3>5. QED
      BY <3>3, <3>4 DEF Pool!Deny
  <2>6. ASSUME NEW c \in Callers, Report(c)
        PROVE  Pool!Refresh
    <3>1. PICK k \in 0..Len(calls) : calls' = Kept(k)
      BY <2>6 DEF Report
    <3>2. Len(calls') \in 0..Len(calls)
      BY <2>1, <3>1, KeptFacts DEF IInv, TypeOK
    <3>3. Answer' = Answer
      BY <2>1, <2>6 DEF Report, Answer
    <3>4. QED
      BY <3>2, <3>3 DEF Pool!Refresh
  <2>7. ASSUME NEW c \in Callers, Return(c)
        PROVE  Pool!Return(c)
    <3>1. Answer' = [Answer EXCEPT ![c] = "none"]
      BY <2>1, <2>7 DEF Return, Answer
    <3>2. QED
      BY <2>7, <3>1 DEF Return, Pool!Return
  <2>8. QED
    BY <2>2, <2>3, <2>4, <2>5, <2>6, <2>7 DEF Next, Pool!Next
<1>3. QED
  BY <1>1, <1>2, Invariance, PTL DEF Spec, PoolSpec, Pool!Spec
=============================================================================
