--------------------------- MODULE DocExportProofs --------------------------
(***************************************************************************)
(* The export sidecar, for any number of requests, any retention window    *)
(* and any number of restarts: IInv of DocExport is inductive, and with it *)
(* links work until they expire, files do not leak, and what is served had *)
(* not expired.                                                            *)
(***************************************************************************)
EXTENDS DocExport, SequenceTheorems, TLAPS

-----------------------------------------------------------------------------
\* The dict.

\* What is left after `del`: the other entries, in their order.
LEMMA DeletedFacts ==
    ASSUME TypeOK, NEW id, Registered(id)
    PROVE  /\ Deleted(id) \in Seq(Export)
           /\ \A i \in DOMAIN Deleted(id) :
                \E j \in DOMAIN exports : exports[j] = Deleted(id)[i] /\ exports[j].id # id
           /\ \A j \in DOMAIN exports :
                exports[j].id # id => \E i \in DOMAIN Deleted(id) : Deleted(id)[i] = exports[j]
           /\ \A i, j \in DOMAIN Deleted(id) : Deleted(id)[i].id = Deleted(id)[j].id => i = j
<1> DEFINE k == CHOOSE i \in DOMAIN exports : exports[i].id = id
           before == SubSeq(exports, 1, k - 1)
           after == SubSeq(exports, k + 1, Len(exports))
<1>1. /\ exports \in Seq(Export) /\ Len(exports) \in Nat /\ DOMAIN exports = 1..Len(exports)
      /\ \A i, j \in DOMAIN exports : exports[i].id = exports[j].id => i = j
  BY LenProperties DEF TypeOK
<1>2. k \in DOMAIN exports /\ exports[k].id = id
  BY DEF Registered
<1>3. Deleted(id) = before \o after
  BY DEF Deleted, RemoveAt
<1> HIDE DEF k
<1>4. k \in 1..Len(exports)
  BY <1>1, <1>2
<1>5. /\ before \in Seq(Export) /\ Len(before) = k - 1
      /\ \A i \in 1..(k - 1) : before[i] = exports[i]
  <2>1. \A i \in 1..(k - 1) : i \in 1..Len(exports)
    BY <1>1, <1>4
  <2>2. \A i \in 1..(k - 1) : exports[i] \in Export
    BY <1>1, <2>1, ElementOfSeq
  <2>3. /\ before \in Seq(Export) /\ Len(before) = (IF 1 <= k - 1 THEN (k - 1) - 1 + 1 ELSE 0)
        /\ \A i \in 1..((k - 1) - 1 + 1) : before[i] = exports[1 + i - 1]
    BY <1>4, <2>2, SubSeqProperties
  <2>4. (k - 1) - 1 + 1 = k - 1 /\ \A i \in 1..(k - 1) : 1 + i - 1 = i
    BY <1>4
  <2>5. QED
    BY <1>4, <2>3, <2>4
<1>6. /\ after \in Seq(Export) /\ Len(after) = Len(exports) - k
      /\ \A i \in 1..(Len(exports) - k) : after[i] = exports[k + i]
  <2>1. \A i \in (k + 1)..Len(exports) : i \in 1..Len(exports)
    BY <1>1, <1>4
  <2>2. \A i \in (k + 1)..Len(exports) : exports[i] \in Export
    BY <1>1, <2>1, ElementOfSeq
  <2>3. /\ after \in Seq(Export)
        /\ Len(after) = (IF k + 1 <= Len(exports) THEN Len(exports) - (k + 1) + 1 ELSE 0)
        /\ \A i \in 1..(Len(exports) - (k + 1) + 1) : after[i] = exports[(k + 1) + i - 1]
    BY <1>1, <1>4, <2>2, SubSeqProperties
  <2>4. /\ Len(exports) - (k + 1) + 1 = Len(exports) - k
        /\ \A i \in 1..(Len(exports) - k) : (k + 1) + i - 1 = k + i
    BY <1>1, <1>4
  <2> HIDE DEF after
  <2>5. Len(after) = Len(exports) - k
    <3>1. CASE k + 1 <= Len(exports)
      BY <2>3, <2>4, <3>1
    <3>2. CASE ~(k + 1 <= Len(exports))
      <4>1. Len(exports) - k = 0
        <5>1. \A n \in Nat : \A m \in 1..n : m + 1 <= n \/ n - m = 0
          OBVIOUS
        <5>2. QED
          BY <1>1, <1>4, <3>2, <5>1
      <4>2. Len(after) = 0
        BY <2>3, <3>2
      <4>3. QED
        BY <4>1, <4>2
    <3>3. QED
      BY <3>1, <3>2
  <2>6. \A i \in 1..(Len(exports) - k) : after[i] = exports[(k + 1) + i - 1]
    BY <2>3, <2>4
  <2>7. QED
    BY <2>3, <2>4, <2>5, <2>6
<1> HIDE DEF before, after
<1> DEFINE left == before \o after
<1>7. /\ left \in Seq(Export) /\ Len(left) = Len(exports) - 1
      /\ DOMAIN left = 1..(Len(exports) - 1)
      /\ \A i \in 1..(Len(exports) - 1) : left[i] = IF i <= k - 1 THEN before[i] ELSE after[i - (k - 1)]
  <2>1. /\ left \in Seq(Export) /\ Len(left) = Len(before) + Len(after)
        /\ \A i \in 1..(Len(before) + Len(after)) :
             left[i] = IF i <= Len(before) THEN before[i] ELSE after[i - Len(before)]
    BY <1>5, <1>6, ConcatProperties
  <2>2. Len(before) + Len(after) = Len(exports) - 1
    BY <1>1, <1>4, <1>5, <1>6
  <2>3. QED
    BY <1>5, <2>1, <2>2, LenProperties
<1> HIDE DEF left
<1>8. \A i \in 1..(Len(exports) - 1) :
        left[i] = exports[IF i <= k - 1 THEN i ELSE i + 1]
  <2>1. SUFFICES ASSUME NEW i \in 1..(Len(exports) - 1)
                 PROVE  left[i] = exports[IF i <= k - 1 THEN i ELSE i + 1]
    OBVIOUS
  <2>2. CASE i <= k - 1
    BY <1>1, <1>4, <1>5, <1>7, <2>2
  <2>3. CASE ~(i <= k - 1)
    <3>1. i - (k - 1) \in 1..(Len(exports) - k) /\ k + (i - (k - 1)) = i + 1
      BY <1>1, <1>4, <2>3
    <3>2. left[i] = after[i - (k - 1)]
      BY <1>7, <2>3
    <3>3. QED
      BY <1>6, <2>3, <3>1, <3>2
  <2>4. QED
    BY <2>2, <2>3
<1>9. \A i \in DOMAIN left :
        \E j \in DOMAIN exports : exports[j] = left[i] /\ exports[j].id # id
  <2>1. SUFFICES ASSUME NEW i \in 1..(Len(exports) - 1)
                 PROVE  \E j \in DOMAIN exports : exports[j] = left[i] /\ exports[j].id # id
    BY <1>7
  <2> DEFINE j == IF i <= k - 1 THEN i ELSE i + 1
  <2>2. j \in 1..Len(exports) /\ j # k
    BY <1>1, <1>4
  <2>3. left[i] = exports[j]
    BY <1>8
  <2> HIDE DEF j
  <2>4. exports[j].id # id
    BY <1>1, <1>2, <2>2
  <2>5. QED
    BY <1>1, <2>2, <2>3, <2>4
<1>10. \A j \in DOMAIN exports : exports[j].id # id => \E i \in DOMAIN left : left[i] = exports[j]
  <2>1. SUFFICES ASSUME NEW j \in 1..Len(exports), exports[j].id # id
                 PROVE  \E i \in DOMAIN left : left[i] = exports[j]
    BY <1>1
  <2>2. j # k
    BY <1>2, <2>1
  <2> DEFINE i == IF j <= k - 1 THEN j ELSE j - 1
  <2>3. i \in 1..(Len(exports) - 1) /\ (IF i <= k - 1 THEN i ELSE i + 1) = j
    BY <1>1, <1>4, <2>2
  <2> HIDE DEF i
  <2>4. left[i] = exports[j]
    BY <1>8, <2>3
  <2>5. QED
    BY <1>7, <2>3, <2>4
<1>11. \A i, j \in DOMAIN left : left[i].id = left[j].id => i = j
  <2>1. SUFFICES ASSUME NEW i \in 1..(Len(exports) - 1), NEW j \in 1..(Len(exports) - 1),
                        left[i].id = left[j].id
                 PROVE  i = j
    BY <1>7
  <2> DEFINE f(x) == IF x <= k - 1 THEN x ELSE x + 1
  <2>2. f(i) \in 1..Len(exports) /\ f(j) \in 1..Len(exports)
    BY <1>1, <1>4
  <2>3. left[i] = exports[f(i)] /\ left[j] = exports[f(j)]
    BY <1>8
  <2>4. f(i) = f(j) => i = j
    BY <1>1, <1>4
  <2> HIDE DEF f
  <2>5. f(i) = f(j)
    BY <1>1, <2>1, <2>2, <2>3
  <2>6. QED
    BY <2>4, <2>5
<1>12. Deleted(id) = left
  BY <1>3 DEF left
<1>13. QED
  BY <1>7, <1>9, <1>10, <1>11, <1>12, Zenon

-----------------------------------------------------------------------------
\* Steps of one thread.

\* Only the thread of r moves.
Moved(r) ==
    /\ req' \in [Requests -> Thread]
    /\ \A q \in Requests \ {r} : req'[q] = req[q]

\* The rest of a thread, beside its place, its loop and its answer.
Same(r) ==
    /\ req'[r].op = req[r].op /\ req'[r].id = req[r].id /\ req'[r].now = req[r].now
    /\ req'[r].boot = req[r].boot

\* Every thread stays in the process it began in.
LEMMA BootsKept ==
    ASSUME NEW r \in Requests, Moved(r), Same(r)
    PROVE  \A q \in Requests : req'[q].boot = req[q].boot
BY DEF Moved, Same

LEMMA GotoMoves ==
    ASSUME TypeOK, NEW r \in Requests, NEW place \in Places, Goto(r, place)
    PROVE  /\ Moved(r) /\ Same(r) /\ req'[r].at = place
           /\ req'[r].left = req[r].left /\ req'[r].answer = req[r].answer
<1>1. req[r] \in Thread
  BY DEF TypeOK
<1>2. PICK t : t = [req[r] EXCEPT !.at = place]
  OBVIOUS
<1>3. /\ t \in Thread /\ t.at = place /\ t.answer = req[r].answer /\ t.op = req[r].op
      /\ t.id = req[r].id /\ t.now = req[r].now /\ t.left = req[r].left
      /\ t.boot = req[r].boot
  BY <1>1, <1>2 DEF Thread
<1>4. req' = [req EXCEPT ![r] = t]
  BY <1>2 DEF Goto, TypeOK
<1>5. QED
  BY <1>3, <1>4 DEF TypeOK, Moved, Same

LEMMA RespondMoves ==
    ASSUME TypeOK, NEW r \in Requests, NEW status \in Answers, Respond(r, status)
    PROVE  /\ Moved(r) /\ Same(r) /\ req'[r].at = "done"
           /\ req'[r].left = req[r].left /\ req'[r].answer = status
<1>1. "done" \in Places
  BY DEF Places
<1>2. PICK t : t = [req[r] EXCEPT !.at = "done", !.answer = status]
  OBVIOUS
<1>3. req[r] \in Thread
  BY DEF TypeOK
<1>4. /\ t \in Thread /\ t.at = "done" /\ t.answer = status /\ t.op = req[r].op
      /\ t.id = req[r].id /\ t.now = req[r].now /\ t.left = req[r].left
      /\ t.boot = req[r].boot
  BY <1>1, <1>2, <1>3 DEF Thread
<1>5. req' = [req EXCEPT ![r] = t]
  BY <1>2 DEF Respond, TypeOK
<1>6. QED
  BY <1>4, <1>5 DEF TypeOK, Moved, Same

LEMMA LoopMoves ==
    ASSUME TypeOK, NEW r \in Requests, NEW left \in Seq(Export), Loop(r, left)
    PROVE  /\ Moved(r) /\ Same(r)
           /\ req'[r].left = left /\ req'[r].answer = req[r].answer
           /\ \/ left # <<>> /\ req'[r].at = "loop"
              \/ left = <<>> /\ req[r].op = "convert" /\ req'[r].at = "render"
              \/ left = <<>> /\ req[r].op = "download" /\ req'[r].at = "get"
<1> DEFINE place == IF left = <<>> THEN AfterPrune(r) ELSE "loop"
<1>1. req[r] \in Thread
  BY DEF TypeOK
<1>2. \/ left # <<>> /\ place = "loop"
      \/ left = <<>> /\ req[r].op = "convert" /\ place = "render"
      \/ left = <<>> /\ req[r].op = "download" /\ place = "get"
  BY <1>1 DEF AfterPrune, Thread
<1>3. place \in Places
  BY <1>2 DEF Places
<1>4. PICK t : t = [req[r] EXCEPT !.at = place, !.left = left]
  OBVIOUS
<1>5. req' = [req EXCEPT ![r] = t]
  BY <1>4 DEF Loop, TypeOK
<1> HIDE DEF place
<1>6. /\ t \in Thread /\ t.at = place /\ t.answer = req[r].answer /\ t.op = req[r].op
      /\ t.id = req[r].id /\ t.now = req[r].now /\ t.left = left /\ t.boot = req[r].boot
  BY <1>1, <1>3, <1>4 DEF Thread
<1>7. QED
  BY <1>2, <1>5, <1>6 DEF TypeOK, Moved, Same

\* What a step of the thread of r leaves true of every other thread: entries
\* are made now and files by a conversion under way, and a file goes only with
\* a conversion that was entered.
LEMMA OthersKept ==
    ASSUME IInv, NEW r \in Requests, Moved(r), TypeOK',
           clock' = clock, restarts' = restarts, converted \subseteq converted',
           \A id \in files' \ files : At(id, "render"),
           \A id \in files \ files' : \E c \in converted : c.id = id,
           \A i \in DOMAIN exports' :
               \/ \E j \in DOMAIN exports : exports[j] = exports'[i]
               \/ exports'[i].created_at = clock
    PROVE  \A q \in Requests \ {r} : ThreadOK(q)' /\ (Retention > 0 => PruneOK(q)')
<1> SUFFICES ASSUME NEW q \in Requests \ {r}
             PROVE  ThreadOK(q)' /\ (Retention > 0 => PruneOK(q)')
  OBVIOUS
<1>1. req'[q] = req[q] /\ req[q] \in Thread /\ ThreadOK(q) /\ (Retention > 0 => PruneOK(q))
  BY DEF Moved, IInv, TypeOK
<1>2. \A c \in converted : ~At(c.id, "render") /\ ~At(c.id, "register")
  BY DEF IInv, ConversionsOK, At
<1>3. ThreadOK(q)'
  <2>1. At(q, "del") => Head(req[q].left) \in converted
    <3>1. SUFFICES ASSUME At(q, "del") PROVE Head(req[q].left) \in converted
      OBVIOUS
    <3>2. req[q].left \in Seq(Export) /\ req[q].left # <<>>
      BY <1>1, <3>1 DEF ThreadOK, At, Thread
    <3>3. 1 \in DOMAIN req[q].left /\ Head(req[q].left) = req[q].left[1]
      BY <3>2, EmptySeq, LenProperties
    <3>4. QED
      BY <1>1, <3>3 DEF ThreadOK
  <2>2. At(q, "del") => Head(req[q].left).id \notin files'
    BY <1>1, <1>2, <2>1 DEF ThreadOK
  <2>3. At(q, "register") => q \in files'
    BY <1>1, <1>2 DEF ThreadOK
  <2>4. At(q, "idle") => q \notin files'
    BY <1>1 DEF ThreadOK, At
  <2>5. QED
    BY <1>1, <2>2, <2>3, <2>4 DEF ThreadOK, At, Expired
<1>4. ASSUME Retention > 0
      PROVE  PruneOK(q)'
  <2>1. PruneOK(q)
    BY <1>1, <1>4
  <2>2. \A i \in DOMAIN exports' :
          Expired(exports'[i], req[q].now) =>
              \E j \in DOMAIN exports : exports[j] = exports'[i]
    <3>1. SUFFICES ASSUME NEW i \in DOMAIN exports', exports'[i].created_at = clock
                   PROVE  ~Expired(exports'[i], req[q].now)
      OBVIOUS
    <3>2. req[q].now <= clock /\ clock \in Int /\ req[q].now \in Int
      BY <1>1 DEF ThreadOK, IInv, TypeOK, Thread
    <3>3. QED
      BY <1>4, <3>1, <3>2, RetentionAssumption DEF Expired
  <2>3. req[q].at \in {"loop", "del"} =>
          \A i \in DOMAIN exports' :
            Expired(exports'[i], req[q].now) =>
              \E k \in DOMAIN req[q].left : req[q].left[k] = exports'[i]
    BY <2>1, <2>2 DEF PruneOK
  <2>4. req[q].at = "get" => \A i \in DOMAIN exports' : ~Expired(exports'[i], req[q].now)
    BY <2>1, <2>2 DEF PruneOK, At
  <2>5. QED
    BY <1>1, <2>1, <2>3, <2>4 DEF PruneOK, At, Expired
<1>5. QED
  BY <1>3, <1>4

\* The conversions are as before when none is added, and no entry.
LEMMA ConversionsKept ==
    ASSUME IInv, NEW r \in Requests, Moved(r),
           clock' = clock, converted' = converted,
           \A i \in DOMAIN exports' : \E j \in DOMAIN exports : exports[j] = exports'[i],
           req[r].at \in {"stat", "done"} =>
               req'[r].at \in {"stat", "done"} /\ req'[r].op = req[r].op
    PROVE  ConversionsOK'
<1>1. \A c \in converted : c.id \in Requests
  BY DEF IInv, TypeOK, Export
<1>2. ASSUME NEW c \in converted
      PROVE  req'[c.id].op = "convert" /\ req'[c.id].at \in {"stat", "done"} /\ c.created_at <= clock
  <2>1. req[c.id].op = "convert" /\ req[c.id].at \in {"stat", "done"} /\ c.created_at <= clock
    BY <1>2 DEF IInv, ConversionsOK
  <2>2. CASE c.id = r
    BY <2>1, <2>2
  <2>3. CASE c.id # r
    BY <1>1, <2>1, <2>3 DEF Moved
  <2>4. QED
    BY <2>2, <2>3
<1>3. QED
  BY <1>2 DEF IInv, ConversionsOK

\* The first of what is left, and the others.
LEMMA TailFacts ==
    ASSUME NEW s \in Seq(Export), s # <<>>
    PROVE  /\ Tail(s) \in Seq(Export) /\ Head(s) \in Export
           /\ 1 \in DOMAIN s /\ Head(s) = s[1]
           /\ \A k \in DOMAIN s : s[k] = Head(s) \/ \E j \in DOMAIN Tail(s) : Tail(s)[j] = s[k]
           /\ \A j \in DOMAIN Tail(s) : \E k \in DOMAIN s : s[k] = Tail(s)[j]
<1>1. /\ Tail(s) \in Seq(Export) /\ Head(s) \in Export /\ Len(Tail(s)) = Len(s) - 1
      /\ \A i \in 1..Len(Tail(s)) : Tail(s)[i] = s[i + 1]
  BY HeadTailProperties
<1>2. Len(s) \in Nat \ {0} /\ DOMAIN s = 1..Len(s) /\ DOMAIN Tail(s) = 1..Len(Tail(s))
  BY <1>1, EmptySeq, LenProperties
<1>3. 1 \in DOMAIN s /\ Head(s) = s[1]
  BY <1>2
<1>4. ASSUME NEW k \in DOMAIN s
      PROVE  s[k] = Head(s) \/ \E j \in DOMAIN Tail(s) : Tail(s)[j] = s[k]
  <2>1. CASE k = 1
    BY <1>3, <2>1
  <2>2. CASE k # 1
    <3>1. k - 1 \in 1..Len(Tail(s)) /\ (k - 1) + 1 = k
      BY <1>1, <1>2, <2>2
    <3>2. QED
      BY <1>1, <1>2, <3>1
  <2>3. QED
    BY <2>1, <2>2
<1>5. ASSUME NEW j \in DOMAIN Tail(s)
      PROVE  \E k \in DOMAIN s : s[k] = Tail(s)[j]
  <2>1. j + 1 \in DOMAIN s /\ Tail(s)[j] = s[j + 1]
    BY <1>1, <1>2
  <2>2. QED
    BY <2>1
<1>6. QED
  BY <1>1, <1>3, <1>4, <1>5

\* Nothing is left of an empty loop.
LEMMA EmptyDomain == DOMAIN <<>> = {}
OBVIOUS

-----------------------------------------------------------------------------
\* The steps that touch neither the dict nor the disk.

LEMMA LocalInv ==
    ASSUME IInv, NEW r \in Requests, Moved(r),
           UNCHANGED <<clock, exports, files, converted, restarts>>,
           ThreadOK(r)', Retention > 0 => PruneOK(r)',
           ~At(r, "register"), ~At(r, "done"),
           At(r, "idle") \/ req'[r].boot = req[r].boot,
           At(r, "stat") => req'[r].at = "done" /\ req'[r].op = req[r].op,
           At(r, "del") => ~Registered(Head(req[r].left).id)
    PROVE  IInv'
<1>1. /\ clock' = clock /\ exports' = exports /\ files' = files /\ converted' = converted
      /\ restarts' = restarts
  OBVIOUS
<1>2. TypeOK'
  BY <1>1 DEF IInv, TypeOK, Moved
<1>3. ConversionsOK'
  BY <1>1, ConversionsKept DEF At
<1>4. \A q \in Requests \ {r} : ThreadOK(q)' /\ (Retention > 0 => PruneOK(q)')
  BY <1>1, <1>2, OthersKept
<1>5. \A q \in Requests : ThreadOK(q)' /\ (Retention > 0 => PruneOK(q)')
  BY <1>4
<1>6. LinksWorkUntilExpiry'
  <2>1. \A c \in converted : c.id \in Requests /\ ~At(c.id, "idle")
    BY DEF IInv, TypeOK, Export, ConversionsOK, At
  <2>2. \A c \in converted : req'[c.id].boot = req[c.id].boot
    BY <2>1 DEF Moved
  <2>3. QED
    BY <1>1, <2>2 DEF IInv, LinksWorkUntilExpiry, Registered
<1>7. EntriesHaveFiles'
  <2>1. SUFFICES ASSUME NEW i \in DOMAIN exports, exports[i].id \notin files
                 PROVE  Deleting(exports[i].id)'
    BY <1>1 DEF EntriesHaveFiles
  <2>2. PICK q \in Requests : At(q, "del") /\ Head(req[q].left).id = exports[i].id
    BY <2>1 DEF IInv, EntriesHaveFiles, Deleting
  <2>3. q # r
    BY <2>2 DEF Registered
  <2>4. req'[q] = req[q]
    BY <2>2, <2>3 DEF Moved
  <2>5. At(q, "del")' /\ Head(req'[q].left).id = exports'[i].id
    BY <1>1, <2>2, <2>4 DEF At
  <2>6. QED
    BY <1>1, <2>2, <2>5 DEF Deleting
<1>8. NoFileLeaks'
  <2>1. ASSUME NEW id \in Requests, id # r
        PROVE  req'[id] = req[id]
    BY <2>1 DEF Moved
  <2>2. req[r].answer = "none"
    BY DEF IInv, ThreadOK
  <2>3. files \subseteq Requests
    BY DEF IInv, TypeOK
  <2>4. At(r, "idle") => r \notin files
    BY DEF IInv, ThreadOK
  <2>5. QED
    BY <1>1, <2>1, <2>2, <2>3, <2>4 DEF IInv, NoFileLeaks, At, Registered
<1>9. QED
  BY <1>2, <1>3, <1>5, <1>6, <1>7, <1>8 DEF IInv

\* A request comes in, and is refused or goes on to prune.
LEMMA EnterInv ==
    ASSUME IInv, NEW r \in Requests, Reject(r) \/ Enter(r)
    PROVE  IInv'
<1>1. /\ UNCHANGED <<clock, exports, files, converted, restarts>>
      /\ TypeOK /\ ThreadOK(r) /\ (Retention > 0 => PruneOK(r)) /\ req[r].at = "idle" /\ req[r] \in Thread
      /\ clock \in 0..MaxTime /\ restarts \in 0..MaxRestarts
  BY DEF IInv, TypeOK, Reject, Enter, At
<1>2. /\ clock' = clock /\ converted' = converted /\ files' = files /\ exports' = exports
      /\ restarts' = restarts
  BY <1>1
<1>3. req[r].answer = "none"
  BY <1>1 DEF ThreadOK, At
<1>4. CASE Reject(r)
  <2>1. PICK status \in {"400", "413"} : Respond(r, status)
    BY <1>4 DEF Reject
  <2>2. status \in Answers
    BY DEF Answers
  <2>3. /\ Moved(r) /\ Same(r) /\ req'[r].at = "done"
        /\ req'[r].left = req[r].left /\ req'[r].answer = status
    BY <1>1, <2>1, <2>2, RespondMoves
  <2>4. ThreadOK(r)'
    BY <1>1, <1>2, <2>3 DEF ThreadOK, At, Same
  <2>5. PruneOK(r)'
    BY <2>3 DEF PruneOK, At
  <2>6. QED
    BY <1>1, <2>3, <2>4, <2>5, LocalInv DEF At, Same
<1>5. CASE Enter(r)
  <2>1. PICK op \in {"convert", "download"}, id \in Requests :
          req' = [req EXCEPT ![r].at = "entered", ![r].op = op, ![r].id = id, ![r].now = clock,
                             ![r].boot = restarts]
    BY <1>5 DEF Enter
  <2>2. PICK t : t = [req[r] EXCEPT !.at = "entered", !.op = op, !.id = id, !.now = clock,
                                    !.boot = restarts]
    OBVIOUS
  <2>3. req' = [req EXCEPT ![r] = t]
    BY <1>1, <2>1, <2>2 DEF TypeOK
  <2>4. "entered" \in Places
    BY DEF Places
  <2>5. /\ t \in Thread /\ t.at = "entered" /\ t.answer = "none" /\ t.now = clock
        /\ t.left = req[r].left /\ t.boot = restarts
    BY <1>1, <1>3, <2>2, <2>4 DEF Thread
  <2>6. Moved(r) /\ req'[r] = t
    BY <1>1, <2>3, <2>5 DEF TypeOK, Moved
  <2>7. ThreadOK(r)'
    <3>1. restarts <= restarts
      BY <1>1
    <3>2. QED
      BY <1>1, <1>2, <2>5, <2>6, <3>1 DEF ThreadOK, At
  <2>8. PruneOK(r)'
    BY <2>5, <2>6 DEF PruneOK, At
  <2>9. QED
    BY <1>1, <2>6, <2>7, <2>8, LocalInv DEF At
<1>6. QED
  BY <1>4, <1>5

\* The copy of the dict, and the loop over what is not old enough.
LEMMA LookInv ==
    ASSUME IInv, NEW r \in Requests, PruneSnapshot(r) \/ PruneSkip(r)
    PROVE  IInv'
<1>1. /\ UNCHANGED <<clock, exports, files, converted, restarts>>
      /\ TypeOK /\ ThreadOK(r) /\ (Retention > 0 => PruneOK(r)) /\ req[r].at \in {"entered", "loop"}
      /\ req[r] \in Thread
  BY DEF IInv, TypeOK, PruneSnapshot, PruneSkip, At
<1>2. /\ clock' = clock /\ converted' = converted /\ files' = files /\ exports' = exports
      /\ restarts' = restarts
  BY <1>1
<1>3. \E left \in Seq(Export) :
        /\ Loop(r, left)
        /\ \A k \in DOMAIN left : left[k] \in converted
        /\ Retention > 0 =>
            \A i \in DOMAIN exports :
              Expired(exports[i], req[r].now) => \E k \in DOMAIN left : left[k] = exports[i]
  <2>1. CASE PruneSnapshot(r)
    <3>1. Loop(r, exports) /\ exports \in Seq(Export) /\ \A k \in DOMAIN exports : exports[k] \in converted
      BY <1>1, <2>1 DEF PruneSnapshot, TypeOK, IInv, ConversionsOK
    <3>2. QED
      BY <3>1
  <2>2. CASE PruneSkip(r)
    <3> DEFINE old == req[r].left
    <3>1. /\ req[r].at = "loop" /\ ~Expired(Head(old), req[r].now) /\ Loop(r, Tail(old))
      BY <2>2 DEF PruneSkip, At
    <3>2. old \in Seq(Export) /\ old # <<>> /\ \A k \in DOMAIN old : old[k] \in converted
      BY <1>1, <3>1 DEF ThreadOK, Thread
    <3> HIDE DEF old
    <3>3. /\ Tail(old) \in Seq(Export)
          /\ \A k \in DOMAIN old : old[k] = Head(old) \/ \E j \in DOMAIN Tail(old) : Tail(old)[j] = old[k]
          /\ \A j \in DOMAIN Tail(old) : \E k \in DOMAIN old : old[k] = Tail(old)[j]
      BY <3>2, TailFacts
    <3>4. Retention > 0 =>
            \A i \in DOMAIN exports :
              Expired(exports[i], req[r].now) => \E k \in DOMAIN old : old[k] = exports[i]
      BY <1>1, <3>1 DEF PruneOK, old
    <3>5. Retention > 0 =>
            \A i \in DOMAIN exports :
              Expired(exports[i], req[r].now) => \E j \in DOMAIN Tail(old) : Tail(old)[j] = exports[i]
      BY <3>1, <3>3, <3>4
    <3>6. \A j \in DOMAIN Tail(old) : Tail(old)[j] \in converted
      BY <3>2, <3>3
    <3>7. QED
      BY <3>1, <3>3, <3>5, <3>6
  <2>3. QED
    BY <2>1, <2>2
<1>4. PICK left \in Seq(Export) :
        /\ Loop(r, left)
        /\ \A k \in DOMAIN left : left[k] \in converted
        /\ Retention > 0 =>
            \A i \in DOMAIN exports :
              Expired(exports[i], req[r].now) => \E k \in DOMAIN left : left[k] = exports[i]
  BY <1>3
<1>5. /\ Moved(r) /\ Same(r)
      /\ req'[r].left = left /\ req'[r].answer = req[r].answer
      /\ \/ left # <<>> /\ req'[r].at = "loop"
         \/ left = <<>> /\ req[r].op = "convert" /\ req'[r].at = "render"
         \/ left = <<>> /\ req[r].op = "download" /\ req'[r].at = "get"
  BY <1>1, <1>4, LoopMoves
<1>6. req[r].answer = "none"
  BY <1>1 DEF ThreadOK, At
<1>7. ThreadOK(r)'
  BY <1>1, <1>2, <1>4, <1>5, <1>6 DEF ThreadOK, At, Same
<1>8. ASSUME Retention > 0
      PROVE  PruneOK(r)'
  <2>1. left = <<>> => \A i \in DOMAIN exports : ~Expired(exports[i], req[r].now)
    BY <1>4, <1>8, EmptyDomain
  <2>2. \A i \in DOMAIN exports :
          Expired(exports[i], req[r].now) => \E k \in DOMAIN left : left[k] = exports[i]
    BY <1>4, <1>8
  <2>3. QED
    BY <1>2, <1>5, <1>6, <2>1, <2>2 DEF PruneOK, At, Same, Expired
<1>9. QED
  BY <1>1, <1>5, <1>7, <1>8, LocalInv DEF At, Same

\* The reply of convert, and the steps of download.
LEMMA ReplyInv ==
    ASSUME IInv, NEW r \in Requests, Stat(r) \/ Get(r) \/ Exists(r) \/ SendFile(r)
    PROVE  IInv'
<1>1. /\ UNCHANGED <<clock, exports, files, converted, restarts>>
      /\ TypeOK /\ ThreadOK(r) /\ (Retention > 0 => PruneOK(r))
      /\ req[r].at \in {"stat", "get", "exists", "send"}
      /\ req[r] \in Thread
  BY DEF IInv, TypeOK, Stat, Get, Exists, SendFile, At
<1>2. /\ clock' = clock /\ converted' = converted /\ files' = files /\ exports' = exports
      /\ restarts' = restarts
  BY <1>1
<1>3. {"200", "404", "500"} \subseteq Answers /\ {"exists", "send"} \subseteq Places
  BY DEF Answers, Places
<1>4. /\ Moved(r) /\ Same(r) /\ req'[r].left = req[r].left
      /\ \/ req'[r].at = "done" /\ req'[r].answer \in {"404", "500"}
         \/ req'[r].at = "done" /\ req'[r].answer = "200" /\ req[r].at \in {"stat", "send"}
         \/ /\ req'[r].at = "exists" /\ req[r].at = "get" /\ Registered(req[r].id)
            /\ req'[r].answer = req[r].answer
         \/ /\ req'[r].at = "send" /\ req[r].at = "exists" /\ req'[r].answer = req[r].answer
  <2>1. CASE Respond(r, "404") \/ Respond(r, "500")
    BY <1>1, <1>3, <2>1, RespondMoves
  <2>2. CASE Respond(r, "200") /\ req[r].at \in {"stat", "send"}
    BY <1>1, <1>3, <2>2, RespondMoves
  <2>3. CASE Goto(r, "exists") /\ req[r].at = "get" /\ Registered(req[r].id)
    BY <1>1, <1>3, <2>3, GotoMoves
  <2>4. CASE Goto(r, "send") /\ req[r].at = "exists"
    BY <1>1, <1>3, <2>4, GotoMoves
  <2>5. QED
    BY <2>1, <2>2, <2>3, <2>4 DEF Stat, Get, Exists, SendFile, At
<1>5. req[r].answer = "none"
  BY <1>1 DEF ThreadOK, At
<1>6. ThreadOK(r)'
  BY <1>1, <1>2, <1>4, <1>5 DEF ThreadOK, At, Same
<1>7. ASSUME Retention > 0
      PROVE  PruneOK(r)'
  <2>1. PruneOK(r)
    BY <1>1, <1>7
  <2>2. ASSUME req[r].at = "get", Registered(req[r].id)
        PROVE  \E c \in converted : c.id = req[r].id /\ ~Expired(c, req[r].now)
    <3>1. PICK i \in DOMAIN exports : exports[i].id = req[r].id
      BY <2>2 DEF Registered
    <3>2. exports[i] \in converted /\ ~Expired(exports[i], req[r].now)
      BY <2>1, <2>2, <3>1 DEF PruneOK, At, IInv, ConversionsOK
    <3>3. QED
      BY <3>1, <3>2
  <2>3. req[r].at = "stat" => req[r].op = "convert"
    BY <1>1 DEF ThreadOK
  <2>4. req[r].op = "download" /\ (req'[r].at \in {"exists", "send"} \/ req'[r].answer = "200") =>
          \E c \in converted : c.id = req[r].id /\ ~Expired(c, req[r].now)
    BY <1>4, <1>5, <2>1, <2>2, <2>3 DEF PruneOK
  <2>5. req'[r].at \notin {"loop", "del", "get"}
    BY <1>4
  <2>6. QED
    BY <1>2, <1>4, <2>4, <2>5 DEF PruneOK, At, Same, Expired
<1>8. QED
  BY <1>1, <1>4, <1>6, <1>7, LocalInv DEF At, Same

-----------------------------------------------------------------------------
\* The steps of a prune that take something away.

\* What a thread in its loop looks at: an entry that was made, and if it is old
\* enough for the thread then it is for the clock.
LEMMA HeadFacts ==
    ASSUME IInv, NEW r \in Requests, req[r].at \in {"loop", "del"}
    PROVE  /\ req[r] \in Thread /\ req[r].left \in Seq(Export) /\ req[r].left # <<>>
           /\ Head(req[r].left) \in Export /\ Head(req[r].left) \in converted
           /\ Expired(Head(req[r].left), req[r].now) =>
                \A c \in converted :
                    clock - c.created_at < Retention => c.id # Head(req[r].left).id
<1>1. TypeOK /\ ThreadOK(r) /\ ConversionsOK
  BY DEF IInv
<1>2. req[r] \in Thread /\ req[r].left \in Seq(Export) /\ req[r].left # <<>>
  BY <1>1 DEF TypeOK, Thread, ThreadOK
<1>3. Head(req[r].left) \in Export /\ Head(req[r].left) \in converted
  <2>1. Head(req[r].left) \in Export /\ 1 \in DOMAIN req[r].left /\ Head(req[r].left) = req[r].left[1]
    BY <1>2, TailFacts
  <2>2. QED
    BY <1>1, <2>1 DEF ThreadOK
<1>4. ASSUME Expired(Head(req[r].left), req[r].now), NEW c \in converted,
             clock - c.created_at < Retention, c.id = Head(req[r].left).id
      PROVE  FALSE
  <2>1. c = Head(req[r].left)
    BY <1>1, <1>3, <1>4 DEF ConversionsOK
  <2>2. req[r].now - c.created_at >= Retention
    BY <1>4, <2>1 DEF Expired
  <2>3. req[r].now \in Int /\ clock \in Int /\ c.created_at \in Int /\ req[r].now <= clock
    BY <1>1, <1>2 DEF TypeOK, Thread, Export, ThreadOK
  <2>4. QED
    BY <1>4, <2>2, <2>3, RetentionAssumption
<1>5. QED
  BY <1>2, <1>3, <1>4

LEMMA UnlinkInv ==
    ASSUME IInv, NEW r \in Requests, PruneUnlink(r)
    PROVE  IInv'
<1> DEFINE head == Head(req[r].left)
<1>1. /\ clock' = clock /\ exports' = exports /\ converted' = converted /\ restarts' = restarts
      /\ files' = files \ {head.id} /\ Goto(r, "del") /\ req[r].at = "loop"
      /\ Expired(head, req[r].now)
      /\ TypeOK /\ ThreadOK(r) /\ (Retention > 0 => PruneOK(r))
  BY DEF IInv, PruneUnlink, Unlinked, At
<1>2. /\ req[r] \in Thread /\ req[r].left # <<>> /\ head \in Export /\ head \in converted
      /\ \A c \in converted : clock - c.created_at < Retention => c.id # head.id
  BY <1>1, HeadFacts
<1>3. /\ Moved(r) /\ Same(r) /\ req'[r].at = "del"
      /\ req'[r].left = req[r].left /\ req'[r].answer = req[r].answer
  <2>1. "del" \in Places
    BY DEF Places
  <2>2. QED
    BY <1>1, <2>1, GotoMoves
<1>4. Head(req'[r].left) = head
  BY <1>3
<1> HIDE DEF head
<1>5. TypeOK'
  BY <1>1, <1>3 DEF TypeOK, Moved
<1>6. ConversionsOK'
  BY <1>1, <1>3, ConversionsKept
<1>7. \A q \in Requests \ {r} : ThreadOK(q)' /\ (Retention > 0 => PruneOK(q)')
  <2>1. \A id \in files \ files' : \E c \in converted : c.id = id
    BY <1>1, <1>2
  <2>2. QED
    BY <1>1, <1>3, <1>5, <2>1, OthersKept
<1>8. ThreadOK(r)'
  <2>1. req[r].answer = "none"
    BY <1>1 DEF ThreadOK, At
  <2>2. head.id \notin files'
    BY <1>1
  <2>3. QED
    BY <1>1, <1>2, <1>3, <1>4, <2>1, <2>2 DEF ThreadOK, At, Same, Expired
<1>9. Retention > 0 => PruneOK(r)'
  <2>1. req[r].answer = "none"
    BY <1>1 DEF ThreadOK, At
  <2>2. QED
    BY <1>1, <1>3, <2>1 DEF PruneOK, At, Same, Expired
<1>10. LinksWorkUntilExpiry'
  <2>1. \A c \in converted : c.id \in Requests
    BY <1>1 DEF TypeOK, Export
  <2>2. \A c \in converted : req'[c.id].boot = req[c.id].boot
    BY <1>3, <2>1, BootsKept
  <2>3. QED
    BY <1>1, <1>2, <2>2 DEF IInv, LinksWorkUntilExpiry, Registered
<1>11. EntriesHaveFiles'
  <2>1. SUFFICES ASSUME NEW i \in DOMAIN exports, exports[i].id \notin files'
                 PROVE  Deleting(exports[i].id)'
    BY <1>1 DEF EntriesHaveFiles
  <2>2. CASE exports[i].id = head.id
    BY <1>1, <1>3, <1>4, <2>2 DEF Deleting, At
  <2>3. CASE exports[i].id # head.id
    <3>1. PICK q \in Requests : At(q, "del") /\ Head(req[q].left).id = exports[i].id
      BY <1>1, <2>1, <2>3 DEF IInv, EntriesHaveFiles, Deleting
    <3>2. q # r
      BY <1>1, <3>1 DEF At
    <3>3. req'[q] = req[q]
      BY <1>3, <3>1, <3>2 DEF Moved
    <3>4. QED
      BY <1>1, <3>1, <3>3 DEF Deleting, At
  <2>4. QED
    BY <2>2, <2>3
<1>12. NoFileLeaks'
  <2>1. ASSUME NEW id \in Requests, id # r
        PROVE  req'[id] = req[id]
    BY <1>3, <2>1 DEF Moved
  <2>2. files' \subseteq files /\ files \subseteq Requests
    BY <1>1 DEF TypeOK
  <2>3. QED
    BY <1>1, <1>3, <2>1, <2>2 DEF IInv, NoFileLeaks, At, Registered, Same
<1>13. QED
  BY <1>5, <1>6, <1>7, <1>8, <1>9, <1>10, <1>11, <1>12 DEF IInv

LEMMA DelInv ==
    ASSUME IInv, NEW r \in Requests, PruneDel(r)
    PROVE  IInv'
<1> DEFINE head == Head(req[r].left)
           rest == Tail(req[r].left)
<1>1. /\ clock' = clock /\ files' = files /\ converted' = converted /\ restarts' = restarts
      /\ req[r].at = "del" /\ TypeOK /\ ThreadOK(r) /\ (Retention > 0 => PruneOK(r))
      /\ IF Registered(head.id)
           THEN Loop(r, rest) /\ exports' = Deleted(head.id)
           ELSE Respond(r, "500") /\ exports' = exports
  BY DEF IInv, PruneDel, At
<1>2. /\ req[r] \in Thread /\ req[r].left \in Seq(Export) /\ req[r].left # <<>>
      /\ head \in Export /\ head \in converted
      /\ Expired(head, req[r].now) /\ head.id \notin files
      /\ \A c \in converted : clock - c.created_at < Retention => c.id # head.id
  <2>1. Expired(head, req[r].now) /\ head.id \notin files
    BY <1>1 DEF ThreadOK, At
  <2>2. QED
    BY <1>1, <2>1, HeadFacts
<1>3. req[r].answer = "none"
  BY <1>1 DEF ThreadOK, At
<1>4. CASE ~Registered(head.id)
  <2>1. "500" \in Answers
    BY DEF Answers
  <2>2. Respond(r, "500") /\ exports' = exports
    BY <1>1, <1>4
  <2>3. /\ Moved(r) /\ Same(r) /\ req'[r].at = "done" /\ req'[r].answer = "500"
        /\ req'[r].left = req[r].left
    BY <1>1, <2>1, <2>2, RespondMoves
  <2>4. ThreadOK(r)'
    BY <1>1, <2>3 DEF ThreadOK, At, Same
  <2>5. PruneOK(r)'
    BY <2>3 DEF PruneOK, At
  <2>6. QED
    BY <1>1, <1>4, <2>2, <2>3, <2>4, <2>5, LocalInv DEF At, Same
<1>5. CASE Registered(head.id)
  <2>1. /\ rest \in Seq(Export)
        /\ \A k \in DOMAIN req[r].left :
             req[r].left[k] = head \/ \E j \in DOMAIN rest : rest[j] = req[r].left[k]
        /\ \A j \in DOMAIN rest : \E k \in DOMAIN req[r].left : req[r].left[k] = rest[j]
    BY <1>2, TailFacts
  <2>2. Loop(r, rest) /\ exports' = Deleted(head.id)
    BY <1>1, <1>5
  <2> HIDE DEF head, rest
  <2>3. /\ Moved(r) /\ Same(r) /\ req'[r].left = rest /\ req'[r].answer = req[r].answer
        /\ \/ rest # <<>> /\ req'[r].at = "loop"
           \/ rest = <<>> /\ req[r].op = "convert" /\ req'[r].at = "render"
           \/ rest = <<>> /\ req[r].op = "download" /\ req'[r].at = "get"
    BY <1>1, <2>1, <2>2, LoopMoves
  <2>4. /\ exports' \in Seq(Export)
        /\ \A i \in DOMAIN exports' :
             \E j \in DOMAIN exports : exports[j] = exports'[i] /\ exports[j].id # head.id
        /\ \A j \in DOMAIN exports :
             exports[j].id # head.id => \E i \in DOMAIN exports' : exports'[i] = exports[j]
        /\ \A i, j \in DOMAIN exports' : exports'[i].id = exports'[j].id => i = j
    BY <1>1, <1>5, <2>2, DeletedFacts
  <2>5. TypeOK'
    BY <1>1, <2>3, <2>4 DEF TypeOK, Moved
  <2>6. ConversionsOK'
    BY <1>1, <2>3, <2>4, ConversionsKept
  <2>7. \A q \in Requests \ {r} : ThreadOK(q)' /\ (Retention > 0 => PruneOK(q)')
    BY <1>1, <2>3, <2>4, <2>5, OthersKept
  <2>8. ThreadOK(r)'
    <3>1. \A j \in DOMAIN rest : rest[j] \in converted
      BY <1>1, <2>1 DEF ThreadOK
    <3>2. QED
      BY <1>1, <1>3, <2>3, <3>1 DEF ThreadOK, At, Same
  <2>9. ASSUME Retention > 0
        PROVE  PruneOK(r)'
    <3>1. \A i \in DOMAIN exports' :
            Expired(exports'[i], req[r].now) => \E j \in DOMAIN rest : rest[j] = exports'[i]
      <4>1. SUFFICES ASSUME NEW i \in DOMAIN exports', Expired(exports'[i], req[r].now)
                     PROVE  \E j \in DOMAIN rest : rest[j] = exports'[i]
        OBVIOUS
      <4>2. PICK j \in DOMAIN exports : exports[j] = exports'[i] /\ exports[j].id # head.id
        BY <2>4
      <4>3. PICK k \in DOMAIN req[r].left : req[r].left[k] = exports[j]
        BY <1>1, <2>9, <4>1, <4>2 DEF PruneOK
      <4>4. QED
        BY <2>1, <4>2, <4>3
    <3>2. rest = <<>> => \A i \in DOMAIN exports' : ~Expired(exports'[i], req[r].now)
      BY <3>1, EmptyDomain
    <3>3. QED
      BY <1>3, <2>3, <3>1, <3>2 DEF PruneOK, At, Same, Expired
  <2>10. LinksWorkUntilExpiry'
    <3>1. SUFFICES ASSUME NEW c \in converted, req'[c.id].boot = restarts,
                          clock - c.created_at < Retention
                   PROVE  Registered(c.id)' /\ c.id \in files
      BY <1>1 DEF LinksWorkUntilExpiry
    <3>2. req[c.id].boot = restarts
      BY <1>1, <2>3, <3>1, BootsKept DEF TypeOK, Export
    <3>3. Registered(c.id) /\ c.id \in files /\ c.id # head.id
      BY <1>2, <3>1, <3>2 DEF IInv, LinksWorkUntilExpiry, head
    <3>4. QED
      BY <2>4, <3>3 DEF Registered
  <2>11. EntriesHaveFiles'
    <3>1. SUFFICES ASSUME NEW i \in DOMAIN exports', exports'[i].id \notin files
                   PROVE  \E q \in Requests : At(q, "del")' /\ Head(req'[q].left).id = exports'[i].id
      BY <1>1 DEF EntriesHaveFiles, Deleting
    <3>2. PICK j \in DOMAIN exports : exports[j] = exports'[i] /\ exports[j].id # head.id
      BY <2>4
    <3>3. PICK q \in Requests : At(q, "del") /\ Head(req[q].left).id = exports[j].id
      BY <3>1, <3>2 DEF IInv, EntriesHaveFiles, Deleting
    <3>4. q # r
      BY <3>2, <3>3 DEF head
    <3>5. req'[q] = req[q]
      BY <2>3, <3>3, <3>4 DEF Moved
    <3>6. At(q, "del")' /\ Head(req'[q].left).id = exports'[i].id
      BY <3>2, <3>3, <3>5 DEF At
    <3>7. QED
      BY <3>3, <3>6
  <2>12. NoFileLeaks'
    <3>1. ASSUME NEW id \in Requests, id # r
          PROVE  req'[id] = req[id]
      BY <2>3, <3>1 DEF Moved
    <3>2. ASSUME NEW id \in files, Registered(id)
          PROVE  Registered(id)'
      BY <1>2, <2>4, <3>2 DEF Registered, head
    <3>3. files \subseteq Requests
      BY <1>1 DEF TypeOK
    <3>4. QED
      BY <1>1, <2>3, <3>1, <3>2, <3>3 DEF IInv, NoFileLeaks, At, Same
  <2>13. QED
    BY <2>5, <2>6, <2>7, <2>8, <2>9, <2>10, <2>11, <2>12 DEF IInv
<1>6. QED
  BY <1>4, <1>5

-----------------------------------------------------------------------------
\* The steps of a conversion that add something.

\* A conversion that was entered is not under way.
LEMMA NotYetEntered ==
    ASSUME IInv, NEW r \in Requests, req[r].at \in {"render", "register"}
    PROVE  \A c \in converted : c.id # r
BY DEF IInv, ConversionsOK

LEMMA RenderInv ==
    ASSUME IInv, NEW r \in Requests, Render(r) \/ RenderFails(r)
    PROVE  IInv'
<1>1. /\ clock' = clock /\ exports' = exports /\ converted' = converted /\ restarts' = restarts
      /\ req[r].at = "render" /\ TypeOK /\ ThreadOK(r)
  BY DEF IInv, Render, RenderFails, At
<1>2. req[r].answer = "none" /\ req[r].op = "convert"
  BY <1>1 DEF ThreadOK, At
<1>3. /\ files \subseteq files' /\ files' \subseteq files \cup {r}
      /\ Moved(r) /\ Same(r) /\ req'[r].left = req[r].left
      /\ \/ req'[r].at = "register" /\ req'[r].answer = "none" /\ r \in files'
         \/ req'[r].at = "done" /\ req'[r].answer = "failed"
  <2>1. CASE Render(r)
    <3>1. files' = files \cup {r} /\ Goto(r, "register") /\ "register" \in Places
      BY <2>1 DEF Render, Places
    <3>2. QED
      BY <1>1, <1>2, <3>1, GotoMoves
  <2>2. CASE RenderFails(r)
    <3>1. PICK part \in {{}, {r}} : files' = files \cup part
      BY <2>2 DEF RenderFails
    <3>2. Respond(r, "failed") /\ "failed" \in Answers
      BY <2>2 DEF RenderFails, Answers
    <3>3. QED
      BY <1>1, <3>1, <3>2, RespondMoves
  <2>3. QED
    BY <2>1, <2>2
<1>4. TypeOK'
  BY <1>1, <1>3 DEF TypeOK, Moved
<1>5. ConversionsOK'
  BY <1>1, <1>3, ConversionsKept
<1>6. \A q \in Requests \ {r} : ThreadOK(q)' /\ (Retention > 0 => PruneOK(q)')
  <2>1. \A id \in files' \ files : At(id, "render")
    BY <1>1, <1>3 DEF At
  <2>2. files \ files' = {}
    BY <1>3
  <2>3. QED
    BY <1>1, <1>3, <1>4, <2>1, <2>2, OthersKept
<1>7. ThreadOK(r)'
  BY <1>1, <1>2, <1>3 DEF ThreadOK, At, Same
<1>8. PruneOK(r)'
  BY <1>2, <1>3 DEF PruneOK, At, Same
<1>9. LinksWorkUntilExpiry'
  <2>1. \A c \in converted : c.id \in Requests
    BY <1>1 DEF TypeOK, Export
  <2>2. \A c \in converted : req'[c.id].boot = req[c.id].boot
    BY <1>3, <2>1, BootsKept
  <2>3. QED
    BY <1>1, <1>3, <2>2 DEF IInv, LinksWorkUntilExpiry, Registered
<1>10. EntriesHaveFiles'
  <2>1. SUFFICES ASSUME NEW i \in DOMAIN exports, exports[i].id \notin files'
                 PROVE  Deleting(exports[i].id)'
    BY <1>1 DEF EntriesHaveFiles
  <2>2. PICK q \in Requests : At(q, "del") /\ Head(req[q].left).id = exports[i].id
    BY <1>3, <2>1 DEF IInv, EntriesHaveFiles, Deleting
  <2>3. req'[q] = req[q]
    BY <1>1, <1>3, <2>2 DEF Moved, At
  <2>4. QED
    BY <1>1, <2>2, <2>3 DEF Deleting, At
<1>11. NoFileLeaks'
  <2>1. ASSUME NEW id \in Requests, id # r
        PROVE  req'[id] = req[id]
    BY <1>3, <2>1 DEF Moved
  <2>2. files \subseteq Requests
    BY <1>1 DEF TypeOK
  <2>3. QED
    BY <1>1, <1>3, <2>1, <2>2 DEF IInv, NoFileLeaks, At, Registered, Same
<1>12. QED
  BY <1>4, <1>5, <1>6, <1>7, <1>8, <1>9, <1>10, <1>11 DEF IInv

LEMMA RegisterInv ==
    ASSUME IInv, NEW r \in Requests, Register(r)
    PROVE  IInv'
<1> DEFINE e == [id |-> r, created_at |-> clock]
<1>1. /\ clock' = clock /\ files' = files /\ restarts' = restarts
      /\ exports' = Append(exports, e) /\ converted' = converted \cup {e}
      /\ Goto(r, "stat") /\ "stat" \in Places
      /\ req[r].at = "register" /\ TypeOK /\ ThreadOK(r)
  BY DEF IInv, Register, Stamp, At, Places
<1>2. e \in Export /\ e.id = r /\ e.created_at = clock
  BY <1>1 DEF TypeOK, Export
<1> HIDE DEF e
<1>3. /\ req[r].answer = "none" /\ req[r].op = "convert" /\ r \in files
  BY <1>1 DEF ThreadOK, At
<1>4. \A c \in converted : c.id # r
  BY <1>1, NotYetEntered
<1>5. /\ Moved(r) /\ Same(r) /\ req'[r].at = "stat"
      /\ req'[r].left = req[r].left /\ req'[r].answer = req[r].answer
  BY <1>1, GotoMoves
<1>6. /\ exports \in Seq(Export) /\ exports' \in Seq(Export)
      /\ DOMAIN exports' = DOMAIN exports \cup {Len(exports) + 1}
      /\ Len(exports) + 1 \notin DOMAIN exports
      /\ exports'[Len(exports) + 1] = e
      /\ \A i \in DOMAIN exports : exports'[i] = exports[i] /\ exports[i] \in converted
  <2>1. exports \in Seq(Export) /\ \A i \in DOMAIN exports : exports[i] \in converted
    BY <1>1 DEF IInv, ConversionsOK, TypeOK
  <2>2. /\ Append(exports, e) \in Seq(Export) /\ Len(Append(exports, e)) = Len(exports) + 1
        /\ \A i \in 1..Len(exports) : Append(exports, e)[i] = exports[i]
        /\ Append(exports, e)[Len(exports) + 1] = e
    BY <1>2, <2>1, AppendProperties
  <2>3. /\ Len(exports) \in Nat /\ DOMAIN exports = 1..Len(exports)
        /\ DOMAIN Append(exports, e) = 1..(Len(exports) + 1)
    BY <2>1, <2>2, LenProperties
  <2>4. \A n \in Nat : 1..(n + 1) = (1..n) \cup {n + 1} /\ n + 1 \notin 1..n
    OBVIOUS
  <2>5. QED
    BY <1>1, <2>1, <2>2, <2>3, <2>4
<1>7. \A i, j \in DOMAIN exports' : exports'[i].id = exports'[j].id => i = j
  BY <1>1, <1>2, <1>4, <1>6 DEF TypeOK
<1>8. TypeOK'
  BY <1>1, <1>2, <1>5, <1>6, <1>7 DEF TypeOK, Moved
<1>9. \A i \in DOMAIN exports' : exports'[i] \in converted'
  BY <1>1, <1>6
<1>10. ConversionsOK'
  <2>1. clock \in Int /\ \A c \in converted : c.id \in Requests
    BY <1>1 DEF TypeOK, Export
  <2>2. \A c \in converted : req'[c.id] = req[c.id]
    BY <1>4, <1>5, <2>1 DEF Moved
  <2>3. \A c, d \in converted' : c.id = d.id => c = d
    BY <1>1, <1>2, <1>4 DEF IInv, ConversionsOK
  <2>4. ASSUME NEW c \in converted'
        PROVE  /\ req'[c.id].op = "convert" /\ req'[c.id].at \in {"stat", "done"}
               /\ c.created_at <= clock
    <3>1. CASE c \in converted
      BY <2>2, <3>1 DEF IInv, ConversionsOK
    <3>2. CASE c = e
      BY <1>2, <1>3, <1>5, <2>1, <3>2 DEF Same
    <3>3. QED
      BY <1>1, <3>1, <3>2
  <2>5. QED
    BY <1>1, <1>9, <2>3, <2>4 DEF ConversionsOK
<1>11. \A q \in Requests \ {r} : ThreadOK(q)' /\ (Retention > 0 => PruneOK(q)')
  <2>1. \A i \in DOMAIN exports' :
          \/ \E j \in DOMAIN exports : exports[j] = exports'[i]
          \/ exports'[i].created_at = clock
    BY <1>2, <1>6
  <2>2. files' \ files = {} /\ files \ files' = {} /\ converted \subseteq converted'
    BY <1>1
  <2>3. QED
    BY <1>1, <1>5, <1>8, <2>1, <2>2, OthersKept
<1>12. ThreadOK(r)'
  BY <1>1, <1>3, <1>5 DEF ThreadOK, At, Same
<1>13. PruneOK(r)'
  BY <1>3, <1>5 DEF PruneOK, At, Same
<1>14. \A id : Registered(id) => Registered(id)'
  BY <1>6 DEF Registered
<1>15. Registered(r)'
  BY <1>2, <1>6 DEF Registered
<1>16. LinksWorkUntilExpiry'
  <2>1. \A c \in converted : c.id \in Requests
    BY <1>1 DEF TypeOK, Export
  <2>2. \A c \in converted : req'[c.id].boot = req[c.id].boot
    BY <1>5, <2>1, BootsKept
  <2>3. QED
    BY <1>1, <1>2, <1>3, <1>14, <1>15, <2>2 DEF IInv, LinksWorkUntilExpiry
<1>17. EntriesHaveFiles'
  <2>1. SUFFICES ASSUME NEW i \in DOMAIN exports, exports[i].id \notin files
                 PROVE  Deleting(exports[i].id)'
    BY <1>1, <1>2, <1>3, <1>6 DEF EntriesHaveFiles
  <2>2. PICK q \in Requests : At(q, "del") /\ Head(req[q].left).id = exports[i].id
    BY <2>1 DEF IInv, EntriesHaveFiles, Deleting
  <2>3. req'[q] = req[q]
    BY <1>1, <1>5, <2>2 DEF Moved, At
  <2>4. QED
    BY <1>6, <2>2, <2>3 DEF Deleting, At
<1>18. NoFileLeaks'
  <2>1. ASSUME NEW id \in Requests, id # r
        PROVE  req'[id] = req[id]
    BY <1>5, <2>1 DEF Moved
  <2>2. files \subseteq Requests
    BY <1>1 DEF TypeOK
  <2>3. QED
    BY <1>1, <1>5, <1>14, <1>15, <2>1, <2>2 DEF IInv, NoFileLeaks, At, Same
<1>19. QED
  BY <1>8, <1>10, <1>11, <1>12, <1>13, <1>16, <1>17, <1>18 DEF IInv

-----------------------------------------------------------------------------
\* A restart, and time.

LEMMA RestartInv ==
    ASSUME IInv, Restart
    PROVE  IInv'
<1>1. /\ clock' = clock /\ files' = files /\ converted' = converted /\ exports' = <<>>
      /\ restarts' = restarts + 1 /\ restarts \in 0..MaxRestarts /\ restarts < MaxRestarts
      /\ TypeOK /\ ConversionsOK
  BY DEF IInv, Restart, TypeOK
<1>2. exports' \in Seq(Export) /\ DOMAIN exports' = {}
  BY <1>1, EmptyDomain
<1>3. /\ restarts' \in 0..MaxRestarts
      /\ \A q \in Requests : req[q].boot <= restarts' /\ req[q].boot < restarts'
  <2>1. ASSUME NEW q \in Requests
        PROVE  req[q].boot \in Int /\ req[q].boot <= restarts
    BY <1>1 DEF TypeOK, Thread, IInv, ThreadOK
  <2>2. QED
    BY <1>1, <2>1, BoundAssumption
<1>4. ASSUME NEW q \in Requests
      PROVE  /\ req'[q] \in Thread /\ req'[q].op = req[q].op /\ req'[q].id = req[q].id
             /\ req'[q].now = req[q].now /\ req'[q].left = req[q].left
             /\ req'[q].boot = req[q].boot
             /\ req'[q].at \in {"idle", "done"}
             /\ req[q].at = "done" => req'[q].at = "done"
             /\ \/ req'[q] = req[q]
                \/ Running(q) /\ req'[q].at = "done" /\ req'[q].answer = "reset"
  <2>1. req[q] \in Thread /\ {"done", "idle"} \subseteq Places /\ "reset" \in Answers
    BY <1>1 DEF TypeOK, Places, Answers
  <2>2. CASE Running(q)
    <3>1. PICK t : t = [req[q] EXCEPT !.at = "done", !.answer = "reset"]
      OBVIOUS
    <3>2. req'[q] = t
      BY <2>2, <3>1 DEF Restart
    <3>3. /\ t \in Thread /\ t.op = req[q].op /\ t.id = req[q].id /\ t.now = req[q].now
          /\ t.left = req[q].left /\ t.at = "done" /\ t.answer = "reset"
          /\ t.boot = req[q].boot
      BY <2>1, <3>1 DEF Thread
    <3>4. QED
      BY <2>2, <3>2, <3>3
  <2>3. CASE ~Running(q)
    <3>1. req'[q] = req[q]
      BY <2>3 DEF Restart
    <3>2. req[q].at \in {"idle", "done"}
      BY <2>3 DEF Running
    <3>3. QED
      BY <2>1, <3>1, <3>2
  <2>4. QED
    BY <2>2, <2>3
<1>5. req' \in [Requests -> Thread]
  BY <1>4 DEF Restart
<1>6. TypeOK'
  BY <1>1, <1>2, <1>3, <1>5 DEF TypeOK
<1>7. ConversionsOK'
  <2>1. ASSUME NEW c \in converted
        PROVE  req'[c.id].op = "convert" /\ req'[c.id].at \in {"stat", "done"}
    <3>1. c.id \in Requests /\ req[c.id].op = "convert" /\ req[c.id].at \in {"stat", "done"}
      BY <1>1 DEF TypeOK, Export, ConversionsOK
    <3>2. req[c.id].at = "stat" => Running(c.id)
      BY DEF Running
    <3>3. QED
      BY <1>4, <3>1, <3>2
  <2>2. QED
    BY <1>1, <1>2, <2>1 DEF ConversionsOK
<1>8. ASSUME NEW q \in Requests
      PROVE  ThreadOK(q)' /\ (Retention > 0 => PruneOK(q)')
  <2>1. ThreadOK(q) /\ (Retention > 0 => PruneOK(q))
    BY DEF IInv
  <2>2. ThreadOK(q)'
    BY <1>1, <1>3, <1>4, <2>1 DEF ThreadOK, At, Running
  <2>3. Retention > 0 => PruneOK(q)'
    BY <1>1, <1>4, <2>1 DEF PruneOK, At, Expired
  <2>4. QED
    BY <2>2, <2>3
<1>9. LinksWorkUntilExpiry'
  <2>1. SUFFICES ASSUME NEW c \in converted, req'[c.id].boot = restarts'
                 PROVE  FALSE
    BY <1>1 DEF LinksWorkUntilExpiry
  <2>2. c.id \in Requests
    BY <1>1 DEF TypeOK, Export
  <2>3. req[c.id].boot = restarts' /\ req[c.id].boot < restarts'
    BY <1>3, <1>4, <2>1, <2>2
  <2>4. restarts' \in Int
    BY <1>3
  <2>5. QED
    BY <2>3, <2>4
<1>10. EntriesHaveFiles'
  BY <1>2 DEF EntriesHaveFiles
<1>11. NoFileLeaks'
  BY <1>1, <1>3, <1>4 DEF NoFileLeaks, TypeOK
<1>12. QED
  BY <1>6, <1>7, <1>8, <1>9, <1>10, <1>11 DEF IInv

LEMMA TickInv ==
    ASSUME IInv, Tick
    PROVE  IInv'
<1>1. /\ exports' = exports /\ files' = files /\ req' = req /\ converted' = converted
      /\ restarts' = restarts /\ clock' = clock + 1 /\ clock < MaxTime
      /\ TypeOK /\ clock \in 0..MaxTime
  BY DEF IInv, Tick, TypeOK
<1>2. clock' \in 0..MaxTime /\ clock \in Int /\ clock' = clock + 1
  BY <1>1, BoundAssumption
<1>3. TypeOK'
  BY <1>1, <1>2 DEF TypeOK
<1>4. \A c \in converted : c.created_at \in Int
  BY <1>1 DEF TypeOK, Export
<1>5. ConversionsOK'
  <2>1. \A c \in converted : c.created_at <= clock'
    BY <1>2, <1>4 DEF IInv, ConversionsOK
  <2>2. QED
    BY <1>1, <2>1 DEF IInv, ConversionsOK
<1>6. ASSUME NEW q \in Requests
      PROVE  ThreadOK(q)' /\ (Retention > 0 => PruneOK(q)')
  <2>1. ThreadOK(q) /\ (Retention > 0 => PruneOK(q)) /\ req[q] \in Thread
    BY <1>1 DEF IInv, TypeOK
  <2>2. req[q].now <= clock'
    BY <1>2, <2>1 DEF ThreadOK, Thread
  <2>3. ThreadOK(q)'
    BY <1>1, <2>1, <2>2 DEF ThreadOK, At, Expired
  <2>4. Retention > 0 => PruneOK(q)'
    BY <1>1, <2>1 DEF PruneOK, At, Expired
  <2>5. QED
    BY <2>3, <2>4
<1>7. LinksWorkUntilExpiry'
  <2>1. \A c \in converted : clock' - c.created_at < Retention => clock - c.created_at < Retention
    BY <1>2, <1>4, RetentionAssumption
  <2>2. QED
    BY <1>1, <2>1 DEF IInv, LinksWorkUntilExpiry, Registered
<1>8. EntriesHaveFiles' /\ NoFileLeaks'
  BY <1>1 DEF IInv, EntriesHaveFiles, Deleting, NoFileLeaks, Registered, At
<1>9. QED
  BY <1>3, <1>5, <1>6, <1>7, <1>8 DEF IInv

-----------------------------------------------------------------------------
\* The specification.

LEMMA InitIInv ==
    ASSUME Init
    PROVE  IInv
<1>1. /\ clock = 0 /\ exports = <<>> /\ files = {} /\ converted = {} /\ restarts = 0
      /\ DOMAIN exports = {}
  BY EmptyDomain DEF Init
<1>2. 0 \in 0..MaxTime /\ 0 \in 0..MaxRestarts
  BY BoundAssumption
<1>3. "idle" \in Places /\ "none" \in Answers
  BY DEF Places, Answers
<1>4. ASSUME NEW q \in Requests
      PROVE  /\ req[q] \in Thread /\ req[q].at = "idle" /\ req[q].now = 0
             /\ req[q].left = <<>> /\ req[q].answer = "none" /\ req[q].boot = 0
  <2>1. <<>> \in Seq(Export)
    OBVIOUS
  <2>2. QED
    BY <1>2, <1>3, <2>1 DEF Init, Thread
<1>5. TypeOK
  <2>1. req \in [Requests -> Thread]
    BY <1>4 DEF Init
  <2>2. QED
    BY <1>1, <1>2, <2>1 DEF TypeOK
<1>6. ConversionsOK
  BY <1>1 DEF ConversionsOK
<1>7. \A q \in Requests : ThreadOK(q) /\ PruneOK(q)
  BY <1>1, <1>4, EmptyDomain DEF ThreadOK, PruneOK, At
<1>8. LinksWorkUntilExpiry /\ EntriesHaveFiles /\ NoFileLeaks
  BY <1>1 DEF LinksWorkUntilExpiry, EntriesHaveFiles, NoFileLeaks
<1>9. QED
  BY <1>5, <1>6, <1>7, <1>8 DEF IInv

LEMMA NextIInv ==
    ASSUME IInv, [Next]_vars
    PROVE  IInv'
<1>1. CASE Tick
  BY <1>1, TickInv
<1>2. CASE Restart
  BY <1>2, RestartInv
<1>3. ASSUME NEW r \in Requests, Handle(r)
      PROVE  IInv'
  <2>1. CASE Reject(r) \/ Enter(r)
    BY <2>1, EnterInv
  <2>2. CASE PruneSnapshot(r) \/ PruneSkip(r)
    BY <2>2, LookInv
  <2>3. CASE PruneUnlink(r)
    BY <2>3, UnlinkInv
  <2>4. CASE PruneDel(r)
    BY <2>4, DelInv
  <2>5. CASE Render(r) \/ RenderFails(r)
    BY <2>5, RenderInv
  <2>6. CASE Register(r)
    BY <2>6, RegisterInv
  <2>7. CASE Stat(r) \/ Get(r) \/ Exists(r) \/ SendFile(r)
    BY <2>7, ReplyInv
  <2>8. QED
    BY <1>3, <2>1, <2>2, <2>3, <2>4, <2>5, <2>6, <2>7 DEF Handle
<1>4. CASE UNCHANGED vars
  BY <1>4 DEF vars, IInv, TypeOK, ConversionsOK, ThreadOK, PruneOK, LinksWorkUntilExpiry,
              EntriesHaveFiles, NoFileLeaks, Registered, Deleting, At, Expired
<1>5. QED
  BY <1>1, <1>2, <1>3, <1>4 DEF Next

\* Every entry and every file of the sidecar has a thread that answers for it,
\* however many conversions, downloads and prunes are under way.
THEOREM ExportInvariant == Spec => []IInv
<1>1. Init => IInv
  BY InitIInv
<1>2. IInv /\ [Next]_vars => IInv'
  BY NextIInv
<1>3. QED
  BY <1>1, <1>2, PTL DEF Spec

\* The state of the sidecar has its shape, and no file_id is in the dict twice.
THEOREM ExportTyped == Spec => []TypeOK
<1>1. IInv => TypeOK
  BY DEF IInv
<1>2. QED
  BY <1>1, ExportInvariant, PTL

\* docexport/app.py: until the process restarts, a link that convert returned
\* works for the whole retention window, whatever the threads that prune read
\* and when they go on.
THEOREM LinksWork == Spec => []LinksWorkUntilExpiry
<1>1. IInv => LinksWorkUntilExpiry
  BY DEF IInv
<1>2. QED
  BY <1>1, ExportInvariant, PTL

\* _prune_expired: an entry whose file is gone is one that a thread is about to
\* delete.
THEOREM EntriesFiled == Spec => []EntriesHaveFiles
<1>1. IInv => EntriesHaveFiles
  BY DEF IInv
<1>2. QED
  BY <1>1, ExportInvariant, PTL

\* No file is left behind by threads that prune the same entries, nor by the
\* KeyError that ends one of them: only by a conversion that fails or a restart.
THEOREM NothingLeaks == Spec => []NoFileLeaks
<1>1. IInv => NoFileLeaks
  BY DEF IInv
<1>2. QED
  BY <1>1, ExportInvariant, PTL

\* download: with a retention window that is not empty, what is served had not
\* expired when the request came in.  (With an empty one an export has expired
\* as soon as it is made, and one that is entered after the download copied the
\* dict, at the time of its reading of the clock, is served.)
THEOREM ServedFresh ==
    ASSUME Retention > 0
    PROVE  Spec => []ServedIsFresh
<1>1. ASSUME IInv
      PROVE  ServedIsFresh
  <2>1. SUFFICES ASSUME NEW r \in Requests, req[r].op = "download",
                        At(r, "send") \/ req[r].answer = "200"
                 PROVE  req[r].now - CreatedAt(req[r].id) < Retention
    BY DEF ServedIsFresh
  <2>2. PICK c \in converted : c.id = req[r].id /\ ~Expired(c, req[r].now)
    BY <1>1, <2>1 DEF IInv, PruneOK, At
  <2>3. \A d \in converted : d.id = req[r].id => d = c
    BY <1>1, <2>2 DEF IInv, ConversionsOK
  <2>4. CreatedAt(req[r].id) = c.created_at
    BY <2>2, <2>3 DEF CreatedAt
  <2>5. req[r].now \in Int /\ c.created_at \in Int
    BY <1>1, <2>2 DEF IInv, TypeOK, Thread, Export
  <2>6. QED
    BY <2>2, <2>4, <2>5, RetentionAssumption DEF Expired
<1>2. QED
  BY <1>1, ExportInvariant, PTL
=============================================================================
