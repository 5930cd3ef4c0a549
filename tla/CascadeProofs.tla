---------------------------- MODULE CascadeProofs ----------------------------
(***************************************************************************)
(* The cascade, for every set of requests, every configuration and every   *)
(* size of the budget and of the ring, in four parts.                      *)
(*                                                                         *)
(* IInv of Cascade is inductive: the discipline of dispatches, the cause   *)
(* of escalations and the stickiness of conversations follow from it.      *)
(*                                                                         *)
(* What the cascade has counted: the ring shown by /status, the totals,    *)
(* the counters of /metrics and the budget, each against what the requests *)
(* were told and have sent.  These invariants are inductive beside IInv;   *)
(* the proofs are about cardinalities, each step moving one request into   *)
(* at most one of the sets counted.                                        *)
(*                                                                         *)
(* GET /status, whatever the requests do between the locks of one reply:   *)
(* all of it holds under StatusSpec as well, and a reply errs on one side  *)
(* only.                                                                   *)
(*                                                                         *)
(* The two front doors over one cascade, whatever choice a client may put  *)
(* and whatever it is put: what IInv says of the tasks holds under         *)
(* DoorSpec as well, a chat request goes where the one choice that was     *)
(* read for it sends it, the ledgers and the counters of the tiers agree   *)
(* with both doors at work, and a conversation has one key at either.      *)
(***************************************************************************)
EXTENDS FrontDoor, Status, SequenceTheorems, FiniteSetTheorems, TLAPS

-----------------------------------------------------------------------------
\* What the building blocks of the steps do to the task they belong to.

\* Task r becomes t and no other task changes.
Becomes(r, t) ==
    /\ req' \in [Requests -> Task]
    /\ req'[r] = t
    /\ \A q \in Requests \ {r} : req'[q] = req[q]

\* The record of task r with some fields replaced.
With(r, at, trigger, sent, result) ==
    [at |-> at, key |-> req[r].key, trigger |-> trigger, sent |-> sent,
     result |-> result, afterCloud |-> req[r].afterCloud]

\* Tuples of messages are sequences of messages, and Append makes the longer
\* tuple of the shorter.
LEMMA Tuples ==
    ASSUME NEW m, NEW n
    PROVE  /\ <<>> # <<m>> /\ <<>> # <<m, n>>
           /\ Append(<<>>, m) = <<m>> /\ Append(<<m>>, n) = <<m, n>>
           /\ Len(<<m>>) = 1 /\ Len(<<m, n>>) = 2
           /\ <<m>>[1] = m /\ <<m, n>>[1] = m /\ <<m, n>>[2] = n
<1>1. /\ <<>> # <<m>> /\ <<>> # <<m, n>>
      /\ Append(<<>>, m) = <<m>>
      /\ Len(<<m>>) = 1 /\ Len(<<m, n>>) = 2
      /\ <<m>>[1] = m /\ <<m, n>>[1] = m /\ <<m, n>>[2] = n
  OBVIOUS
<1>2. Append(<<m>>, n) = <<m, n>>
  <2>1. <<m>> \in Seq({m, n}) /\ <<m, n>> \in Seq({m, n})
    OBVIOUS
  <2>2. PICK s : s = Append(<<m>>, n)
    OBVIOUS
  <2>3. PICK t : t = <<m, n>>
    OBVIOUS
  <2>4. s \in Seq({m, n}) /\ Len(s) = 2 /\ s[1] = m /\ s[2] = n
    BY <2>1, <2>2, AppendProperties
  <2>5. t \in Seq({m, n}) /\ Len(t) = 2 /\ t[1] = m /\ t[2] = n
    BY <2>1, <2>3
  <2>6. s = t
    BY <2>4, <2>5, SeqEqual
  <2>7. QED
    BY <2>2, <2>3, <2>6
<1>3. QED
  BY <1>1, <1>2

\* And so does concatenation.
LEMMA TupleConcat ==
    ASSUME NEW m, NEW n
    PROVE  <<>> \o <<n>> = <<n>> /\ <<m>> \o <<n>> = <<m, n>>
<1>1. <<m>> \in Seq({m, n}) /\ <<n>> \in Seq({m, n}) /\ n \in {m, n}
  OBVIOUS
<1>2. <<>> \o <<n>> = <<n>>
  BY <1>1, ConcatEmptySeq
<1>3. Append(<<m>>, n) = <<m>> \o <<n>>
  BY <1>1, AppendIsConcat
<1>4. QED
  BY <1>2, <1>3, Tuples, Zenon

\* A field of a task has the type of the field.
LEMMA Fields ==
    ASSUME TypeOK, NEW r \in Requests
    PROVE  /\ req[r] \in Task
           /\ req[r].at \in Places
           /\ req[r].key \in ConversationKeys \cup {NoKey}
           /\ req[r].trigger \in Triggers \cup {"none"}
           /\ req[r].sent \in Seq(Messages)
           /\ req[r].result \in Results
           /\ req[r].afterCloud \in BOOLEAN
BY DEF TypeOK, Task

\* A step that replaces the record of r replaces nothing else.
LEMMA TaskStep ==
    ASSUME TypeOK, NEW r \in Requests, NEW t \in Task, req' = [req EXCEPT ![r] = t]
    PROVE  Becomes(r, t)
BY DEF TypeOK, Becomes

\* A record with fields of the right types is a task.
LEMMA WithIsTask ==
    ASSUME TypeOK, NEW r \in Requests, NEW at \in Places,
           NEW trigger \in Triggers \cup {"none"}, NEW sent \in Seq(Messages),
           NEW result \in Results
    PROVE  With(r, at, trigger, sent, result) \in Task
BY Fields DEF With, Task

\* Goto moves a task and changes nothing else of it.
LEMMA GotoFacts ==
    ASSUME TypeOK, NEW r \in Requests, NEW place \in Places, Goto(r, place)
    PROVE  Becomes(r, With(r, place, req[r].trigger, req[r].sent, req[r].result))
<1>1. [req[r] EXCEPT !.at = place] = With(r, place, req[r].trigger, req[r].sent, req[r].result)
  BY Fields DEF Task, With
<1>2. QED
  BY <1>1, Fields, WithIsTask, TaskStep DEF Goto

\* A second field replaced: the two replacements, one after the other.
LEMMA AtAndResult ==
    ASSUME TypeOK, NEW r \in Requests, NEW place \in Places, NEW result \in Results
    PROVE  [req[r] EXCEPT !.at = place, !.result = result]
             = With(r, place, req[r].trigger, req[r].sent, result)
<1>1. PICK u : u = [req[r] EXCEPT !.at = place]
  OBVIOUS
<1>2. u \in Task /\ u = With(r, place, req[r].trigger, req[r].sent, req[r].result)
  BY <1>1, Fields DEF Task, With
<1>3. [u EXCEPT !.result = result] = With(r, place, req[r].trigger, req[r].sent, result)
  BY <1>2 DEF Task, With
<1>4. [req[r] EXCEPT !.at = place, !.result = result] = [u EXCEPT !.result = result]
  BY <1>1, Zenon
<1>5. QED
  BY <1>3, <1>4, Zenon

\* The same for the place and the trigger.
LEMMA AtAndTrigger ==
    ASSUME TypeOK, NEW r \in Requests, NEW place \in Places, NEW trigger \in Triggers
    PROVE  [req[r] EXCEPT !.at = place, !.trigger = trigger]
             = With(r, place, trigger, req[r].sent, req[r].result)
<1>1. PICK u : u = [req[r] EXCEPT !.at = place]
  OBVIOUS
<1>2. u \in Task /\ u = With(r, place, req[r].trigger, req[r].sent, req[r].result)
  BY <1>1, Fields DEF Task, With
<1>3. [u EXCEPT !.trigger = trigger] = With(r, place, trigger, req[r].sent, req[r].result)
  BY <1>2, SMTT(30) DEF Task, With
<1>4. [req[r] EXCEPT !.at = place, !.trigger = trigger] = [u EXCEPT !.trigger = trigger]
  BY <1>1, Zenon
<1>5. QED
  BY <1>3, <1>4, Zenon

\* The same for the place and what was sent.
LEMMA AtAndSent ==
    ASSUME TypeOK, NEW r \in Requests, NEW place \in Places, NEW sent \in Seq(Messages)
    PROVE  [req[r] EXCEPT !.at = place, !.sent = sent]
             = With(r, place, req[r].trigger, sent, req[r].result)
<1>1. PICK u : u = [req[r] EXCEPT !.at = place]
  OBVIOUS
<1>2. u \in Task /\ u = With(r, place, req[r].trigger, req[r].sent, req[r].result)
  BY <1>1, Fields DEF Task, With
<1>3. [u EXCEPT !.sent = sent] = With(r, place, req[r].trigger, sent, req[r].result)
  BY <1>2 DEF Task, With
<1>4. [req[r] EXCEPT !.at = place, !.sent = sent] = [u EXCEPT !.sent = sent]
  BY <1>1, Zenon
<1>5. QED
  BY <1>3, <1>4, Zenon

\* Respond ends a task with a result.
LEMMA RespondFacts ==
    ASSUME TypeOK, NEW r \in Requests, NEW result \in Results, Respond(r, result)
    PROVE  Becomes(r, With(r, "done", req[r].trigger, req[r].sent, result))
<1> DEFINE t == With(r, "done", req[r].trigger, req[r].sent, result)
<1>1. "done" \in Places
  BY DEF Places
<1>2. [req[r] EXCEPT !.at = "done", !.result = result] = t
  BY <1>1, AtAndResult
<1>3. req' = [req EXCEPT ![r] = t]
  BY <1>2, Zenon DEF Respond
<1>4. t \in Task
  BY <1>1, Fields, WithIsTask
<1> HIDE DEF t
<1>5. QED
  BY <1>3, <1>4, TaskStep DEF t

\* Escalate sends a task to the budget with a trigger.
LEMMA EscalateFacts ==
    ASSUME TypeOK, NEW r \in Requests, NEW trigger \in Triggers, Escalate(r, trigger)
    PROVE  Becomes(r, With(r, "escalate", trigger, req[r].sent, req[r].result))
<1> DEFINE t == With(r, "escalate", trigger, req[r].sent, req[r].result)
<1>1. "escalate" \in Places
  BY DEF Places
<1>2. [req[r] EXCEPT !.at = "escalate", !.trigger = trigger] = t
  BY <1>1, AtAndTrigger
<1>3. req' = [req EXCEPT ![r] = t]
  BY <1>2, Zenon DEF Escalate
<1>4. t \in Task
  BY <1>1, Fields, WithIsTask
<1> HIDE DEF t
<1>5. QED
  BY <1>3, <1>4, TaskStep DEF t

\* Send appends one message to what the task has sent.
LEMMA SendFacts ==
    ASSUME TypeOK, NEW r \in Requests, NEW p \in Providers, NEW note \in Notes,
           NEW place \in Places, Send(r, p, note, place)
    PROVE  Becomes(r, With(r, place, req[r].trigger,
                           Append(req[r].sent, [to |-> p, note |-> note]), req[r].result))
<1> DEFINE sent == Append(req[r].sent, [to |-> p, note |-> note])
           t == With(r, place, req[r].trigger, sent, req[r].result)
<1>1. sent \in Seq(Messages)
  BY Fields, AppendProperties DEF Messages
<1>2. [req[r] EXCEPT !.at = place, !.sent = sent] = t
  BY <1>1, AtAndSent, Zenon
<1>3. req' = [req EXCEPT ![r] = [req[r] EXCEPT !.at = place, !.sent = sent]]
  BY Zenon DEF Send
<1>4. req' = [req EXCEPT ![r] = t]
  BY <1>2, <1>3, Zenon
<1>5. t \in Task
  BY <1>1, Fields, WithIsTask
<1> HIDE DEF t
<1>6. QED
  BY <1>4, <1>5, TaskStep DEF t

\* Enter gives a task its key, and notes whether its conversation has been to
\* the cloud.
LEMMA EnterFacts ==
    ASSUME TypeOK, NEW r \in Requests, NEW k \in ConversationKeys, Enter(r, k)
    PROVE  Becomes(r, [at |-> "check_sticky", key |-> k, trigger |-> req[r].trigger,
                       sent |-> req[r].sent, result |-> req[r].result,
                       afterCloud |-> k # NoKey /\ \E q \in Requests :
                            req[q].key = k /\ WentToCloud(q)])
<1> DEFINE b == k # NoKey /\ \E q \in Requests : req[q].key = k /\ WentToCloud(q)
           t == [at |-> "check_sticky", key |-> k, trigger |-> req[r].trigger,
                 sent |-> req[r].sent, result |-> req[r].result, afterCloud |-> b]
<1>1. PICK u : u = [req[r] EXCEPT !.at = "check_sticky"]
  OBVIOUS
<1>2. PICK v : v = [u EXCEPT !.key = k]
  OBVIOUS
<1>3. b \in BOOLEAN
  OBVIOUS
<1> HIDE DEF b
<1>4. u \in Task /\ u = With(r, "check_sticky", req[r].trigger, req[r].sent, req[r].result)
  BY <1>1, Fields DEF Task, With, Places
<1>5. /\ v \in Task /\ v.at = "check_sticky" /\ v.key = k
      /\ v.trigger = req[r].trigger /\ v.sent = req[r].sent /\ v.result = req[r].result
  BY <1>2, <1>4 DEF Task, With
<1>6. t \in Task
  BY <1>3, Fields DEF Task, Places
<1>7. [v EXCEPT !.afterCloud = b] = t
  BY <1>3, <1>5 DEF Task
<1>8. req' = [req EXCEPT ![r] = [v EXCEPT !.afterCloud = b]]
  BY <1>1, <1>2, Zenon DEF Enter, b
<1>9. req' = [req EXCEPT ![r] = t]
  BY <1>7, <1>8, Zenon
<1> HIDE DEF t
<1>10. Becomes(r, t)
  BY <1>6, <1>9, TaskStep
<1>11. QED
  BY <1>10, Zenon DEF t, b

-----------------------------------------------------------------------------
\* Every counter of the registry stays a counter.

\* Registry m with the field of the requests replaced, and so on.
LEMMA CountersUpdate ==
    ASSUME NEW m \in Counters
    PROVE  /\ \A x \in [Providers -> [Outcomes -> Nat]] :
                [m EXCEPT !.requests = x] =
                    [requests |-> x, tiers |-> m.tiers,
                     escalations |-> m.escalations, denied |-> m.denied]
           /\ \A x \in [Tiers -> Nat] :
                [m EXCEPT !.tiers = x] =
                    [requests |-> m.requests, tiers |-> x,
                     escalations |-> m.escalations, denied |-> m.denied]
           /\ \A x \in [Triggers -> Nat] :
                [m EXCEPT !.escalations = x] =
                    [requests |-> m.requests, tiers |-> m.tiers,
                     escalations |-> x, denied |-> m.denied]
           /\ \A x \in Nat :
                [m EXCEPT !.denied = x] =
                    [requests |-> m.requests, tiers |-> m.tiers,
                     escalations |-> m.escalations, denied |-> x]
<1>1. ASSUME NEW x \in [Providers -> [Outcomes -> Nat]]
      PROVE  [m EXCEPT !.requests = x] =
                    [requests |-> x, tiers |-> m.tiers,
                     escalations |-> m.escalations, denied |-> m.denied]
  BY DEF Counters
<1>2. ASSUME NEW x \in [Tiers -> Nat]
      PROVE  [m EXCEPT !.tiers = x] =
                    [requests |-> m.requests, tiers |-> x,
                     escalations |-> m.escalations, denied |-> m.denied]
  BY DEF Counters
<1>3. ASSUME NEW x \in [Triggers -> Nat]
      PROVE  [m EXCEPT !.escalations = x] =
                    [requests |-> m.requests, tiers |-> m.tiers,
                     escalations |-> x, denied |-> m.denied]
  BY DEF Counters
<1>4. ASSUME NEW x \in Nat
      PROVE  [m EXCEPT !.denied = x] =
                    [requests |-> m.requests, tiers |-> m.tiers,
                     escalations |-> m.escalations, denied |-> x]
  BY DEF Counters
<1>5. QED
  BY <1>1, <1>2, <1>3, <1>4, Zenon

\* One exchange more under a provider and an outcome.
LEMMA ObserveFacts ==
    ASSUME TypeOK, NEW p \in Providers, NEW o \in Outcomes, Observe(p, o)
    PROVE  /\ metrics' \in Counters
           /\ metrics'.requests =
                [metrics.requests EXCEPT ![p] = [metrics.requests[p] EXCEPT ![o] = @ + 1]]
           /\ metrics'.escalations = metrics.escalations
           /\ metrics'.denied = metrics.denied
           /\ metrics'.tiers = metrics.tiers
<1> DEFINE x == [metrics.requests EXCEPT ![p] = [metrics.requests[p] EXCEPT ![o] = @ + 1]]
<1>1. metrics \in Counters
  BY DEF TypeOK
<1>2. /\ metrics.requests \in [Providers -> [Outcomes -> Nat]]
      /\ metrics.tiers \in [Tiers -> Nat] /\ metrics.escalations \in [Triggers -> Nat]
      /\ metrics.denied \in Nat
  BY <1>1 DEF Counters
<1>3. x \in [Providers -> [Outcomes -> Nat]]
  BY <1>2
<1>4. metrics' = [metrics EXCEPT !.requests = x]
  BY Zenon DEF Observe
<1> HIDE DEF x
<1>5. metrics' = [requests |-> x, tiers |-> metrics.tiers,
                  escalations |-> metrics.escalations, denied |-> metrics.denied]
  BY <1>1, <1>3, <1>4, CountersUpdate, Zenon
<1>6. /\ metrics' \in Counters /\ metrics'.requests = x
      /\ metrics'.escalations = metrics.escalations /\ metrics'.denied = metrics.denied
      /\ metrics'.tiers = metrics.tiers
  BY <1>2, <1>3, <1>5 DEF Counters
<1>7. QED
  BY <1>6 DEF x

\* One dispatch more to a tier.
LEMMA TierFacts ==
    ASSUME NEW m \in Counters, NEW t \in Tiers,
           NEW n, n = [m EXCEPT !.tiers[t] = @ + 1]
    PROVE  /\ n \in Counters
           /\ n.requests = m.requests
           /\ n.escalations = m.escalations
           /\ n.denied = m.denied
<1> DEFINE x == [m.tiers EXCEPT ![t] = @ + 1]
<1>1. /\ m.requests \in [Providers -> [Outcomes -> Nat]]
      /\ m.tiers \in [Tiers -> Nat] /\ m.escalations \in [Triggers -> Nat]
      /\ m.denied \in Nat
  BY DEF Counters
<1>2. x \in [Tiers -> Nat]
  BY <1>1
<1>3. n = [m EXCEPT !.tiers = x]
  BY Zenon
<1> HIDE DEF x
<1>4. n = [requests |-> m.requests, tiers |-> x,
           escalations |-> m.escalations, denied |-> m.denied]
  BY <1>2, <1>3, CountersUpdate, Zenon
<1>5. QED
  BY <1>1, <1>2, <1>4 DEF Counters

\* ... and it is that tier's.
LEMMA TierTally ==
    ASSUME NEW m \in Counters, NEW t \in Tiers,
           NEW n, n = [m EXCEPT !.tiers[t] = @ + 1]
    PROVE  n.tiers = [m.tiers EXCEPT ![t] = @ + 1]
<1> DEFINE x == [m.tiers EXCEPT ![t] = @ + 1]
<1>1. m.tiers \in [Tiers -> Nat]
  BY DEF Counters
<1>2. x \in [Tiers -> Nat]
  BY <1>1
<1>3. n = [m EXCEPT !.tiers = x]
  BY Zenon
<1> HIDE DEF x
<1>4. n = [requests |-> m.requests, tiers |-> x,
           escalations |-> m.escalations, denied |-> m.denied]
  BY <1>2, <1>3, CountersUpdate, Zenon
<1>5. n.tiers = x
  BY <1>4
<1>6. QED
  BY <1>5 DEF x

\* The counters of a grant.
LEMMA GrantCounters ==
    ASSUME TypeOK, NEW t \in Triggers,
           metrics' = [metrics EXCEPT !.escalations[t] = @ + 1, !.tiers["cloud"] = @ + 1]
    PROVE  /\ metrics' \in Counters
           /\ metrics'.requests = metrics.requests
           /\ metrics'.denied = metrics.denied
           /\ metrics'.escalations = [metrics.escalations EXCEPT ![t] = @ + 1]
           /\ metrics'.tiers = [metrics.tiers EXCEPT !["cloud"] = @ + 1]
<1> DEFINE x == [metrics.escalations EXCEPT ![t] = @ + 1]
<1>1. PICK m : m = [metrics EXCEPT !.escalations = x]
  OBVIOUS
<1>2. metrics' = [m EXCEPT !.tiers["cloud"] = @ + 1]
  BY <1>1, Zenon
<1>3. metrics \in Counters
  BY DEF TypeOK
<1>4. x \in [Triggers -> Nat]
  BY <1>3 DEF Counters
<1> HIDE DEF x
<1>5. m = [requests |-> metrics.requests, tiers |-> metrics.tiers,
           escalations |-> x, denied |-> metrics.denied]
  BY <1>1, <1>3, <1>4, CountersUpdate, Zenon
<1>6. /\ m \in Counters /\ m.requests = metrics.requests /\ m.denied = metrics.denied
      /\ m.escalations = x /\ m.tiers = metrics.tiers
  BY <1>3, <1>4, <1>5 DEF Counters
<1>7. "cloud" \in Tiers
  BY DEF Tiers
<1>8. /\ metrics' \in Counters /\ metrics'.requests = m.requests
      /\ metrics'.escalations = m.escalations /\ metrics'.denied = m.denied
  BY <1>2, <1>6, <1>7, TierFacts, Zenon
<1>9. metrics'.tiers = [m.tiers EXCEPT !["cloud"] = @ + 1]
  BY <1>2, <1>6, <1>7, TierTally, ZenonT(40)
<1>10. QED
  BY <1>6, <1>8, <1>9 DEF x

\* The counters of a denial.
LEMMA DenialCounters ==
    ASSUME TypeOK, metrics' = DenialCounted
    PROVE  /\ metrics' \in Counters
           /\ metrics'.requests = metrics.requests
           /\ metrics'.escalations = metrics.escalations
           /\ metrics'.denied = metrics.denied + 1
           /\ metrics'.tiers = [metrics.tiers EXCEPT !["local"] = @ + 1]
<1>1. PICK m : m = [metrics EXCEPT !.denied = metrics.denied + 1]
  OBVIOUS
<1>2. metrics' = [m EXCEPT !.tiers["local"] = @ + 1]
  BY <1>1, Zenon DEF DenialCounted
<1>3. metrics \in Counters /\ metrics.denied + 1 \in Nat
  BY DEF TypeOK, Counters
<1>4. m = [requests |-> metrics.requests, tiers |-> metrics.tiers,
           escalations |-> metrics.escalations, denied |-> metrics.denied + 1]
  BY <1>1, <1>3, CountersUpdate, Zenon
<1>5. /\ m \in Counters /\ m.requests = metrics.requests
      /\ m.escalations = metrics.escalations /\ m.denied = metrics.denied + 1
      /\ m.tiers = metrics.tiers
  BY <1>3, <1>4 DEF Counters
<1>6. "local" \in Tiers
  BY DEF Tiers
<1>7. /\ metrics' \in Counters /\ metrics'.requests = m.requests
      /\ metrics'.escalations = m.escalations /\ metrics'.denied = m.denied
  BY <1>2, <1>5, <1>6, TierFacts, Zenon
<1>8. metrics'.tiers = [m.tiers EXCEPT !["local"] = @ + 1]
  BY <1>2, <1>5, <1>6, TierTally, ZenonT(40)
<1>9. QED
  BY <1>5, <1>7, <1>8

-----------------------------------------------------------------------------
\* A ring that gave up its oldest record, or did not have to, is a ring.
LEMMA KeptTyped ==
    ASSUME NEW records \in Seq(Event)
    PROVE  Kept(records) \in Seq(Event)
<1>1. CASE Len(records) = HistoryCap
  <2>1. records # <<>>
    BY <1>1, HistoryCapAssumption, EmptySeq
  <2>2. QED
    BY <1>1, <2>1, HeadTailProperties DEF Kept
<1>2. CASE Len(records) # HistoryCap
  BY <1>2 DEF Kept
<1>3. QED
  BY <1>1, <1>2

\* record_escalation appends to the ring and to the log, and counts the record
\* in one of the two totals.
LEMMA RecordedFacts ==
    ASSUME TypeOK, NEW trigger \in Triggers \cup {"budget_denied"},
           NEW key \in ConversationKeys \cup {NoKey}, Recorded(trigger, key)
    PROVE  /\ history' \in Histories
           /\ log' \in Seq(Event)
           /\ \E e \in Event :
                history'.records = Append(Kept(history.records), e) /\ log' = Append(log, e)
           /\ history'.total_escalations = history.total_escalations
                + IF trigger = "budget_denied" THEN 0 ELSE 1
           /\ history'.total_budget_denied = history.total_budget_denied
                + IF trigger = "budget_denied" THEN 1 ELSE 0
<1> DEFINE e == [trigger |-> trigger, key |-> key]
           records == Append(Kept(history.records), e)
<1>1. e \in Event
  BY DEF Event
<1>2. /\ history \in Histories
      /\ history.records \in Seq(Event)
      /\ history.total_escalations \in Nat /\ history.total_budget_denied \in Nat
  BY DEF TypeOK, Histories
<1>3. log' = Append(log, e) /\ log' \in Seq(Event)
  BY <1>1, AppendProperties DEF Recorded, TypeOK
<1>4. records \in Seq(Event)
  BY <1>1, <1>2, KeptTyped, AppendProperties
<1>5. PICK h : h = [history EXCEPT !.records = records]
  OBVIOUS
<1>6. history' = [h EXCEPT ![Total(trigger)] = history[Total(trigger)] + 1]
  BY <1>5, Zenon DEF Recorded
<1> HIDE DEF records, e
<1>8. /\ h \in Histories /\ h.records = records
      /\ h.total_escalations = history.total_escalations
      /\ h.total_budget_denied = history.total_budget_denied
  BY <1>2, <1>4, <1>5 DEF Histories
<1>9. CASE trigger = "budget_denied"
  <2>1. history' = [h EXCEPT !.total_budget_denied = history.total_budget_denied + 1]
    BY <1>6, <1>9 DEF Total
  <2>2. /\ history' \in Histories /\ history'.records = records
        /\ history'.total_escalations = h.total_escalations
        /\ history'.total_budget_denied = h.total_budget_denied + 1
    BY <1>2, <1>8, <2>1 DEF Histories
  <2>3. QED
    BY <1>1, <1>2, <1>3, <1>8, <1>9, <2>2 DEF records
<1>10. CASE trigger # "budget_denied"
  <2>1. history' = [h EXCEPT !.total_escalations = history.total_escalations + 1]
    BY <1>6, <1>10 DEF Total
  <2>2. /\ history' \in Histories /\ history'.records = records
        /\ history'.total_escalations = h.total_escalations + 1
        /\ history'.total_budget_denied = h.total_budget_denied
    BY <1>2, <1>8, <2>1 DEF Histories
  <2>3. QED
    BY <1>1, <1>2, <1>3, <1>8, <1>10, <2>2 DEF records
<1>11. QED
  BY <1>9, <1>10

-----------------------------------------------------------------------------
\* What one task does leaves the invariant of the others alone: the sticky map
\* only grows, and a grant is never taken back.
LEMMA OthersKept ==
    ASSUME IInv, NEW r \in Requests, NEW t, Becomes(r, t), TypeOK', cfg' = cfg,
           sticky \subseteq sticky',
           \A q \in Requests \ {r} : answer'[q] = answer[q],
           Granted(r) => Granted(r)' /\ t.key = req[r].key,
           \A k \in sticky' \ sticky : t.key = k /\ Granted(r)',
           PlaceOK(r)', SentOK(r)', CauseOK(r)', MarkOK(r)'
    PROVE  IInv'
<1>1. req'[r] = t /\ \A q \in Requests \ {r} : req'[q] = req[q]
  BY DEF Becomes
<1>2. \A q \in Requests : Granted(q) => Granted(q)' /\ req'[q].key = req[q].key
  BY <1>1 DEF Granted
<1>3. SUFFICES ASSUME NEW q \in Requests \ {r}
               PROVE  PlaceOK(q)' /\ SentOK(q)' /\ CauseOK(q)' /\ MarkOK(q)'
  <2>1. StickyByGrant'
    BY <1>1, <1>2 DEF IInv, StickyByGrant
  <2>2. QED
    BY <1>3, <2>1 DEF IInv, TaskInv
<1>4. PlaceOK(q) /\ SentOK(q) /\ CauseOK(q) /\ MarkOK(q)
  BY DEF IInv, TaskInv
<1>5. req'[q] = req[q] /\ answer'[q] = answer[q]
  BY <1>1
<1>6. PlaceOK(q)'
  BY <1>4, <1>5 DEF PlaceOK, At, Granted, Denied
<1>7. SentOK(q)'
  BY <1>4, <1>5 DEF SentOK, Granted, Denied
<1>8. CauseOK(q)'
  BY <1>2, <1>4, <1>5 DEF CauseOK
<1>9. MarkOK(q)'
  BY <1>4, <1>5 DEF MarkOK, HasSentTo, At, Granted
<1>10. QED
  BY <1>6, <1>7, <1>8, <1>9

\* The same for a step that changes nothing shared but the counters.
LEMMA QuietStep ==
    ASSUME IInv, NEW r \in Requests, NEW t, Becomes(r, t), t.key = req[r].key,
           UNCHANGED <<cfg, shared>>, metrics' \in Counters,
           PlaceOK(r)', SentOK(r)', CauseOK(r)', MarkOK(r)'
    PROVE  IInv'
<1>1. /\ cfg' = cfg /\ sticky' = sticky /\ history' = history /\ used' = used
      /\ answer' = answer /\ log' = log
  BY DEF shared
<1>2. TypeOK'
  BY <1>1 DEF IInv, TypeOK, Becomes
<1>3. QED
  BY <1>1, <1>2, OthersKept DEF Granted

\* A task that ends keeps what it has sent and been told; it may not end where
\* something is still owed to the others.
LEMMA RespondInv ==
    ASSUME IInv, NEW r \in Requests, NEW result \in Results, Respond(r, result),
           UNCHANGED <<cfg, shared>>, metrics' \in Counters,
           ~At(r, "reserved"), ~At(r, "check_sticky")
    PROVE  IInv'
<1> DEFINE t == With(r, "done", req[r].trigger, req[r].sent, result)
<1>1. Becomes(r, t)
  BY RespondFacts DEF IInv
<1>2. /\ cfg' = cfg /\ sticky' = sticky /\ answer' = answer
  BY DEF shared
<1>3. /\ req'[r].at = "done" /\ req'[r].key = req[r].key /\ req'[r].trigger = req[r].trigger
      /\ req'[r].sent = req[r].sent /\ req'[r].afterCloud = req[r].afterCloud
      /\ \A q \in Requests \ {r} : req'[q] = req[q]
  BY <1>1 DEF Becomes, With
<1>4. PlaceOK(r) /\ SentOK(r) /\ CauseOK(r) /\ MarkOK(r)
  BY DEF IInv, TaskInv
<1>5. PlaceOK(r)'
  BY <1>2, <1>3, <1>4 DEF PlaceOK, At, Granted, Denied, Fresh, Trying, Escalating, Forwarding
<1>6. SentOK(r)'
  BY <1>2, <1>3, <1>4 DEF SentOK, Granted, Denied
<1>7. CauseOK(r)'
  BY <1>2, <1>3, <1>4 DEF CauseOK, Granted
<1>8. MarkOK(r)'
  BY <1>2, <1>3, <1>4 DEF MarkOK, HasSentTo, At, Granted
<1>9. t.key = req[r].key
  BY DEF With
<1> HIDE DEF t
<1>10. QED
  BY <1>1, <1>5, <1>6, <1>7, <1>8, <1>9, QuietStep

\* A task that only moves, from one wait to the next.
LEMMA GotoInv ==
    ASSUME IInv, NEW r \in Requests, NEW place \in Places, Goto(r, place),
           UNCHANGED <<cfg, shared>>, metrics' \in Counters,
           \/ At(r, "check_sticky") /\ place = "attempt" /\ ~req[r].afterCloud
           \/ At(r, "awaiting_attempt") /\ place \in {"reading_error", "reading_attempt"}
           \/ At(r, "awaiting_forward") /\ place = "reading_forward_error"
    PROVE  IInv'
<1> DEFINE t == With(r, place, req[r].trigger, req[r].sent, req[r].result)
<1>1. Becomes(r, t)
  BY GotoFacts DEF IInv
<1>2. /\ cfg' = cfg /\ sticky' = sticky /\ answer' = answer
  BY DEF shared
<1>3. /\ req'[r].at = place /\ req'[r].key = req[r].key /\ req'[r].trigger = req[r].trigger
      /\ req'[r].sent = req[r].sent /\ req'[r].afterCloud = req[r].afterCloud
      /\ req'[r].result = req[r].result
      /\ \A q \in Requests \ {r} : req'[q] = req[q]
  BY <1>1 DEF Becomes, With
<1>4. PlaceOK(r) /\ SentOK(r) /\ CauseOK(r) /\ MarkOK(r)
  BY DEF IInv, TaskInv
<1>5. PlaceOK(r)'
  BY <1>2, <1>3, <1>4 DEF PlaceOK, At, Granted, Denied, Fresh, Trying, Escalating, Forwarding
<1>6. SentOK(r)'
  BY <1>2, <1>3, <1>4 DEF SentOK, Granted, Denied
<1>7. CauseOK(r)'
  BY <1>2, <1>3, <1>4 DEF CauseOK, Granted
<1>8. MarkOK(r)'
  BY <1>2, <1>3, <1>4 DEF MarkOK, HasSentTo, At, Granted
<1>9. t.key = req[r].key
  BY DEF With
<1> HIDE DEF t
<1>10. QED
  BY <1>1, <1>5, <1>6, <1>7, <1>8, <1>9, QuietStep

\* A task escalates with a cause, before it has asked anything of the budget.
LEMMA EscalateInv ==
    ASSUME IInv, NEW r \in Requests, NEW trigger \in Triggers, Escalate(r, trigger),
           UNCHANGED <<cfg, shared>>, metrics' \in Counters,
           \/ At(r, "check_sticky") /\ trigger = "sticky" /\ req[r].key \in sticky
           \/ At(r, "attempt") /\ trigger = "fail_mode" /\ cfg.failMode = "cloud"
           \/ req[r].at \in Trying /\ trigger = "fail_mode" /\ cfg.failMode = "cloud"
           \/ req[r].at \in Trying /\ trigger = "sentinel"
    PROVE  IInv'
<1> DEFINE t == With(r, "escalate", trigger, req[r].sent, req[r].result)
<1>1. Becomes(r, t)
  BY EscalateFacts DEF IInv
<1>2. /\ cfg' = cfg /\ sticky' = sticky /\ answer' = answer
  BY DEF shared
<1>3. /\ req'[r].at = "escalate" /\ req'[r].key = req[r].key /\ req'[r].trigger = trigger
      /\ req'[r].sent = req[r].sent /\ req'[r].afterCloud = req[r].afterCloud
      /\ req'[r].result = req[r].result
      /\ \A q \in Requests \ {r} : req'[q] = req[q]
  BY <1>1 DEF Becomes, With
<1>4. PlaceOK(r) /\ SentOK(r) /\ CauseOK(r) /\ MarkOK(r) /\ StickyByGrant
  BY DEF IInv, TaskInv
<1>5. /\ answer[r] = "none" /\ req[r].trigger = "none" /\ req[r].result = "none"
      /\ req[r].sent = IF req[r].at \in Trying THEN <<Instructed>> ELSE <<>>
      /\ ~At(r, "idle")
      /\ req[r].afterCloud => At(r, "check_sticky")
  BY <1>4 DEF PlaceOK, MarkOK, At, Fresh, Trying
<1>6. PlaceOK(r)'
  BY <1>2, <1>3, <1>5 DEF PlaceOK, At, Granted, Denied, Fresh, Trying, Escalating, Forwarding
<1>7. SentOK(r)'
  BY <1>2, <1>3, <1>5 DEF SentOK, Granted, Denied, Trying, At
<1>8. CauseOK(r)'
  <2>1. trigger = "sentinel" => req[r].sent # <<>> /\ req[r].sent[1] = Instructed
    BY <1>5, Tuples DEF At
  <2>2. trigger = "sticky" =>
            \E q \in Requests \ {r} : req[q].key = req[r].key /\ Granted(q)
    BY <1>4, <1>5 DEF StickyByGrant, Granted
  <2>3. trigger = "fail_mode" => cfg.failMode = "cloud"
    OBVIOUS
  <2>4. QED
    BY <1>2, <1>3, <2>1, <2>2, <2>3 DEF CauseOK, Granted
<1>9. MarkOK(r)'
  BY <1>2, <1>3, <1>4, <1>5 DEF MarkOK, HasSentTo, At, Granted, Trying
<1>10. t.key = req[r].key
  BY DEF With
<1> HIDE DEF t
<1>11. QED
  BY <1>1, <1>6, <1>7, <1>8, <1>9, <1>10, QuietStep

\* What a task sends, and when: the attempt first, then at most one message
\* more, which the budget's answer chooses.
LEMMA SendInv ==
    ASSUME IInv, NEW r \in Requests, NEW p \in Providers, NEW note \in Notes,
           NEW place \in Places, Send(r, p, note, place),
           UNCHANGED <<cfg, shared>>, metrics' \in Counters,
           \/ At(r, "idle") /\ p = "named" /\ note = "none" /\ place = "awaiting_forward"
           \/ At(r, "attempt") /\ p = "local" /\ note = "instruction" /\ place = "awaiting_attempt"
           \/ At(r, "count_grant") /\ p = "cloud" /\ note = "none" /\ place = "awaiting_forward"
           \/ At(r, "count_denial") /\ p = "local" /\ note = "unavailable"
                /\ place = "awaiting_forward"
    PROVE  IInv'
<1> DEFINE m == [to |-> p, note |-> note]
           t == With(r, place, req[r].trigger, Append(req[r].sent, m), req[r].result)
<1>0. <<m>> # <<>> /\ <<Instructed, m>> # <<>> /\ <<Instructed, m>>[1] = Instructed
  BY Tuples
<1>1. Becomes(r, t)
  BY SendFacts DEF IInv
<1>2. /\ cfg' = cfg /\ sticky' = sticky /\ answer' = answer
  BY DEF shared
<1>3. /\ req'[r].at = place /\ req'[r].key = req[r].key /\ req'[r].trigger = req[r].trigger
      /\ req'[r].sent = Append(req[r].sent, m) /\ req'[r].afterCloud = req[r].afterCloud
      /\ req'[r].result = req[r].result
      /\ \A q \in Requests \ {r} : req'[q] = req[q]
  BY <1>1 DEF Becomes, With
<1>4. PlaceOK(r) /\ SentOK(r) /\ CauseOK(r) /\ MarkOK(r)
  BY DEF IInv, TaskInv
<1>5. /\ At(r, "idle") => /\ m = Copy("named") /\ req[r].sent = <<>>
                          /\ req[r].trigger = "none" /\ answer[r] = "none"
      /\ At(r, "attempt") => /\ m = Instructed /\ req[r].sent = <<>>
                             /\ req[r].trigger = "none" /\ answer[r] = "none"
      /\ At(r, "count_grant") => /\ m = Copy("cloud") /\ Granted(r)
                                 /\ req[r].sent \in {<<>>, <<Instructed>>}
      /\ At(r, "count_denial") => /\ m = WithNote /\ Denied(r)
                                  /\ req[r].sent \in {<<>>, <<Instructed>>}
  BY <1>4 DEF PlaceOK, At, Fresh, Escalating, Copy, Instructed, WithNote
<1>6. /\ req[r].sent = <<>> => req'[r].sent = <<m>>
      /\ req[r].sent = <<Instructed>> =>
            req'[r].sent = <<Instructed, m>> /\ req[r].trigger # "sticky"
  <2>1. req[r].sent = <<>> => req'[r].sent = <<m>>
    BY <1>3, Tuples
  <2>2. req[r].sent = <<Instructed>> => req'[r].sent = <<Instructed, m>>
    BY <1>3, Tuples
  <2>3. req[r].sent = <<Instructed>> => req[r].trigger # "sticky"
    BY <1>4 DEF SentOK, Copy, Instructed, WithNote
  <2>4. QED
    BY <2>1, <2>2, <2>3
<1>7. req[r].sent \in {<<>>, <<Instructed>>} /\ ~At(r, "reserved") /\ ~At(r, "check_sticky")
  BY <1>5 DEF At
<1> HIDE DEF m
<1>8. PlaceOK(r)'
  <2>1. req'[r].sent # <<>> /\ (At(r, "attempt") => req'[r].sent = <<Instructed>>)
    BY <1>0, <1>5, <1>6, <1>7, Zenon
  <2>2. At(r, "attempt") => req'[r].trigger = "none" /\ answer[r] = "none"
    BY <1>3, <1>5
  <2>3. QED
    BY <1>2, <1>3, <1>4, <2>1, <2>2
    DEF PlaceOK, At, Granted, Denied, Fresh, Trying, Escalating, Forwarding
<1>9. SentOK(r)'
  BY <1>2, <1>3, <1>5, <1>6, <1>7 DEF SentOK, Granted, Denied
<1>10. CauseOK(r)'
  <2>1. req[r].trigger = "sentinel" => req'[r].sent # <<>> /\ req'[r].sent[1] = Instructed
    <3>1. req[r].trigger = "sentinel" => req[r].sent = <<Instructed>>
      BY <1>4, <1>7 DEF CauseOK
    <3>2. QED
      BY <1>0, <1>6, <3>1, Zenon
  <2>2. QED
    BY <1>2, <1>3, <1>4, <2>1 DEF CauseOK, Granted
<1>11. MarkOK(r)'
  <2>1. ASSUME NEW i \in DOMAIN req'[r].sent, req'[r].sent[i].to = "cloud"
        PROVE  At(r, "count_grant")
    <3>1. req'[r].sent[i] \in {Instructed, m}
      BY <1>6, <1>7
    <3>2. Instructed.to # "cloud"
      BY DEF Instructed
    <3>3. m.to = "cloud"
      BY <2>1, <3>1, <3>2
    <3>4. QED
      BY <3>3 DEF m
  <2>2. HasSentTo(r, "cloud")' => At(r, "count_grant")
    BY <2>1 DEF HasSentTo
  <2>3. QED
    BY <1>2, <1>3, <1>4, <1>5, <1>7, <2>2 DEF MarkOK, At, Granted
<1>12. t.key = req[r].key
  BY DEF With
<1> HIDE DEF t
<1>13. QED
  BY <1>1, <1>8, <1>9, <1>10, <1>11, <1>12, QuietStep

\* forward, with the lookups it begins with.
LEMMA ForwardInv ==
    ASSUME IInv, NEW r \in Requests, NEW p \in Providers, NEW note \in Notes,
           Forward(r, p, note), UNCHANGED <<cfg, shared>>, metrics' \in Counters,
           \/ At(r, "idle") /\ p = "named" /\ note = "none"
           \/ At(r, "count_grant") /\ p = "cloud" /\ note = "none"
           \/ At(r, "count_denial") /\ p = "local" /\ note = "unavailable"
    PROVE  IInv'
<1>1. CASE cfg.state[p] = "ok"
  <2>1. Send(r, p, note, "awaiting_forward")
    BY <1>1 DEF Forward
  <2>2. "awaiting_forward" \in Places
    BY DEF Places, Awaits
  <2>3. QED
    BY <2>1, <2>2, SendInv
<1>2. CASE cfg.state[p] # "ok"
  <2>1. Respond(r, LookupError(p))
    BY <1>2 DEF Forward
  <2>2. LookupError(p) \in Results
    BY DEF LookupError, Results
  <2>3. ~At(r, "reserved") /\ ~At(r, "check_sticky")
    BY DEF At
  <2>4. QED
    BY <2>1, <2>2, <2>3, RespondInv
<1>3. QED
  BY <1>1, <1>2

\* A task enters the cascade.
LEMMA EnterInv ==
    ASSUME IInv, NEW r \in Requests, NEW k \in ConversationKeys, At(r, "idle"),
           Enter(r, k), UNCHANGED <<cfg, shared, metrics>>
    PROVE  IInv'
<1> DEFINE b == k # NoKey /\ \E q \in Requests : req[q].key = k /\ WentToCloud(q)
           t == [at |-> "check_sticky", key |-> k, trigger |-> req[r].trigger,
                 sent |-> req[r].sent, result |-> req[r].result, afterCloud |-> b]
<1>1. Becomes(r, t)
  BY EnterFacts DEF IInv
<1>2. /\ cfg' = cfg /\ sticky' = sticky /\ history' = history /\ used' = used
      /\ answer' = answer /\ log' = log /\ metrics' = metrics
  BY DEF shared
<1>3. PlaceOK(r) /\ SentOK(r) /\ CauseOK(r) /\ MarkOK(r)
  BY DEF IInv, TaskInv
<1>4. /\ answer[r] = "none" /\ req[r].trigger = "none" /\ req[r].sent = <<>>
      /\ req[r].result = "none"
  BY <1>3 DEF PlaceOK, At, Fresh
<1>5. b => k \in sticky
  <2>1. ASSUME k # NoKey, NEW q \in Requests, req[q].key = k, WentToCloud(q)
        PROVE  k \in sticky
    <3>1. MarkOK(q) /\ PlaceOK(q)
      BY DEF IInv, TaskInv
    <3>2. Granted(q) /\ ~At(q, "reserved")
      <4>1. CASE HasSentTo(q, "cloud")
        BY <3>1, <4>1 DEF MarkOK
      <4>2. CASE answer[q] = "granted" /\ req[q].result \in {"UnknownProvider", "MissingApiKey"}
        BY <3>1, <4>2 DEF PlaceOK, At, Granted
      <4>3. QED
        BY <2>1, <4>1, <4>2 DEF WentToCloud
    <3>3. QED
      BY <2>1, <3>1, <3>2 DEF MarkOK
  <2>2. QED
    BY <2>1
<1> HIDE DEF b
<1>6. /\ req'[r].at = "check_sticky" /\ req'[r].key = k /\ req'[r].trigger = "none"
      /\ req'[r].sent = <<>> /\ req'[r].afterCloud = b /\ req'[r].result = "none"
      /\ \A q \in Requests \ {r} : req'[q] = req[q]
  BY <1>1, <1>4 DEF Becomes
<1>7. PlaceOK(r)'
  BY <1>2, <1>4, <1>6 DEF PlaceOK, At, Granted, Denied, Fresh, Trying, Escalating, Forwarding
<1>8. SentOK(r)' /\ CauseOK(r)'
  BY <1>6 DEF SentOK, CauseOK
<1>9. MarkOK(r)'
  <2>1. ~HasSentTo(r, "cloud")'
    BY <1>6 DEF HasSentTo
  <2>2. QED
    BY <1>2, <1>4, <1>5, <1>6, <2>1 DEF MarkOK, At, Granted
<1>10. TypeOK'
  BY <1>1, <1>2 DEF IInv, TypeOK, Becomes
<1>11. ~Granted(r)
  BY <1>4 DEF Granted
<1> HIDE DEF t
<1>12. QED
  BY <1>1, <1>2, <1>7, <1>8, <1>9, <1>10, <1>11, OthersKept

\* The budget answers: of what the pool promises only its answer counts here.
LEMMA TryReserveInv ==
    ASSUME IInv, NEW r \in Requests, TryReserve(r)
    PROVE  IInv'
<1> DEFINE t == With(r, "reserved", req[r].trigger, req[r].sent, req[r].result)
<1>1. Becomes(r, t)
  <2>1. "reserved" \in Places
    BY DEF Places
  <2>2. QED
    BY <2>1, GotoFacts DEF IInv, TryReserve
<1>2. /\ cfg' = cfg /\ sticky' = sticky /\ history' = history /\ metrics' = metrics
      /\ log' = log /\ At(r, "escalate")
  BY DEF TryReserve
<1>3. /\ used' \in Nat
      /\ answer' = [answer EXCEPT ![r] = "granted"] \/ answer' = [answer EXCEPT ![r] = "denied"]
  BY DEF TryReserve, Pool!Reserve, Pool!Deny, IInv, TypeOK
<1>4. /\ answer' \in [Requests -> Pool!Answers]
      /\ answer'[r] \in {"granted", "denied"}
      /\ \A q \in Requests \ {r} : answer'[q] = answer[q]
  BY <1>3 DEF IInv, TypeOK, Pool!Answers
<1>5. /\ req'[r].at = "reserved" /\ req'[r].key = req[r].key /\ req'[r].trigger = req[r].trigger
      /\ req'[r].sent = req[r].sent /\ req'[r].afterCloud = req[r].afterCloud
      /\ req'[r].result = req[r].result
      /\ \A q \in Requests \ {r} : req'[q] = req[q]
  BY <1>1 DEF Becomes, With
<1>6. PlaceOK(r) /\ SentOK(r) /\ CauseOK(r) /\ MarkOK(r)
  BY DEF IInv, TaskInv
<1>7. answer[r] = "none" /\ req[r].trigger \in Triggers /\ req[r].sent \in {<<>>, <<Instructed>>}
  BY <1>2, <1>6 DEF PlaceOK, At, Escalating
<1>8. TypeOK'
  BY <1>1, <1>2, <1>3, <1>4 DEF IInv, TypeOK, Becomes
<1>9. PlaceOK(r)'
  BY <1>2, <1>4, <1>5, <1>6, <1>7
  DEF PlaceOK, At, Granted, Denied, Fresh, Trying, Escalating, Forwarding, Triggers
<1>10. SentOK(r)'
  BY <1>5, <1>6, <1>7 DEF SentOK, Granted, Denied
<1>11. CauseOK(r)'
  <2>1. \A q \in Requests \ {r} : Granted(q) => Granted(q)' /\ req'[q].key = req[q].key
    BY <1>4, <1>5 DEF Granted
  <2>2. QED
    BY <1>2, <1>5, <1>6, <2>1 DEF CauseOK
<1>12. MarkOK(r)'
  BY <1>2, <1>5, <1>6, <1>7 DEF MarkOK, HasSentTo, At, Granted
<1>13. ~Granted(r)
  BY <1>7 DEF Granted
<1> HIDE DEF t
<1>14. QED
  BY <1>1, <1>2, <1>4, <1>8, <1>9, <1>10, <1>11, <1>12, <1>13, OthersKept

\* A granted task marks its conversation, if it has one.
LEMMA MarkCloudInv ==
    ASSUME IInv, NEW r \in Requests, MarkCloud(r)
    PROVE  IInv'
<1> DEFINE t == With(r, "record", req[r].trigger, req[r].sent, req[r].result)
<1>1. Becomes(r, t)
  <2>1. "record" \in Places
    BY DEF Places
  <2>2. QED
    BY <2>1, GotoFacts DEF IInv, MarkCloud
<1>2. /\ cfg' = cfg /\ history' = history /\ metrics' = metrics /\ used' = used
      /\ answer' = answer /\ log' = log /\ At(r, "reserved") /\ answer[r] = "granted"
      /\ sticky' = sticky \cup ({req[r].key} \ {NoKey})
  BY DEF MarkCloud, Marked
<1>3. sticky' \subseteq ConversationKeys \ {NoKey}
  BY <1>2, Fields DEF IInv, TypeOK
<1>4. /\ req'[r].at = "record" /\ req'[r].key = req[r].key /\ req'[r].trigger = req[r].trigger
      /\ req'[r].sent = req[r].sent /\ req'[r].afterCloud = req[r].afterCloud
      /\ req'[r].result = req[r].result
      /\ \A q \in Requests \ {r} : req'[q] = req[q]
  BY <1>1 DEF Becomes, With
<1>5. PlaceOK(r) /\ SentOK(r) /\ CauseOK(r) /\ MarkOK(r)
  BY DEF IInv, TaskInv
<1>6. TypeOK'
  BY <1>1, <1>2, <1>3 DEF IInv, TypeOK, Becomes
<1>7. PlaceOK(r)'
  BY <1>2, <1>4, <1>5 DEF PlaceOK, At, Granted, Denied, Fresh, Trying, Escalating, Forwarding
<1>8. SentOK(r)' /\ CauseOK(r)'
  BY <1>2, <1>4, <1>5 DEF SentOK, CauseOK, Granted, Denied
<1>9. MarkOK(r)'
  BY <1>2, <1>4, <1>5 DEF MarkOK, HasSentTo, At, Granted
<1>10. t.key = req[r].key
  BY DEF With
<1> HIDE DEF t
<1>11. \A k \in sticky' \ sticky : t.key = k /\ Granted(r)'
  BY <1>2, <1>10 DEF Granted
<1>12. QED
  BY <1>1, <1>2, <1>6, <1>7, <1>8, <1>9, <1>10, <1>11, OthersKept DEF Granted

\* A record goes into the history: a grant's, after the conversation was marked,
\* or a denial's.
LEMMA RecordInv ==
    ASSUME IInv, NEW r \in Requests, RecordGrant(r) \/ RecordDenial(r)
    PROVE  IInv'
<1>1. PICK place \in {"count_grant", "count_denial"} :
          /\ Goto(r, place)
          /\ IF place = "count_grant" THEN At(r, "record") /\ Granted(r)
             ELSE At(r, "reserved") /\ Denied(r)
  <2>1. PlaceOK(r)
    BY DEF IInv, TaskInv
  <2>2. QED
    BY <2>1 DEF RecordGrant, RecordDenial, PlaceOK, Denied
<1> DEFINE t == With(r, place, req[r].trigger, req[r].sent, req[r].result)
<1>2. Becomes(r, t)
  <2>1. place \in Places
    BY DEF Places
  <2>2. QED
    BY <1>1, <2>1, GotoFacts DEF IInv
<1>3. /\ cfg' = cfg /\ sticky' = sticky /\ metrics' = metrics /\ used' = used
      /\ answer' = answer
  BY DEF RecordGrant, RecordDenial
<1>4. PlaceOK(r) /\ SentOK(r) /\ CauseOK(r) /\ MarkOK(r)
  BY DEF IInv, TaskInv
<1>5. history' \in Histories /\ log' \in Seq(Event)
  <2>1. req[r].key \in ConversationKeys \cup {NoKey}
    BY Fields DEF IInv
  <2>2. CASE RecordGrant(r)
    <3>1. req[r].trigger \in Triggers
      BY <1>4, <2>2 DEF RecordGrant, PlaceOK, At, Escalating
    <3>2. QED
      BY <2>1, <2>2, <3>1, RecordedFacts DEF RecordGrant, IInv
  <2>3. CASE RecordDenial(r)
    BY <2>1, <2>3, RecordedFacts DEF RecordDenial, IInv
  <2>4. QED
    BY <2>2, <2>3
<1>6. /\ req'[r].at = place /\ req'[r].key = req[r].key /\ req'[r].trigger = req[r].trigger
      /\ req'[r].sent = req[r].sent /\ req'[r].afterCloud = req[r].afterCloud
      /\ req'[r].result = req[r].result
      /\ \A q \in Requests \ {r} : req'[q] = req[q]
  BY <1>2 DEF Becomes, With
<1>7. TypeOK'
  BY <1>2, <1>3, <1>5 DEF IInv, TypeOK, Becomes
<1>8. PlaceOK(r)'
  BY <1>1, <1>3, <1>4, <1>6
  DEF PlaceOK, At, Granted, Denied, Fresh, Trying, Escalating, Forwarding
<1>9. SentOK(r)' /\ CauseOK(r)'
  BY <1>3, <1>4, <1>6 DEF SentOK, CauseOK, Granted, Denied
<1>10. MarkOK(r)'
  BY <1>1, <1>3, <1>4, <1>6 DEF MarkOK, HasSentTo, At, Granted, Denied
<1>11. t.key = req[r].key
  BY DEF With
<1> HIDE DEF t
<1>12. QED
  BY <1>2, <1>3, <1>7, <1>8, <1>9, <1>10, <1>11, OthersKept DEF Granted

-----------------------------------------------------------------------------
\* A failed attempt: fail_mode decides, and either way the invariant holds.
LEMMA LocalFailedInv ==
    ASSUME IInv, NEW r \in Requests, NEW result \in Results, LocalFailed(r, result),
           UNCHANGED <<cfg, shared>>, metrics' \in Counters,
           At(r, "attempt") \/ req[r].at \in Trying
    PROVE  IInv'
<1>1. CASE cfg.failMode = "cloud"
  <2>1. Escalate(r, "fail_mode") /\ "fail_mode" \in Triggers
    BY <1>1 DEF LocalFailed, Triggers
  <2>2. QED
    BY <1>1, <2>1, EscalateInv
<1>2. CASE cfg.failMode # "cloud"
  <2>1. Respond(r, result)
    BY <1>2 DEF LocalFailed
  <2>2. ~At(r, "reserved") /\ ~At(r, "check_sticky")
    BY DEF At, Trying
  <2>3. QED
    BY <2>1, <2>2, RespondInv
<1>3. QED
  BY <1>1, <1>2

\* How a request begins.
LEMMA BeginInv ==
    ASSUME IInv, NEW r \in Requests, Begin(r)
    PROVE  IInv'
<1>1. CASE Arrive(r)
  BY <1>1, EnterInv DEF Arrive
<1>2. CASE ArriveExplicit(r)
  <2>1. metrics \in Counters /\ "static" \in Tiers
    BY DEF IInv, TypeOK, Tiers
  <2>2. metrics' \in Counters
    BY <1>2, <2>1, TierFacts DEF ArriveExplicit
  <2>3. "named" \in Providers /\ "none" \in Notes
    BY DEF Providers, Notes
  <2>4. QED
    BY <1>2, <2>2, <2>3, ForwardInv DEF ArriveExplicit
<1>3. CASE ArriveUnusable(r)
  <2>1. PICK result \in {"InvalidJson", "panic"} : Respond(r, result)
    BY <1>3 DEF ArriveUnusable
  <2>2. result \in Results /\ metrics' \in Counters /\ UNCHANGED <<cfg, shared>>
    BY <1>3 DEF Results, ArriveUnusable, IInv, TypeOK
  <2>3. ~At(r, "reserved") /\ ~At(r, "check_sticky")
    BY <1>3 DEF ArriveUnusable, At
  <2>4. QED
    BY <2>1, <2>2, <2>3, RespondInv
<1>4. QED
  BY <1>1, <1>2, <1>3 DEF Begin

\* The local attempt, up to its verdict.
LEMMA LocalStepInv ==
    ASSUME IInv, NEW r \in Requests, LocalStep(r)
    PROVE  IInv'
<1>1. metrics \in Counters /\ "local" \in Providers
  BY DEF IInv, TypeOK, Providers
<1>2. CASE CheckSticky(r)
  <2>1. UNCHANGED <<cfg, shared>> /\ metrics' \in Counters /\ At(r, "check_sticky")
    BY <1>1, <1>2 DEF CheckSticky
  <2>2. CASE req[r].key \in sticky
    <3>1. Escalate(r, "sticky") /\ "sticky" \in Triggers
      BY <1>2, <2>2 DEF CheckSticky, Triggers
    <3>2. QED
      BY <2>1, <2>2, <3>1, EscalateInv
  <2>3. CASE req[r].key \notin sticky
    <3>1. Goto(r, "attempt") /\ "attempt" \in Places
      BY <1>2, <2>3 DEF CheckSticky, Places
    <3>2. ~req[r].afterCloud
      BY <2>3 DEF IInv, TaskInv, MarkOK
    <3>3. QED
      BY <2>1, <3>1, <3>2, GotoInv
  <2>4. QED
    BY <2>2, <2>3
<1>3. CASE StartAttempt(r)
  <2>1. UNCHANGED <<cfg, shared>> /\ metrics' \in Counters /\ At(r, "attempt")
    <3>1. "local" \in Tiers
      BY DEF Tiers
    <3>2. QED
      BY <1>1, <1>3, <3>1, TierFacts DEF StartAttempt
  <2>2. CASE cfg.state["local"] = "ok"
    <3>1. Send(r, "local", "instruction", "awaiting_attempt")
      BY <1>3, <2>2 DEF StartAttempt
    <3>2. "instruction" \in Notes /\ "awaiting_attempt" \in Places
      BY DEF Notes, Places, Awaits
    <3>3. QED
      BY <1>1, <2>1, <3>1, <3>2, SendInv
  <2>3. CASE cfg.state["local"] # "ok"
    <3>1. LocalFailed(r, LookupError("local"))
      BY <1>3, <2>3 DEF StartAttempt
    <3>2. LookupError("local") \in Results
      BY DEF LookupError, Results
    <3>3. QED
      BY <2>1, <3>1, <3>2, LocalFailedInv
  <2>4. QED
    BY <2>2, <2>3
<1>4. CASE AttemptTransportError(r)
  <2>1. metrics' \in Counters
    BY <1>1, <1>4, ObserveFacts DEF AttemptTransportError, IInv, Outcomes
  <2>2. "transport_error" \in Results /\ req[r].at \in Trying
    BY <1>4 DEF AttemptTransportError, Results, At, Trying
  <2>3. QED
    BY <1>4, <2>1, <2>2, LocalFailedInv DEF AttemptTransportError
<1>5. CASE AttemptErrorStatus(r)
  <2>1. metrics' \in Counters
    BY <1>1, <1>5, ObserveFacts DEF AttemptErrorStatus, IInv, Outcomes
  <2>2. "reading_error" \in Places
    BY DEF Places, Awaits
  <2>3. QED
    BY <1>5, <2>1, <2>2, GotoInv DEF AttemptErrorStatus
<1>6. CASE AttemptErrorBody(r)
  <2>1. "upstream_error" \in Results /\ req[r].at \in Trying /\ metrics' \in Counters
    BY <1>1, <1>6 DEF AttemptErrorBody, Results, At, Trying
  <2>2. QED
    BY <1>6, <2>1, LocalFailedInv DEF AttemptErrorBody
<1>7. CASE AttemptOk(r)
  <2>1. metrics' \in Counters
    BY <1>1, <1>7, ObserveFacts DEF AttemptOk, IInv, Outcomes
  <2>2. "reading_attempt" \in Places
    BY DEF Places, Awaits
  <2>3. QED
    BY <1>7, <2>1, <2>2, GotoInv DEF AttemptOk
<1>8. CASE AttemptSentinel(r)
  <2>1. "sentinel" \in Triggers /\ req[r].at \in Trying /\ metrics' \in Counters
    BY <1>1, <1>8 DEF AttemptSentinel, Triggers, At, Trying
  <2>2. QED
    BY <1>8, <2>1, EscalateInv DEF AttemptSentinel
<1>9. CASE AttemptClean(r)
  <2>1. /\ "answer" \in Results /\ metrics' \in Counters
        /\ ~At(r, "reserved") /\ ~At(r, "check_sticky")
    BY <1>1, <1>9 DEF AttemptClean, Results, At
  <2>2. QED
    BY <1>9, <2>1, RespondInv DEF AttemptClean
<1>10. CASE AttemptBodyError(r)
  <2>1. "transport_error" \in Results /\ req[r].at \in Trying /\ metrics' \in Counters
    BY <1>1, <1>10 DEF AttemptBodyError, Results, At, Trying
  <2>2. QED
    BY <1>10, <2>1, LocalFailedInv DEF AttemptBodyError
<1>11. QED
  BY <1>2, <1>3, <1>4, <1>5, <1>6, <1>7, <1>8, <1>9, <1>10 DEF LocalStep

\* The escalation, from the budget to the request it decides on.
LEMMA EscalateStepInv ==
    ASSUME IInv, NEW r \in Requests, EscalateStep(r)
    PROVE  IInv'
<1>1. CASE TryReserve(r)
  BY <1>1, TryReserveInv
<1>2. CASE MarkCloud(r)
  BY <1>2, MarkCloudInv
<1>3. CASE RecordGrant(r) \/ RecordDenial(r)
  BY <1>3, RecordInv
<1>4. CASE CountGrant(r)
  <2>1. req[r].trigger \in Triggers
    BY <1>4 DEF CountGrant, IInv, TaskInv, PlaceOK, At, Escalating
  <2>2. metrics' \in Counters
    BY <1>4, <2>1, GrantCounters DEF CountGrant, IInv
  <2>3. "cloud" \in Providers /\ "none" \in Notes
    BY DEF Providers, Notes
  <2>4. QED
    BY <1>4, <2>2, <2>3, ForwardInv DEF CountGrant
<1>5. CASE CountDenial(r)
  <2>1. metrics' \in Counters
    BY <1>5, DenialCounters DEF CountDenial, IInv
  <2>2. "local" \in Providers /\ "unavailable" \in Notes
    BY DEF Providers, Notes
  <2>3. QED
    BY <1>5, <2>1, <2>2, ForwardInv DEF CountDenial, Fallback
<1>6. QED
  BY <1>1, <1>2, <1>3, <1>4, <1>5 DEF EscalateStep

\* A request that has been sent somewhere was last sent to a provider.
LEMMA UpstreamTyped ==
    ASSUME IInv, NEW r \in Requests, req[r].at \in Forwarding
    PROVE  Upstream(r) \in Providers
<1>1. req[r].sent \in Seq(Messages) /\ req[r].sent # <<>>
  BY Fields DEF IInv, TaskInv, PlaceOK
<1>2. Len(req[r].sent) \in 1..Len(req[r].sent)
  BY <1>1, EmptySeq, LenProperties
<1>3. req[r].sent[Len(req[r].sent)] \in Messages
  BY <1>1, <1>2, ElementOfSeq
<1>4. QED
  BY <1>3 DEF Upstream, Messages

\* The exchange with the provider a request was forwarded to.
LEMMA ForwardStepInv ==
    ASSUME IInv, NEW r \in Requests, ForwardStep(r)
    PROVE  IInv'
<1>1. CASE ForwardTransportError(r)
  <2>1. /\ req[r].at \in Forwarding /\ "transport_error" \in Results
        /\ ~At(r, "reserved") /\ ~At(r, "check_sticky")
    BY <1>1 DEF ForwardTransportError, At, Forwarding, Results
  <2>2. metrics' \in Counters
    BY <1>1, <2>1, UpstreamTyped, ObserveFacts DEF ForwardTransportError, IInv, Outcomes
  <2>3. QED
    BY <1>1, <2>1, <2>2, RespondInv DEF ForwardTransportError
<1>2. CASE ForwardErrorStatus(r)
  <2>1. req[r].at \in Forwarding /\ "reading_forward_error" \in Places
    BY <1>2 DEF ForwardErrorStatus, At, Forwarding, Places, Awaits
  <2>2. metrics' \in Counters
    BY <1>2, <2>1, UpstreamTyped, ObserveFacts DEF ForwardErrorStatus, IInv, Outcomes
  <2>3. QED
    BY <1>2, <2>1, <2>2, GotoInv DEF ForwardErrorStatus
<1>3. CASE ForwardErrorBody(r)
  <2>1. /\ "upstream_error" \in Results /\ metrics' \in Counters
        /\ ~At(r, "reserved") /\ ~At(r, "check_sticky")
    BY <1>3 DEF ForwardErrorBody, At, Results, IInv, TypeOK
  <2>2. QED
    BY <1>3, <2>1, RespondInv DEF ForwardErrorBody
<1>4. CASE ForwardOk(r)
  <2>1. /\ req[r].at \in Forwarding /\ "answer" \in Results
        /\ ~At(r, "reserved") /\ ~At(r, "check_sticky")
    BY <1>4 DEF ForwardOk, At, Forwarding, Results
  <2>2. metrics' \in Counters
    BY <1>4, <2>1, UpstreamTyped, ObserveFacts DEF ForwardOk, IInv, Outcomes
  <2>3. QED
    BY <1>4, <2>1, <2>2, RespondInv DEF ForwardOk
<1>5. QED
  BY <1>1, <1>2, <1>3, <1>4 DEF ForwardStep

\* A client hangs up at an await.
LEMMA CancelInv ==
    ASSUME IInv, NEW r \in Requests, Cancel(r)
    PROVE  IInv'
<1> DEFINE result == IF req[r].at \in {"awaiting_attempt", "awaiting_forward"}
                       THEN "cancelled_unanswered" ELSE "cancelled_reading"
<1>1. result \in Results /\ metrics' \in Counters /\ UNCHANGED <<cfg, shared>>
  BY DEF Cancel, Results, IInv, TypeOK
<1>2. ~At(r, "reserved") /\ ~At(r, "check_sticky")
  BY DEF Cancel, Awaits, At
<1>3. Respond(r, result)
  BY DEF Cancel
<1> HIDE DEF result
<1>4. QED
  BY <1>1, <1>2, <1>3, RespondInv

\* A reply of /status or /metrics prunes the budget and touches no task.
LEMMA ReadBudgetInv ==
    ASSUME IInv, ReadBudget
    PROVE  IInv'
<1>1. /\ cfg' = cfg /\ req' = req /\ sticky' = sticky /\ history' = history
      /\ metrics' = metrics /\ log' = log /\ answer' = answer
  BY DEF ReadBudget, Pool!Refresh
<1>2. used' \in Nat
  BY DEF ReadBudget, Pool!Refresh, IInv, TypeOK
<1>3. TypeOK'
  BY <1>1, <1>2 DEF IInv, TypeOK
<1>4. StickyByGrant'
  BY <1>1 DEF IInv, StickyByGrant, Granted
<1>5. ASSUME NEW r \in Requests
      PROVE  PlaceOK(r)' /\ SentOK(r)' /\ CauseOK(r)' /\ MarkOK(r)'
  <2>1. PlaceOK(r) /\ SentOK(r) /\ CauseOK(r) /\ MarkOK(r)
    BY DEF IInv, TaskInv
  <2>2. QED
    BY <1>1, <2>1
    DEF PlaceOK, SentOK, CauseOK, MarkOK, HasSentTo, At, Granted, Denied
<1>6. QED
  BY <1>3, <1>4, <1>5 DEF IInv, TaskInv

-----------------------------------------------------------------------------
\* No request has arrived, and nothing is shared yet.
LEMMA InitIInv == Init => IInv
<1> SUFFICES ASSUME Init PROVE IInv
  OBVIOUS
<1>1. ZeroMetrics \in Counters
  BY DEF ZeroMetrics, Counters
<1>2. <<>> \in Seq(Event) /\ <<>> \in Seq(Messages)
  OBVIOUS
<1>3. \A r \in Requests :
          /\ req[r].at = "idle" /\ req[r].key = NoKey /\ req[r].trigger = "none"
          /\ req[r].sent = <<>> /\ req[r].result = "none" /\ req[r].afterCloud = FALSE
          /\ answer[r] = "none"
  BY DEF Init, Pool!Init
<1>4. TypeOK
  <2>1. req \in [Requests -> Task]
    BY <1>2 DEF Init, Task, Places, Results
  <2>2. history \in Histories
    BY <1>2 DEF Init, Histories
  <2>3. used \in Nat /\ answer \in [Requests -> Pool!Answers]
    BY DEF Init, Pool!Init, Pool!Answers
  <2>4. QED
    BY <1>1, <1>2, <2>1, <2>2, <2>3 DEF Init, TypeOK
<1>5. ASSUME NEW r \in Requests
      PROVE  PlaceOK(r) /\ SentOK(r) /\ CauseOK(r) /\ MarkOK(r)
  BY <1>3 DEF PlaceOK, SentOK, CauseOK, MarkOK, HasSentTo, At, Granted, Denied,
              Fresh, Trying, Escalating, Forwarding
<1>6. StickyByGrant
  BY DEF Init, StickyByGrant
<1>7. QED
  BY <1>4, <1>5, <1>6 DEF IInv, TaskInv

\* Whatever task runs next, and wherever it is.
LEMMA NextIInv == IInv /\ [Next]_vars => IInv'
<1> SUFFICES ASSUME IInv, [Next]_vars PROVE IInv'
  OBVIOUS
<1>1. CASE ReadBudget
  BY <1>1, ReadBudgetInv
<1>2. ASSUME NEW r \in Requests, Begin(r) PROVE IInv'
  BY <1>2, BeginInv
<1>3. ASSUME NEW r \in Requests, Progress(r) PROVE IInv'
  BY <1>3, LocalStepInv, EscalateStepInv, ForwardStepInv DEF Progress
<1>4. ASSUME NEW r \in Requests, Cancel(r) PROVE IInv'
  BY <1>4, CancelInv
<1>5. CASE UNCHANGED vars
  <2>1. /\ cfg' = cfg /\ req' = req /\ sticky' = sticky /\ history' = history
        /\ metrics' = metrics /\ used' = used /\ answer' = answer /\ log' = log
    BY <1>5 DEF vars
  <2>2. TypeOK' /\ StickyByGrant'
    BY <2>1 DEF IInv, TypeOK, StickyByGrant, Granted
  <2>3. ASSUME NEW r \in Requests
        PROVE  PlaceOK(r)' /\ SentOK(r)' /\ CauseOK(r)' /\ MarkOK(r)'
    <3>1. PlaceOK(r) /\ SentOK(r) /\ CauseOK(r) /\ MarkOK(r)
      BY DEF IInv, TaskInv
    <3>2. QED
      BY <2>1, <3>1
      DEF PlaceOK, SentOK, CauseOK, MarkOK, HasSentTo, At, Granted, Denied
  <2>4. QED
    BY <2>2, <2>3 DEF IInv, TaskInv
<1>6. QED
  BY <1>1, <1>2, <1>3, <1>4, <1>5 DEF Next

\* The inductive invariant holds in every reachable state of the cascade.
THEOREM CascadeInvariant == Spec => []IInv
BY InitIInv, NextIInv, PTL DEF Spec

\* Every variable keeps the shape of the code's data.
THEOREM CascadeTyped == Spec => []TypeOK
<1>1. IInv => TypeOK
  BY DEF IInv
<1>2. QED
  BY <1>1, CascadeInvariant, PTL

\* What a task has sent, spelled out, is what it may have sent.
LEMMA InvDiscipline == IInv => DispatchDiscipline
<1> SUFFICES ASSUME IInv, NEW r \in Requests PROVE Disciplined(r)
  BY DEF DispatchDiscipline
<1>1. SentOK(r)
  BY DEF IInv, TaskInv
<1>2. /\ <<>> \in Attempts(r)
      /\ req[r].trigger # "sticky" => <<Instructed>> \in Attempts(r)
      /\ Granted(r) => Copy("cloud") \in FollowUps(r)
      /\ Denied(r) => WithNote \in FollowUps(r)
  BY DEF Attempts, FollowUps
<1>3. \A a \in Attempts(r) : \A m \in FollowUps(r) : a \o <<m>> \in FollowedUp(r)
  BY DEF FollowedUp
<1>4. ASSUME NEW m \in FollowUps(r)
      PROVE  /\ <<m>> \in FollowedUp(r)
             /\ req[r].trigger # "sticky" => <<Instructed, m>> \in FollowedUp(r)
  <2>1. <<>> \o <<m>> = <<m>> /\ <<Instructed>> \o <<m>> = <<Instructed, m>>
    BY TupleConcat
  <2>2. <<>> \o <<m>> \in FollowedUp(r)
    BY <1>2, <1>3, Zenon
  <2>3. req[r].trigger # "sticky" => <<Instructed>> \o <<m>> \in FollowedUp(r)
    BY <1>2, <1>3, Zenon
  <2>4. QED
    BY <2>1, <2>2, <2>3, Zenon
<1>5. QED
  BY <1>1, <1>2, <1>4 DEF SentOK, Disciplined

\* However many requests interleave: one local attempt at most and first, then
\* one copy to the cloud on a grant or one fallback on a denial, and the
\* sentinel instruction in the attempt alone.
THEOREM Discipline == Spec => []DispatchDiscipline
BY InvDiscipline, CascadeInvariant, PTL

\* What HeardInv asks of one task, of which the local tier made h.
Fits(t, h) ==
    /\ t.trigger = "sentinel" => h = "sentinel"
    /\ t.at = "reading_error" => h = "failed"
    /\ t.trigger = "fail_mode" => h = "failed" \/ cfg.state["local"] # "ok"
    /\ t.at \in Forwarding => t.sent # <<Instructed>>
    /\ t.result = "answer" /\ t.sent = <<Instructed>> => h = "clean"

\* A step of one task, of which the local tier makes h, disturbs no other.
LEMMA HeardStep ==
    ASSUME HeardInv, NEW r \in Requests, NEW t, Becomes(r, t), cfg' = cfg,
           NEW h \in Heard, heard' = [heard EXCEPT ![r] = h], Fits(t, h)
    PROVE  HeardInv'
<1>1. heard \in [Requests -> Heard]
  BY DEF HeardInv
<1>2. /\ heard' \in [Requests -> Heard] /\ heard'[r] = h
      /\ \A q \in Requests \ {r} : heard'[q] = heard[q]
  BY <1>1
<1>3. req'[r] = t /\ \A q \in Requests \ {r} : req'[q] = req[q]
  BY DEF Becomes
<1>4. HeardOK(r)'
  BY <1>2, <1>3 DEF HeardOK, Fits, At
<1>5. ASSUME NEW q \in Requests \ {r}
      PROVE  HeardOK(q)'
  <2>1. HeardOK(q) /\ heard'[q] = heard[q] /\ req'[q] = req[q]
    BY <1>2, <1>3 DEF HeardInv
  <2>2. QED
    BY <2>1 DEF HeardOK, At
<1>6. QED
  BY <1>2, <1>4, <1>5 DEF HeardInv

\* The same when nothing is heard.
LEMMA UnheardStep ==
    ASSUME HeardInv, NEW r \in Requests, NEW t, Becomes(r, t), cfg' = cfg,
           heard' = heard, Fits(t, heard[r])
    PROVE  HeardInv'
<1>1. heard[r] \in Heard /\ heard' = [heard EXCEPT ![r] = heard[r]]
  BY DEF HeardInv
<1>2. QED
  BY <1>1, HeardStep

\* A task that ends without an answer, or with one that is not the attempt,
\* and a task that moves on keep what they go by.
LEMMA QuietFits ==
    ASSUME HeardInv, NEW r \in Requests, NEW place, NEW result,
           place \notin {"reading_error"} \cup Forwarding,
           result # "answer"
    PROVE  Fits(With(r, place, req[r].trigger, req[r].sent, result), heard[r])
BY DEF HeardInv, HeardOK, Fits, With

\* A failed attempt: whatever fail_mode then makes of it.
LEMMA FailedFits ==
    ASSUME IInv, HeardInv, NEW r \in Requests, NEW result \in Results, result # "answer",
           LocalFailed(r, result), cfg' = cfg, req[r].trigger = "none", req[r].result = "none",
           NEW h \in Heard, heard' = [heard EXCEPT ![r] = h],
           h = "failed" \/ cfg.state["local"] # "ok"
    PROVE  HeardInv'
<1>1. CASE cfg.failMode = "cloud"
  <2> DEFINE t == With(r, "escalate", "fail_mode", req[r].sent, req[r].result)
  <2>1. "fail_mode" \in Triggers /\ Escalate(r, "fail_mode")
    BY <1>1 DEF LocalFailed, Triggers
  <2>2. Becomes(r, t)
    BY <2>1, EscalateFacts DEF IInv
  <2>3. Fits(t, h)
    BY DEF Fits, With, Forwarding
  <2> HIDE DEF t
  <2>4. QED
    BY <2>2, <2>3, HeardStep
<1>2. CASE cfg.failMode # "cloud"
  <2> DEFINE t == With(r, "done", req[r].trigger, req[r].sent, result)
  <2>1. Becomes(r, t)
    BY <1>2, RespondFacts DEF IInv, LocalFailed
  <2>2. Fits(t, h)
    BY DEF Fits, With, Forwarding
  <2> HIDE DEF t
  <2>3. QED
    BY <2>1, <2>2, HeardStep
<1>3. QED
  BY <1>1, <1>2

\* forward sends something other than the attempt, or ends without an answer.
LEMMA ForwardHeard ==
    ASSUME IInv, HeardInv, NEW r \in Requests, NEW p \in Providers, NEW note \in Notes,
           Forward(r, p, note), cfg' = cfg, heard' = heard,
           req[r].sent \in {<<>>, <<Instructed>>}, req[r].result = "none",
           note # "instruction"
    PROVE  HeardInv'
<1>1. CASE cfg.state[p] = "ok"
  <2> DEFINE m == [to |-> p, note |-> note]
             t == With(r, "awaiting_forward", req[r].trigger, Append(req[r].sent, m),
                       req[r].result)
  <2>1. Send(r, p, note, "awaiting_forward") /\ "awaiting_forward" \in Places
    BY <1>1 DEF Forward, Places, Awaits
  <2>2. Becomes(r, t)
    BY <2>1, SendFacts DEF IInv
  <2>3. m # Instructed
    BY DEF Instructed
  <2> HIDE DEF m
  <2>4. /\ Append(<<>>, m) = <<m>> /\ Append(<<Instructed>>, m) = <<Instructed, m>>
        /\ <<m>> # <<Instructed>> /\ <<Instructed, m>> # <<Instructed>>
    <3>1. /\ Len(<<Instructed, m>>) = 2 /\ Len(<<Instructed>>) = 1
          /\ <<m>>[1] = m /\ <<Instructed>>[1] = Instructed
      BY Tuples
    <3>2. QED
      BY <2>3, <3>1, Tuples
  <2>5. Append(req[r].sent, m) # <<Instructed>>
    BY <2>4, Zenon
  <2>6. Fits(t, heard[r])
    BY <2>5 DEF HeardInv, HeardOK, Fits, With
  <2> HIDE DEF t
  <2>7. QED
    BY <2>2, <2>6, UnheardStep
<1>2. CASE cfg.state[p] # "ok"
  <2> DEFINE t == With(r, "done", req[r].trigger, req[r].sent, LookupError(p))
  <2>1. Respond(r, LookupError(p)) /\ LookupError(p) \in Results /\ LookupError(p) # "answer"
    BY <1>2 DEF Forward, LookupError, Results
  <2>2. Becomes(r, t)
    BY <2>1, RespondFacts DEF IInv
  <2>3. Fits(t, heard[r])
    BY <2>1, QuietFits DEF Forwarding
  <2> HIDE DEF t
  <2>4. QED
    BY <2>2, <2>3, UnheardStep
<1>3. QED
  BY <1>1, <1>2

\* A task that enters the cascade has heard nothing to go by.
LEMMA EnterHeard ==
    ASSUME IInv, HeardInv, NEW r \in Requests, NEW k \in ConversationKeys, At(r, "idle"),
           Enter(r, k), cfg' = cfg, heard' = heard
    PROVE  HeardInv'
<1> DEFINE b == k # NoKey /\ \E q \in Requests : req[q].key = k /\ WentToCloud(q)
           t == [at |-> "check_sticky", key |-> k, trigger |-> req[r].trigger,
                 sent |-> req[r].sent, result |-> req[r].result, afterCloud |-> b]
<1>1. Becomes(r, t)
  BY EnterFacts DEF IInv
<1> HIDE DEF b
<1>2. req[r].result = "none"
  BY DEF IInv, TaskInv, PlaceOK, At
<1>3. Fits(t, heard[r])
  BY <1>2 DEF HeardInv, HeardOK, Fits, Forwarding
<1> HIDE DEF t
<1>4. QED
  BY <1>1, <1>3, UnheardStep

\* A task that only moves, ends or escalates as sticky.
LEMMA MovesHeard ==
    ASSUME IInv, HeardInv, NEW r \in Requests, cfg' = cfg, heard' = heard,
           req[r].result = "none",
           \/ \E place \in Places \ ({"reading_error"} \cup Forwarding) : Goto(r, place)
           \/ \E result \in Results \ {"answer"} : Respond(r, result)
           \/ Escalate(r, "sticky")
    PROVE  HeardInv'
<1>1. ASSUME NEW place \in Places \ ({"reading_error"} \cup Forwarding), Goto(r, place)
      PROVE  HeardInv'
  <2> DEFINE t == With(r, place, req[r].trigger, req[r].sent, req[r].result)
  <2>1. Becomes(r, t)
    BY <1>1, GotoFacts DEF IInv
  <2>2. Fits(t, heard[r])
    BY <1>1, QuietFits
  <2> HIDE DEF t
  <2>3. QED
    BY <2>1, <2>2, UnheardStep
<1>2. ASSUME NEW result \in Results \ {"answer"}, Respond(r, result)
      PROVE  HeardInv'
  <2> DEFINE t == With(r, "done", req[r].trigger, req[r].sent, result)
  <2>1. Becomes(r, t)
    BY <1>2, RespondFacts DEF IInv
  <2>2. Fits(t, heard[r])
    BY <1>2, QuietFits DEF Forwarding
  <2> HIDE DEF t
  <2>3. QED
    BY <2>1, <2>2, UnheardStep
<1>3. CASE Escalate(r, "sticky")
  <2> DEFINE t == With(r, "escalate", "sticky", req[r].sent, req[r].result)
  <2>1. Becomes(r, t)
    BY <1>3, EscalateFacts DEF IInv, Triggers
  <2>2. Fits(t, heard[r])
    BY DEF Fits, With, Forwarding
  <2> HIDE DEF t
  <2>3. QED
    BY <2>1, <2>2, UnheardStep
<1>4. QED
  BY <1>1, <1>2, <1>3

\* A request begins.
LEMMA BeginHeard ==
    ASSUME IInv, HeardInv, NEW r \in Requests, Begin(r)
    PROVE  HeardInv'
<1>1. At(r, "idle") /\ cfg' = cfg /\ heard' = heard
  BY DEF Begin, Arrive, ArriveExplicit, ArriveUnusable
<1>2. req[r].sent = <<>> /\ req[r].result = "none"
  BY <1>1 DEF IInv, TaskInv, PlaceOK, At, Fresh
<1>3. CASE Arrive(r)
  BY <1>1, <1>3, EnterHeard DEF Arrive
<1>4. CASE ArriveExplicit(r)
  <2>1. "named" \in Providers /\ "none" \in Notes /\ Forward(r, "named", "none")
    BY <1>4 DEF ArriveExplicit, Providers, Notes
  <2>2. QED
    BY <1>1, <1>2, <2>1, ForwardHeard
<1>5. CASE ArriveUnusable(r)
  BY <1>1, <1>2, <1>5, MovesHeard DEF ArriveUnusable, Results
<1>6. QED
  BY <1>3, <1>4, <1>5 DEF Begin

\* The local attempt: here it is that something is heard.
LEMMA LocalHeard ==
    ASSUME IInv, HeardInv, NEW r \in Requests, LocalStep(r)
    PROVE  HeardInv'
<1>1. /\ PlaceOK(r) /\ HeardOK(r) /\ heard[r] \in Heard
      /\ heard = [heard EXCEPT ![r] = heard[r]]
  BY DEF IInv, TaskInv, HeardInv
<1>2. {"failed", "sentinel", "clean"} \subseteq Heard
  BY DEF Heard
<1>3. CASE CheckSticky(r)
  <2>1. /\ req[r].result = "none" /\ cfg' = cfg /\ heard' = heard
        /\ Escalate(r, "sticky") \/ Goto(r, "attempt")
    BY <1>1, <1>3 DEF CheckSticky, PlaceOK, At
  <2>2. "attempt" \in Places \ ({"reading_error"} \cup Forwarding)
    BY DEF Places, Forwarding
  <2>3. QED
    BY <2>1, <2>2, MovesHeard
<1>4. CASE StartAttempt(r)
  <2>1. /\ req[r].result = "none" /\ req[r].trigger = "none" /\ cfg' = cfg /\ heard' = heard
    BY <1>1, <1>4 DEF StartAttempt, PlaceOK, At, Fresh
  <2>2. CASE cfg.state["local"] = "ok"
    <3> DEFINE sent == Append(req[r].sent, [to |-> "local", note |-> "instruction"])
               t == With(r, "awaiting_attempt", req[r].trigger, sent, req[r].result)
    <3>1. /\ Send(r, "local", "instruction", "awaiting_attempt")
          /\ "local" \in Providers /\ "instruction" \in Notes
          /\ "awaiting_attempt" \in Places
      BY <1>4, <2>2 DEF StartAttempt, Providers, Notes, Places, Awaits
    <3>2. Becomes(r, t)
      BY <3>1, SendFacts DEF IInv
    <3> HIDE DEF sent
    <3>3. Fits(t, heard[r])
      BY <2>1 DEF Fits, With, Forwarding
    <3> HIDE DEF t
    <3>4. QED
      BY <2>1, <3>2, <3>3, UnheardStep
  <2>3. CASE cfg.state["local"] # "ok"
    <3>1. /\ LocalFailed(r, LookupError("local"))
          /\ LookupError("local") \in Results /\ LookupError("local") # "answer"
      BY <1>4, <2>3 DEF StartAttempt, LookupError, Results
    <3>2. QED
      BY <1>1, <2>1, <2>3, <3>1, FailedFits
  <2>4. QED
    BY <2>2, <2>3
<1>5. CASE AttemptTransportError(r)
  <2>1. /\ req[r].trigger = "none" /\ req[r].result = "none" /\ "transport_error" \in Results
    BY <1>1, <1>5 DEF AttemptTransportError, PlaceOK, At, Trying, Results
  <2>2. QED
    BY <1>2, <1>5, <2>1, FailedFits DEF AttemptTransportError, Hear
<1>6. CASE AttemptErrorStatus(r)
  <2> DEFINE t == With(r, "reading_error", req[r].trigger, req[r].sent, req[r].result)
  <2>1. req[r].trigger = "none" /\ req[r].result = "none" /\ cfg' = cfg
    BY <1>1, <1>6 DEF AttemptErrorStatus, PlaceOK, At, Trying
  <2>2. Becomes(r, t)
    BY <1>6, GotoFacts DEF AttemptErrorStatus, IInv, Places, Awaits
  <2>3. Fits(t, "failed")
    BY <2>1 DEF Fits, With, Forwarding
  <2> HIDE DEF t
  <2>4. QED
    BY <1>2, <1>6, <2>1, <2>2, <2>3, HeardStep DEF AttemptErrorStatus, Hear
<1>7. CASE AttemptErrorBody(r)
  <2>1. /\ req[r].trigger = "none" /\ req[r].result = "none" /\ heard[r] = "failed"
        /\ "upstream_error" \in Results /\ cfg' = cfg /\ heard' = heard
        /\ LocalFailed(r, "upstream_error")
    BY <1>1, <1>7 DEF AttemptErrorBody, PlaceOK, HeardOK, At, Trying, Results
  <2>2. QED
    BY <1>1, <2>1, FailedFits
<1>8. CASE AttemptOk(r)
  <2>1. /\ req[r].result = "none" /\ cfg' = cfg /\ heard' = heard
        /\ Goto(r, "reading_attempt")
    BY <1>1, <1>8 DEF AttemptOk, PlaceOK, At
  <2>2. "reading_attempt" \in Places \ ({"reading_error"} \cup Forwarding)
    BY DEF Places, Awaits, Forwarding
  <2>3. QED
    BY <2>1, <2>2, MovesHeard
<1>9. CASE AttemptSentinel(r)
  <2> DEFINE t == With(r, "escalate", "sentinel", req[r].sent, req[r].result)
  <2>1. req[r].result = "none" /\ cfg' = cfg /\ Escalate(r, "sentinel")
    BY <1>1, <1>9 DEF AttemptSentinel, PlaceOK, At
  <2>2. Becomes(r, t)
    BY <2>1, EscalateFacts DEF IInv, Triggers
  <2>3. Fits(t, "sentinel")
    BY <2>1 DEF Fits, With, Forwarding
  <2> HIDE DEF t
  <2>4. QED
    BY <1>2, <1>9, <2>1, <2>2, <2>3, HeardStep DEF AttemptSentinel, Hear
<1>10. CASE AttemptClean(r)
  <2> DEFINE t == With(r, "done", req[r].trigger, req[r].sent, "answer")
  <2>1. req[r].trigger = "none" /\ cfg' = cfg /\ "answer" \in Results
    BY <1>1, <1>10 DEF AttemptClean, PlaceOK, At, Trying, Results
  <2>2. Becomes(r, t)
    BY <1>10, <2>1, RespondFacts DEF AttemptClean, IInv
  <2>3. Fits(t, "clean")
    BY <2>1 DEF Fits, With, Forwarding
  <2> HIDE DEF t
  <2>4. QED
    BY <1>2, <1>10, <2>1, <2>2, <2>3, HeardStep DEF AttemptClean, Hear
<1>11. CASE AttemptBodyError(r)
  <2>1. /\ req[r].trigger = "none" /\ req[r].result = "none" /\ "transport_error" \in Results
    BY <1>1, <1>11 DEF AttemptBodyError, PlaceOK, At, Trying, Results
  <2>2. QED
    BY <1>2, <1>11, <2>1, FailedFits DEF AttemptBodyError, Hear
<1>12. QED
  BY <1>3, <1>4, <1>5, <1>6, <1>7, <1>8, <1>9, <1>10, <1>11 DEF LocalStep

\* The escalation hears nothing more.
LEMMA EscalateHeard ==
    ASSUME IInv, HeardInv, NEW r \in Requests, EscalateStep(r)
    PROVE  HeardInv'
<1>1. /\ PlaceOK(r) /\ cfg' = cfg /\ heard' = heard
      /\ req[r].at \in Escalating /\ req[r].result = "none"
  <2>1. cfg' = cfg /\ heard' = heard /\ req[r].at \in Escalating
    BY DEF EscalateStep, TryReserve, MarkCloud, RecordGrant, CountGrant, RecordDenial,
           CountDenial, At, Escalating, shared
  <2>2. PlaceOK(r)
    BY DEF IInv, TaskInv
  <2>3. QED
    BY <2>1, <2>2 DEF PlaceOK, At, Escalating
<1>2. CASE TryReserve(r) \/ MarkCloud(r) \/ RecordGrant(r) \/ RecordDenial(r)
  <2>1. \E place \in {"reserved", "record", "count_grant", "count_denial"} : Goto(r, place)
    BY <1>2 DEF TryReserve, MarkCloud, RecordGrant, RecordDenial
  <2>2. {"reserved", "record", "count_grant", "count_denial"}
            \subseteq Places \ ({"reading_error"} \cup Forwarding)
    BY DEF Places, Forwarding
  <2>3. QED
    BY <1>1, <2>1, <2>2, MovesHeard
<1>3. req[r].sent \in {<<>>, <<Instructed>>}
  BY <1>1 DEF PlaceOK
<1>4. CASE CountGrant(r)
  <2>1. "cloud" \in Providers /\ "none" \in Notes /\ Forward(r, "cloud", "none")
    BY <1>4 DEF CountGrant, Providers, Notes
  <2>2. QED
    BY <1>1, <1>3, <2>1, ForwardHeard
<1>5. CASE CountDenial(r)
  <2>1. "local" \in Providers /\ "unavailable" \in Notes /\ Forward(r, "local", "unavailable")
    BY <1>5 DEF CountDenial, Fallback, Providers, Notes
  <2>2. QED
    BY <1>1, <1>3, <2>1, ForwardHeard
<1>6. QED
  BY <1>2, <1>4, <1>5 DEF EscalateStep

\* What a forwarded request is answered is not the attempt, and neither is a
\* hang-up an answer.
LEMMA ForwardedHeard ==
    ASSUME IInv, HeardInv, NEW r \in Requests, ForwardStep(r) \/ Cancel(r)
    PROVE  HeardInv'
<1>1. cfg' = cfg /\ heard' = heard
  BY DEF ForwardStep, ForwardTransportError, ForwardErrorStatus, ForwardErrorBody,
         ForwardOk, Cancel
<1>2. PlaceOK(r) /\ HeardOK(r)
  BY DEF IInv, TaskInv, HeardInv
<1>3. CASE Cancel(r)
  <2>1. \E result \in Results \ {"answer"} : Respond(r, result)
    BY <1>3 DEF Cancel, Results
  <2>2. req[r].result = "none"
    BY <1>2, <1>3 DEF Cancel, PlaceOK, At, Awaits
  <2>3. QED
    BY <1>1, <2>1, <2>2, MovesHeard
<1>4. CASE ForwardTransportError(r) \/ ForwardErrorBody(r)
  <2>1. \E result \in Results \ {"answer"} : Respond(r, result)
    BY <1>4 DEF ForwardTransportError, ForwardErrorBody, Results
  <2>2. req[r].result = "none"
    BY <1>2, <1>4 DEF ForwardTransportError, ForwardErrorBody, PlaceOK, At
  <2>3. QED
    BY <1>1, <2>1, <2>2, MovesHeard
<1>5. CASE ForwardErrorStatus(r)
  <2> DEFINE t == With(r, "reading_forward_error", req[r].trigger, req[r].sent, req[r].result)
  <2>1. Becomes(r, t)
    BY <1>5, GotoFacts DEF ForwardErrorStatus, IInv, Places, Awaits
  <2>2. req[r].sent # <<Instructed>>
    BY <1>2, <1>5 DEF ForwardErrorStatus, HeardOK, At, Forwarding
  <2>3. Fits(t, heard[r])
    BY <1>2, <2>2 DEF HeardOK, Fits, With
  <2> HIDE DEF t
  <2>4. QED
    BY <1>1, <2>1, <2>3, UnheardStep
<1>6. CASE ForwardOk(r)
  <2> DEFINE t == With(r, "done", req[r].trigger, req[r].sent, "answer")
  <2>1. Becomes(r, t)
    BY <1>6, RespondFacts DEF ForwardOk, IInv, Results
  <2>2. req[r].sent # <<Instructed>>
    BY <1>2, <1>6 DEF ForwardOk, HeardOK, At, Forwarding
  <2>3. Fits(t, heard[r])
    BY <1>2, <2>2 DEF HeardOK, Fits, With, Forwarding
  <2> HIDE DEF t
  <2>4. QED
    BY <1>1, <2>1, <2>3, UnheardStep
<1>7. QED
  BY <1>3, <1>4, <1>5, <1>6 DEF ForwardStep

\* Nothing is heard before anything is asked.
LEMMA InitHeard == Init => HeardInv
BY DEF Init, HeardInv, Heard, HeardOK, At, Forwarding

\* Whatever happens to cfg, the tasks and what they heard, if nothing does.
LEMMA StillHeard ==
    ASSUME HeardInv, cfg' = cfg, req' = req, heard' = heard
    PROVE  HeardInv'
BY DEF HeardInv, HeardOK, At

\* HeardInv is inductive beside IInv.
LEMMA NextHeard == IInv /\ HeardInv /\ [Next]_vars => HeardInv'
<1> SUFFICES ASSUME IInv, HeardInv, [Next]_vars PROVE HeardInv'
  OBVIOUS
<1>1. CASE ReadBudget \/ UNCHANGED vars
  <2>1. cfg' = cfg /\ req' = req /\ heard' = heard
    BY <1>1 DEF ReadBudget, vars
  <2>2. QED
    BY <2>1, StillHeard
<1>2. ASSUME NEW r \in Requests, Begin(r) \/ Progress(r) \/ Cancel(r)
      PROVE  HeardInv'
  BY <1>2, BeginHeard, LocalHeard, EscalateHeard, ForwardedHeard DEF Progress
<1>3. QED
  BY <1>1, <1>2 DEF Next

\* What every task goes by is what it heard.
THEOREM HeardAlways == Spec => []HeardInv
<1>1. Init => IInv /\ HeardInv
  BY InitIInv, InitHeard
<1>2. IInv /\ HeardInv /\ [Next]_vars => IInv' /\ HeardInv'
  BY NextIInv, NextHeard
<1>3. QED
  BY <1>1, <1>2, PTL DEF Spec

\* The cause of a grant is the cause the task escalated for, and what the task
\* heard is what it escalated for.
LEMMA InvCauses == IInv /\ HeardInv => EscalationHasCause
<1> SUFFICES ASSUME IInv, HeardInv PROVE EscalationHasCause
  OBVIOUS
<1>1. ASSUME NEW r \in Requests
      PROVE  /\ PlaceOK(r) /\ CauseOK(r) /\ HeardOK(r)
             /\ req[r].trigger \in Triggers \cup {"none"}
  BY Fields DEF IInv, TaskInv, HeardInv
<1>2. ASSUME NEW r \in Requests, Granted(r)
      PROVE  CASE req[r].trigger = "sentinel" -> heard[r] = "sentinel"
               [] req[r].trigger = "fail_mode" ->
                    cfg.failMode = "cloud" /\ (heard[r] = "failed" \/ cfg.state["local"] # "ok")
               [] req[r].trigger = "sticky" ->
                    \E q \in Requests \ {r} : req[q].key = req[r].key /\ Granted(q)
               [] OTHER -> FALSE
  <2>1. req[r].trigger \in Triggers
    BY <1>1, <1>2 DEF PlaceOK, Granted
  <2>2. QED
    BY <1>1, <2>1 DEF CauseOK, HeardOK, Triggers
<1>3. ASSUME NEW r \in Requests, req[r].result = "answer" /\ req[r].sent = <<Instructed>>
      PROVE  heard[r] = "clean"
  BY <1>1, <1>3 DEF HeardOK
<1>4. QED
  BY <1>2, <1>3 DEF EscalationHasCause

\* No grant without a cause that is still there: a refusal the local tier did
\* send, an attempt that did fail under fail_mode = cloud, or a granted request
\* of the conversation; and no failed attempt is taken for an answer.
THEOREM Causes == Spec => []EscalationHasCause
BY InvCauses, CascadeInvariant, HeardAlways, PTL

\* A conversation that has been to the cloud never goes back through a local
\* attempt, whatever became of the request that took it there.
THEOREM Stickiness == Spec => []StickyConversation
<1>1. IInv => StickyConversation
  <2> SUFFICES ASSUME IInv, NEW r \in Requests, req[r].afterCloud
               PROVE  Instructed \notin {req[r].sent[i] : i \in DOMAIN req[r].sent}
    BY DEF StickyConversation
  <2>1. PlaceOK(r) /\ SentOK(r) /\ MarkOK(r)
    BY DEF IInv, TaskInv
  <2>2. req[r].sent = <<>> \/ req[r].trigger = "sticky"
    BY <2>1 DEF PlaceOK, MarkOK, At, Fresh
  <2>3. req[r].sent \in {<<>>, <<Copy("cloud")>>, <<WithNote>>}
    BY <2>1, <2>2 DEF SentOK
  <2>4. Copy("cloud") # Instructed /\ WithNote # Instructed
    BY DEF Copy, WithNote, Instructed
  <2>5. ASSUME NEW i \in DOMAIN req[r].sent
        PROVE  req[r].sent[i] \in {Copy("cloud"), WithNote}
    BY <2>3
  <2>6. QED
    BY <2>4, <2>5
<1>2. QED
  BY <1>1, CascadeInvariant, PTL

-----------------------------------------------------------------------------
\* The ring.

\* The history and its log change only in record_escalation.
LEMMA HistoryStep ==
    ASSUME IInv, [Next]_vars
    PROVE  \/ UNCHANGED <<history, log>>
           \/ \E trigger \in Triggers \cup {"budget_denied"},
                 key \in ConversationKeys \cup {NoKey} : Recorded(trigger, key)
<1>1. CASE ReadBudget
  BY <1>1 DEF ReadBudget
<1>2. ASSUME NEW r \in Requests, Begin(r)
      PROVE  UNCHANGED <<history, log>>
  BY <1>2 DEF Begin, Arrive, ArriveExplicit, ArriveUnusable, shared
<1>3. ASSUME NEW r \in Requests, LocalStep(r)
      PROVE  UNCHANGED <<history, log>>
  BY <1>3 DEF LocalStep, CheckSticky, StartAttempt, AttemptTransportError,
              AttemptErrorStatus, AttemptErrorBody, AttemptOk, AttemptSentinel,
              AttemptClean, AttemptBodyError, shared
<1>4. ASSUME NEW r \in Requests, ForwardStep(r)
      PROVE  UNCHANGED <<history, log>>
  BY <1>4 DEF ForwardStep, ForwardTransportError, ForwardErrorStatus,
              ForwardErrorBody, ForwardOk, shared
<1>5. ASSUME NEW r \in Requests, Cancel(r)
      PROVE  UNCHANGED <<history, log>>
  BY <1>5 DEF Cancel, shared
<1>6. ASSUME NEW r \in Requests, EscalateStep(r)
      PROVE  \/ UNCHANGED <<history, log>>
             \/ \E trigger \in Triggers \cup {"budget_denied"},
                   key \in ConversationKeys \cup {NoKey} : Recorded(trigger, key)
  <2>1. req[r].key \in ConversationKeys \cup {NoKey}
    BY Fields DEF IInv
  <2>2. CASE RecordGrant(r)
    <3>1. req[r].trigger \in Triggers
      BY <2>2 DEF RecordGrant, IInv, TaskInv, PlaceOK, At, Escalating
    <3>2. QED
      BY <2>1, <2>2, <3>1 DEF RecordGrant
  <2>3. CASE RecordDenial(r)
    BY <2>1, <2>3 DEF RecordDenial
  <2>4. CASE TryReserve(r) \/ MarkCloud(r) \/ CountGrant(r) \/ CountDenial(r)
    BY <2>4 DEF TryReserve, MarkCloud, CountGrant, CountDenial, shared
  <2>5. QED
    BY <1>6, <2>2, <2>3, <2>4 DEF EscalateStep
<1>7. CASE UNCHANGED vars
  BY <1>7 DEF vars
<1>8. QED
  BY <1>1, <1>2, <1>3, <1>4, <1>5, <1>6, <1>7 DEF Next, Progress

\* R is the newest end of L, as much of it as the ring takes.
NewestOf(R, L) ==
    /\ Len(R) = IF Len(L) < HistoryCap THEN Len(L) ELSE HistoryCap
    /\ \A i \in 1..Len(R) : R[i] = L[Len(L) - Len(R) + i]

\* Appending a record keeps the ring the newest end of the log.
LEMMA RingKept ==
    ASSUME NEW R \in Seq(Event), NEW L \in Seq(Event), NEW e \in Event,
           NewestOf(R, L)
    PROVE  NewestOf(Append(Kept(R), e), Append(L, e))
<1> DEFINE K == Kept(R)
           S == Append(K, e)
           M == Append(L, e)
<1>0. /\ Len(R) = IF Len(L) < HistoryCap THEN Len(L) ELSE HistoryCap
      /\ \A i \in 1..Len(R) : R[i] = L[Len(L) - Len(R) + i]
  BY DEF NewestOf
<1>1. /\ Len(R) \in Nat /\ Len(L) \in Nat /\ HistoryCap \in Nat \ {0}
  BY LenProperties, HistoryCapAssumption
<1>2. /\ K \in Seq(Event)
      /\ Len(K) = (IF Len(R) = HistoryCap THEN Len(R) - 1 ELSE Len(R))
      /\ \A i \in 1..Len(K) : K[i] = R[Len(R) - Len(K) + i]
  <2>1. CASE Len(R) = HistoryCap
    <3>1. R # <<>>
      BY <1>1, <2>1, EmptySeq
    <3>2. K = Tail(R)
      BY <2>1 DEF Kept
    <3>3. /\ K \in Seq(Event) /\ Len(K) = Len(R) - 1
          /\ \A i \in 1..Len(K) : K[i] = R[i + 1]
      BY <3>1, <3>2, HeadTailProperties
    <3> HIDE DEF K
    <3>4. \A i \in 1..Len(K) : Len(R) - Len(K) + i = i + 1
      BY <1>1, <3>3
    <3>5. QED
      BY <2>1, <3>3, <3>4
  <2>2. CASE Len(R) # HistoryCap
    <3>1. K = R
      BY <2>2 DEF Kept
    <3> HIDE DEF K
    <3>2. \A i \in 1..Len(R) : Len(R) - Len(R) + i = i
      BY <1>1
    <3>3. QED
      BY <2>2, <3>1, <3>2
  <2>3. QED
    BY <2>1, <2>2
<1> HIDE DEF K
<1>3. /\ Len(S) = Len(K) + 1 /\ S[Len(K) + 1] = e
      /\ \A i \in 1..Len(K) : S[i] = K[i]
  BY <1>2, AppendProperties, SMTT(30)
<1>4. /\ Len(M) = Len(L) + 1 /\ M[Len(L) + 1] = e
      /\ \A i \in 1..Len(L) : M[i] = L[i]
  BY AppendProperties
<1> HIDE DEF S, M
<1>5. Len(K) \in Nat /\ Len(K) <= Len(R) /\ Len(R) <= Len(L)
  BY <1>0, <1>1, <1>2
<1>6. Len(S) = (IF Len(M) < HistoryCap THEN Len(M) ELSE HistoryCap)
  BY <1>0, <1>1, <1>2, <1>3, <1>4
<1>7. ASSUME NEW i \in 1..Len(S)
      PROVE  S[i] = M[Len(M) - Len(S) + i]
  <2>1. CASE i = Len(K) + 1
    BY <1>1, <1>3, <1>4, <1>5, <2>1
  <2>2. CASE i # Len(K) + 1
    <3>1. i \in 1..Len(K) /\ Len(R) - Len(K) + i \in 1..Len(R)
      BY <1>3, <1>5, <1>1, <2>2
    <3>2. S[i] = R[Len(R) - Len(K) + i]
      BY <1>2, <1>3, <3>1
    <3>3. R[Len(R) - Len(K) + i] = L[Len(L) - Len(R) + (Len(R) - Len(K) + i)]
      BY <1>0, <3>1
    <3>4. Len(L) - Len(R) + (Len(R) - Len(K) + i) = Len(M) - Len(S) + i
      <4> DEFINE a == Len(L)
                 b == Len(R)
                 c == Len(K)
      <4>1. a \in Int /\ b \in Int /\ c \in Int /\ i \in Int
        BY <1>1, <1>5, <3>1
      <4>2. Len(M) = a + 1 /\ Len(S) = c + 1
        BY <1>3, <1>4
      <4> HIDE DEF a, b, c
      <4>3. a - b + (b - c + i) = Len(M) - Len(S) + i
        BY <4>1, <4>2
      <4>4. QED
        BY <4>3 DEF a, b, c
    <3>5. Len(M) - Len(S) + i \in 1..Len(L)
      BY <1>1, <1>3, <1>4, <1>5, <3>1
    <3>6. QED
      BY <1>4, <3>2, <3>3, <3>4, <3>5
  <2>3. QED
    BY <2>1, <2>2
<1>8. QED
  BY <1>6, <1>7 DEF NewestOf, S, M, K

\* The newest end of a sequence, element by element.
LEMMA NewestEnd ==
    ASSUME NEW R \in Seq(Event), NEW L \in Seq(Event)
    PROVE  NewestOf(R, L) <=>
             /\ Len(R) = IF Len(L) < HistoryCap THEN Len(L) ELSE HistoryCap
             /\ R = SubSeq(L, Len(L) - Len(R) + 1, Len(L))
<1> DEFINE n == Len(R)
           U == SubSeq(L, Len(L) - n + 1, Len(L))
<1>0. SUFFICES ASSUME n = IF Len(L) < HistoryCap THEN Len(L) ELSE HistoryCap
               PROVE  R = U <=> \A i \in 1..n : R[i] = L[Len(L) - n + i]
  BY DEF NewestOf
<1>1. n \in Nat /\ Len(L) \in Nat /\ n <= Len(L)
  <2>1. Len(R) \in Nat /\ Len(L) \in Nat /\ HistoryCap \in Nat
    BY LenProperties, HistoryCapAssumption
  <2>2. QED
    BY <1>0, <2>1
<1> HIDE DEF n
<1>2. \A i \in (Len(L) - n + 1)..Len(L) : L[i] \in Event
  BY <1>1, ElementOfSeq
<1>3. /\ U \in Seq(Event)
      /\ Len(U) = n
      /\ \A i \in 1..n : U[i] = L[Len(L) - n + i]
  <2>1. /\ U \in Seq(Event)
        /\ Len(U) = (IF Len(L) - n + 1 <= Len(L) THEN Len(L) - (Len(L) - n + 1) + 1 ELSE 0)
        /\ \A i \in 1..(Len(L) - (Len(L) - n + 1) + 1) : U[i] = L[Len(L) - n + 1 + i - 1]
    BY <1>1, <1>2, SubSeqProperties
  <2> HIDE DEF U
  <2>2. \A i \in 1..n : Len(L) - n + 1 + i - 1 = Len(L) - n + i
    BY <1>1
  <2>3. QED
    BY <1>1, <2>1, <2>2
<1> HIDE DEF U
<1>4. Len(R) = n
  BY DEF n
<1>5. (\A i \in 1..n : R[i] = L[Len(L) - n + i]) => R = U
  BY <1>3, <1>4, SeqEqual
<1>6. QED
  BY <1>3, <1>4, <1>5

\* The ring of /status is the newest end of all the records there ever were,
\* and the two totals survive what it gives up.
THEOREM Newest == Spec => []HistoryIsNewest
<1>1. Init => HistoryIsNewest
  <2> SUFFICES ASSUME Init PROVE HistoryIsNewest
    OBVIOUS
  <2>1. /\ history.records = <<>> /\ log = <<>>
        /\ history.total_escalations = 0 /\ history.total_budget_denied = 0
    BY DEF Init
  <2>2. Len(<<>>) = 0 /\ 0 < HistoryCap /\ SubSeq(<<>>, 1, 0) = <<>>
    BY HistoryCapAssumption, SubSeqEmpty
  <2>3. QED
    BY <2>1, <2>2 DEF HistoryIsNewest
<1>2. IInv /\ IInv' /\ HistoryIsNewest /\ [Next]_vars => HistoryIsNewest'
  <2> SUFFICES ASSUME IInv, IInv', HistoryIsNewest, [Next]_vars PROVE HistoryIsNewest'
    OBVIOUS
  <2>1. CASE UNCHANGED <<history, log>>
    BY <2>1 DEF HistoryIsNewest
  <2>2. ASSUME NEW trigger \in Triggers \cup {"budget_denied"},
               NEW key \in ConversationKeys \cup {NoKey}, Recorded(trigger, key)
        PROVE  HistoryIsNewest'
    <3>1. PICK e \in Event :
              history'.records = Append(Kept(history.records), e) /\ log' = Append(log, e)
      BY <2>2, RecordedFacts DEF IInv
    <3>2. /\ history.records \in Seq(Event) /\ log \in Seq(Event)
          /\ history.total_escalations \in Nat /\ history.total_budget_denied \in Nat
      BY DEF IInv, TypeOK, Histories
    <3>3. /\ NewestOf(history.records, log)
          /\ history.total_escalations + history.total_budget_denied = Len(log)
      BY <3>2, NewestEnd DEF HistoryIsNewest
    <3>4. NewestOf(history'.records, log')
      BY <3>1, <3>2, <3>3, RingKept
    <3>5. history'.total_escalations + history'.total_budget_denied = Len(log')
      <4>1. Len(log') = Len(log) + 1
        BY <3>1, <3>2, AppendProperties
      <4>2. /\ history'.total_escalations = history.total_escalations
                 + IF trigger = "budget_denied" THEN 0 ELSE 1
            /\ history'.total_budget_denied = history.total_budget_denied
                 + IF trigger = "budget_denied" THEN 1 ELSE 0
        BY <2>2, RecordedFacts DEF IInv
      <4>3. QED
        BY <3>2, <3>3, <4>1, <4>2
    <3>6. history'.records \in Seq(Event) /\ log' \in Seq(Event)
      BY DEF IInv, TypeOK, Histories
    <3>7. QED
      BY <3>4, <3>5, <3>6, NewestEnd DEF HistoryIsNewest
  <2>3. QED
    BY <2>1, <2>2, HistoryStep
<1>3. QED
  BY <1>1, <1>2, CascadeInvariant, PTL DEF Spec

-----------------------------------------------------------------------------
\* The three ledgers.

\* The places where a task still owes an entry to one of the ledgers.
Owing == {"reserved", "record", "count_grant", "count_denial"}

\* A step of r that no ledger takes note of.
QuietMove(r) ==
    /\ UNCHANGED <<cfg, shared>>
    /\ \A q \in Requests \ {r} : req'[q] = req[q]
    /\ req'[r].trigger = req[r].trigger \/ answer[r] = "none"
    /\ req[r].at \notin Owing /\ req'[r].at \notin Owing
    /\ metrics'.denied = metrics.denied
    /\ metrics'.escalations = metrics.escalations

\* What every step does to the tasks, whichever building block it is made of.
LEMMA Blocks ==
    ASSUME IInv, NEW r \in Requests,
           \/ \E result \in Results : Respond(r, result)
           \/ \E place \in Places \ Owing : Goto(r, place)
           \/ answer[r] = "none" /\ \E trigger \in Triggers : Escalate(r, trigger)
           \/ \E p \in Providers, note \in Notes, place \in Places \ Owing :
                  Send(r, p, note, place)
           \/ \E k \in ConversationKeys : Enter(r, k)
    PROVE  /\ \A q \in Requests \ {r} : req'[q] = req[q]
           /\ req'[r].trigger = req[r].trigger \/ answer[r] = "none"
           /\ req'[r].at \notin Owing
<1>1. TypeOK
  BY DEF IInv
<1>2. ASSUME NEW result \in Results, Respond(r, result)
      PROVE  /\ \A q \in Requests \ {r} : req'[q] = req[q]
             /\ req'[r].trigger = req[r].trigger /\ req'[r].at \notin Owing
  <2>1. Becomes(r, With(r, "done", req[r].trigger, req[r].sent, result))
    BY <1>1, <1>2, RespondFacts
  <2>2. QED
    BY <2>1 DEF Becomes, With, Owing
<1>3. ASSUME NEW place \in Places \ Owing, Goto(r, place)
      PROVE  /\ \A q \in Requests \ {r} : req'[q] = req[q]
             /\ req'[r].trigger = req[r].trigger /\ req'[r].at \notin Owing
  <2>1. Becomes(r, With(r, place, req[r].trigger, req[r].sent, req[r].result))
    BY <1>1, <1>3, GotoFacts
  <2>2. QED
    BY <2>1 DEF Becomes, With
<1>4. ASSUME NEW trigger \in Triggers, Escalate(r, trigger)
      PROVE  /\ \A q \in Requests \ {r} : req'[q] = req[q]
             /\ req'[r].at \notin Owing
  <2>1. Becomes(r, With(r, "escalate", trigger, req[r].sent, req[r].result))
    BY <1>1, <1>4, EscalateFacts
  <2>2. QED
    BY <2>1 DEF Becomes, With, Owing
<1>5. ASSUME NEW p \in Providers, NEW note \in Notes, NEW place \in Places \ Owing,
             Send(r, p, note, place)
      PROVE  /\ \A q \in Requests \ {r} : req'[q] = req[q]
             /\ req'[r].trigger = req[r].trigger /\ req'[r].at \notin Owing
  <2>1. Becomes(r, With(r, place, req[r].trigger,
                       Append(req[r].sent, [to |-> p, note |-> note]), req[r].result))
    BY <1>1, <1>5, SendFacts
  <2>2. QED
    BY <2>1 DEF Becomes, With
<1>6. ASSUME NEW k \in ConversationKeys, Enter(r, k)
      PROVE  /\ \A q \in Requests \ {r} : req'[q] = req[q]
             /\ req'[r].trigger = req[r].trigger /\ req'[r].at \notin Owing
  <2> DEFINE b == k # NoKey /\ \E q \in Requests : req[q].key = k /\ WentToCloud(q)
  <2>1. Becomes(r, [at |-> "check_sticky", key |-> k, trigger |-> req[r].trigger,
                    sent |-> req[r].sent, result |-> req[r].result, afterCloud |-> b])
    BY <1>1, <1>6, EnterFacts
  <2> HIDE DEF b
  <2>2. QED
    BY <2>1 DEF Becomes, Owing
<1>7. QED
  BY <1>2, <1>3, <1>4, <1>5, <1>6

\* A failed attempt responds or escalates.
LEMMA LocalFailedBlocks ==
    ASSUME NEW r \in Requests, NEW result \in Results, LocalFailed(r, result)
    PROVE  (\E x \in Results : Respond(r, x)) \/ \E t \in Triggers : Escalate(r, t)
BY DEF LocalFailed, Triggers

\* forward responds with a failed lookup or sends.
LEMMA ForwardBlocks ==
    ASSUME NEW r \in Requests, NEW p \in Providers, NEW note \in Notes, Forward(r, p, note)
    PROVE  \/ Respond(r, LookupError(p)) /\ LookupError(p) \in {"UnknownProvider", "MissingApiKey"}
           \/ Send(r, p, note, "awaiting_forward")
BY DEF Forward, LookupError

\* Everything a task does before it asks the budget and after it has settled
\* with the ledgers is quiet.
LEMMA QuietMoves ==
    ASSUME IInv, NEW r \in Requests,
           Begin(r) \/ LocalStep(r) \/ ForwardStep(r) \/ Cancel(r)
    PROVE  QuietMove(r)
<1> DEFINE Block ==
        \/ \E result \in Results : Respond(r, result)
        \/ \E place \in Places \ Owing : Goto(r, place)
        \/ answer[r] = "none" /\ \E trigger \in Triggers : Escalate(r, trigger)
        \/ \E p \in Providers, note \in Notes, place \in Places \ Owing :
               Send(r, p, note, place)
        \/ \E k \in ConversationKeys : Enter(r, k)
           Same == metrics'.denied = metrics.denied /\ metrics'.escalations = metrics.escalations
<1>1. SUFFICES UNCHANGED <<cfg, shared>> /\ req[r].at \notin Owing /\ Same /\ Block
  BY Blocks DEF QuietMove
<1>2. /\ "local" \in Providers /\ "named" \in Providers /\ {"none", "instruction"} \subseteq Notes
      /\ {"attempt", "reading_error", "reading_attempt", "awaiting_attempt", "awaiting_forward",
          "reading_forward_error"} \subseteq Places \ Owing
      /\ {"static", "local"} \subseteq Tiers /\ Outcomes = {"ok", "upstream_error", "transport_error"}
      /\ {"UnknownProvider", "MissingApiKey", "InvalidJson", "panic", "transport_error",
          "upstream_error", "answer", "cancelled_unanswered", "cancelled_reading"} \subseteq Results
      /\ {"sticky", "sentinel", "fail_mode"} = Triggers
  BY DEF Providers, Notes, Places, Awaits, Owing, Tiers, Outcomes, Results, Triggers
<1>3. TypeOK /\ metrics \in Counters
  BY DEF IInv, TypeOK
<1>4. answer[r] = "none" \/ (req[r].at \notin Fresh /\ req[r].at \notin Trying)
  BY DEF IInv, TaskInv, PlaceOK
<1>5. ASSUME NEW p \in Providers, NEW o \in Outcomes, Observe(p, o)
      PROVE  Same
  BY <1>3, <1>5, ObserveFacts
<1> HIDE DEF Block, Same
<1>6. CASE Begin(r)
  <2>1. CASE Arrive(r)
    <3>1. Block
      BY <2>1 DEF Arrive, Block
    <3>2. QED
      BY <2>1, <3>1 DEF Arrive, At, Owing, Same
  <2>2. CASE ArriveExplicit(r)
    <3>1. Block
      BY <1>2, <2>2, ForwardBlocks DEF ArriveExplicit, Block
    <3>2. Same
      BY <1>2, <1>3, <2>2, TierFacts DEF ArriveExplicit, Same
    <3>3. QED
      BY <2>2, <3>1, <3>2 DEF ArriveExplicit, At, Owing
  <2>3. CASE ArriveUnusable(r)
    <3>1. Block
      BY <1>2, <2>3 DEF ArriveUnusable, Block
    <3>2. QED
      BY <2>3, <3>1 DEF ArriveUnusable, At, Owing, Same
  <2>4. QED
    BY <1>6, <2>1, <2>2, <2>3 DEF Begin
<1>7. CASE LocalStep(r)
  <2>1. ASSUME NEW result \in Results, LocalFailed(r, result), answer[r] = "none"
        PROVE  Block
    BY <2>1, LocalFailedBlocks DEF Block
  <2>2. CASE CheckSticky(r)
    <3>1. Block
      BY <1>2, <1>4, <2>2 DEF CheckSticky, Block, At, Fresh
    <3>2. QED
      BY <2>2, <3>1 DEF CheckSticky, At, Owing, Same
  <2>3. CASE StartAttempt(r)
    <3>1. Block
      <4>1. CASE cfg.state["local"] = "ok"
        BY <1>2, <2>3, <4>1 DEF StartAttempt, Block
      <4>2. CASE cfg.state["local"] # "ok"
        <5>1. LookupError("local") \in Results
          BY <1>2 DEF LookupError
        <5>2. answer[r] = "none"
          BY <1>4, <2>3 DEF StartAttempt, At, Fresh
        <5>3. QED
          BY <2>1, <2>3, <4>2, <5>1, <5>2 DEF StartAttempt
      <4>3. QED
        BY <4>1, <4>2
    <3>2. Same
      BY <1>2, <1>3, <2>3, TierFacts DEF StartAttempt, Same
    <3>3. QED
      BY <2>3, <3>1, <3>2 DEF StartAttempt, At, Owing
  <2>4. CASE AttemptTransportError(r)
    <3>1. Block
      BY <1>2, <1>4, <2>1, <2>4 DEF AttemptTransportError, At, Trying
    <3>2. QED
      BY <1>2, <1>5, <2>4, <3>1 DEF AttemptTransportError, At, Owing
  <2>5. CASE AttemptErrorStatus(r) \/ AttemptOk(r)
    <3>1. Block
      BY <1>2, <2>5 DEF AttemptErrorStatus, AttemptOk, Block
    <3>2. QED
      BY <1>2, <1>5, <2>5, <3>1 DEF AttemptErrorStatus, AttemptOk, At, Owing
  <2>6. CASE AttemptErrorBody(r) \/ AttemptBodyError(r)
    <3>1. Block
      BY <1>2, <1>4, <2>1, <2>6 DEF AttemptErrorBody, AttemptBodyError, At, Trying
    <3>2. QED
      BY <2>6, <3>1 DEF AttemptErrorBody, AttemptBodyError, At, Owing, Same
  <2>7. CASE AttemptSentinel(r)
    <3>1. Block
      BY <1>2, <1>4, <2>7 DEF AttemptSentinel, At, Trying, Block
    <3>2. QED
      BY <2>7, <3>1 DEF AttemptSentinel, At, Owing, Same
  <2>8. CASE AttemptClean(r)
    <3>1. Block
      BY <1>2, <2>8 DEF AttemptClean, Block
    <3>2. QED
      BY <2>8, <3>1 DEF AttemptClean, At, Owing, Same
  <2>9. QED
    BY <1>7, <2>2, <2>3, <2>4, <2>5, <2>6, <2>7, <2>8 DEF LocalStep
<1>8. CASE ForwardStep(r)
  <2>1. req[r].at \in Forwarding => Upstream(r) \in Providers
    BY UpstreamTyped
  <2>2. CASE ForwardTransportError(r) \/ ForwardOk(r) \/ ForwardErrorStatus(r)
    <3>1. Block
      BY <1>2, <2>2 DEF ForwardTransportError, ForwardOk, ForwardErrorStatus, Block
    <3>2. Same
      BY <1>2, <1>5, <2>1, <2>2
      DEF ForwardTransportError, ForwardOk, ForwardErrorStatus, At, Forwarding
    <3>3. QED
      BY <2>2, <3>1, <3>2 DEF ForwardTransportError, ForwardOk, ForwardErrorStatus, At, Owing
  <2>3. CASE ForwardErrorBody(r)
    <3>1. Block
      BY <1>2, <2>3 DEF ForwardErrorBody, Block
    <3>2. QED
      BY <2>3, <3>1 DEF ForwardErrorBody, At, Owing, Same
  <2>4. QED
    BY <1>8, <2>2, <2>3 DEF ForwardStep
<1>9. CASE Cancel(r)
  <2>1. Block
    BY <1>2, <1>9 DEF Cancel, Block
  <2>2. QED
    BY <1>9, <2>1 DEF Cancel, Awaits, Owing, Same
<1>10. QED
  BY <1>6, <1>7, <1>8, <1>9

\* There are finitely many requests, of any kind.
LEMMA SomeRequests == \A S \in SUBSET Requests : IsFiniteSet(S)
BY RequestsAssumption, FS_Subset

\* The sets counted are finite.
LEMMA FiniteSets ==
    /\ IsFiniteSet(GrantedRequests) /\ IsFiniteSet(LoggedGrants)
    /\ IsFiniteSet(LoggedDenials) /\ IsFiniteSet(CountedDenials)
    /\ \A t : IsFiniteSet(CountedGrants(t))
<1>1. \A S \in SUBSET Requests : IsFiniteSet(S)
  BY SomeRequests
<1>2. /\ GrantedRequests \in SUBSET Requests /\ LoggedGrants \in SUBSET Requests
      /\ LoggedDenials \in SUBSET Requests /\ CountedDenials \in SUBSET Requests
      /\ \A t : CountedGrants(t) \in SUBSET Requests
  BY DEF GrantedRequests, LoggedGrants, LoggedDenials, CountedDenials, CountedGrants
<1>3. QED
  BY <1>1, <1>2

\* One request more is one more.
LEMMA OneMore ==
    ASSUME NEW S, IsFiniteSet(S), NEW x, x \notin S, NEW T, T = S \cup {x}
    PROVE  Cardinality(S) \in Nat /\ Cardinality(T) = Cardinality(S) + 1
BY FS_CardinalityType, FS_AddElement

\* Only what happens to r decides who is in the sets after a step of r.
LEMMA OthersCounted ==
    ASSUME NEW r \in Requests,
           \A q \in Requests \ {r} : req'[q] = req[q] /\ answer'[q] = answer[q]
    PROVE  \A q \in Requests \ {r} :
              /\ q \in GrantedRequests' <=> q \in GrantedRequests
              /\ q \in LoggedGrants' <=> q \in LoggedGrants
              /\ q \in LoggedDenials' <=> q \in LoggedDenials
              /\ q \in CountedDenials' <=> q \in CountedDenials
              /\ \A t : q \in CountedGrants(t)' <=> q \in CountedGrants(t)
BY DEF GrantedRequests, LoggedGrants, LoggedDenials, CountedDenials, CountedGrants,
       Granted, Denied, At

\* The sets of requests, before and after.
LEMMA OnlyRequests ==
    /\ GrantedRequests \subseteq Requests /\ LoggedGrants \subseteq Requests
    /\ LoggedDenials \subseteq Requests /\ CountedDenials \subseteq Requests
    /\ \A t : CountedGrants(t) \subseteq Requests
    /\ GrantedRequests' \subseteq Requests /\ LoggedGrants' \subseteq Requests
    /\ LoggedDenials' \subseteq Requests /\ CountedDenials' \subseteq Requests
    /\ \A t : CountedGrants(t)' \subseteq Requests
BY DEF GrantedRequests, LoggedGrants, LoggedDenials, CountedDenials, CountedGrants

\* The membership of r, from its place, its answer and its trigger.
LEMMA Membership ==
    ASSUME NEW r \in Requests
    PROVE  /\ r \in GrantedRequests <=> answer[r] = "granted"
           /\ r \in LoggedGrants <=>
                answer[r] = "granted" /\ req[r].at \notin {"reserved", "record"}
           /\ r \in LoggedDenials <=> answer[r] = "denied" /\ req[r].at # "reserved"
           /\ r \in CountedDenials <=>
                answer[r] = "denied" /\ req[r].at \notin {"reserved", "count_denial"}
           /\ \A t : r \in CountedGrants(t) <=>
                /\ answer[r] = "granted" /\ req[r].trigger = t
                /\ req[r].at \notin {"reserved", "record", "count_grant"}
           /\ r \in GrantedRequests' <=> answer'[r] = "granted"
           /\ r \in LoggedGrants' <=>
                answer'[r] = "granted" /\ req'[r].at \notin {"reserved", "record"}
           /\ r \in LoggedDenials' <=> answer'[r] = "denied" /\ req'[r].at # "reserved"
           /\ r \in CountedDenials' <=>
                answer'[r] = "denied" /\ req'[r].at \notin {"reserved", "count_denial"}
           /\ \A t : r \in CountedGrants(t)' <=>
                /\ answer'[r] = "granted" /\ req'[r].trigger = t
                /\ req'[r].at \notin {"reserved", "record", "count_grant"}
BY DEF GrantedRequests, LoggedGrants, LoggedDenials, CountedDenials, CountedGrants,
       Granted, Denied, At

\* A quiet step leaves every set and every ledger as it was.
LEMMA QuietLedgers ==
    ASSUME LedgersAgree, NEW r \in Requests, QuietMove(r)
    PROVE  LedgersAgree'
<1>1. /\ answer' = answer /\ used' = used /\ history' = history
      /\ metrics'.denied = metrics.denied /\ metrics'.escalations = metrics.escalations
  BY DEF QuietMove, shared
<1>2. /\ r \in GrantedRequests' <=> r \in GrantedRequests
      /\ r \in LoggedGrants' <=> r \in LoggedGrants
      /\ r \in LoggedDenials' <=> r \in LoggedDenials
      /\ r \in CountedDenials' <=> r \in CountedDenials
      /\ \A t : r \in CountedGrants(t)' <=> r \in CountedGrants(t)
  BY <1>1, Membership DEF QuietMove, Owing
<1>3. \A q \in Requests \ {r} : req'[q] = req[q] /\ answer'[q] = answer[q]
  BY <1>1 DEF QuietMove
<1>4. /\ GrantedRequests' = GrantedRequests /\ LoggedGrants' = LoggedGrants
      /\ LoggedDenials' = LoggedDenials /\ CountedDenials' = CountedDenials
      /\ \A t : CountedGrants(t)' = CountedGrants(t)
  BY <1>2, <1>3, OthersCounted, OnlyRequests, SMTT(30)
<1>5. QED
  BY <1>1, <1>4 DEF LedgersAgree

\* A step of the escalation moves its task to the next place, in the order of
\* the code.
LEMMA EscalateMoves ==
    ASSUME IInv, NEW r \in Requests
    PROVE  /\ \A place \in Places : Goto(r, place) =>
                /\ req'[r].at = place /\ req'[r].trigger = req[r].trigger
                /\ \A q \in Requests \ {r} : req'[q] = req[q]
           /\ \A p \in Providers, note \in Notes : Forward(r, p, note) =>
                /\ req'[r].at \notin Owing /\ req'[r].trigger = req[r].trigger
                /\ \A q \in Requests \ {r} : req'[q] = req[q]
<1>1. ASSUME NEW place \in Places, Goto(r, place)
      PROVE  /\ req'[r].at = place /\ req'[r].trigger = req[r].trigger
             /\ \A q \in Requests \ {r} : req'[q] = req[q]
  <2>1. Becomes(r, With(r, place, req[r].trigger, req[r].sent, req[r].result))
    BY <1>1, GotoFacts DEF IInv
  <2>2. QED
    BY <2>1 DEF Becomes, With
<1>2. ASSUME NEW p \in Providers, NEW note \in Notes, Forward(r, p, note)
      PROVE  /\ req'[r].at \notin Owing /\ req'[r].trigger = req[r].trigger
             /\ \A q \in Requests \ {r} : req'[q] = req[q]
  <2>1. CASE Send(r, p, note, "awaiting_forward")
    <3>1. "awaiting_forward" \in Places
      BY DEF Places, Awaits
    <3>2. Becomes(r, With(r, "awaiting_forward", req[r].trigger,
                          Append(req[r].sent, [to |-> p, note |-> note]), req[r].result))
      BY <2>1, <3>1, SendFacts DEF IInv
    <3>3. QED
      BY <3>2 DEF Becomes, With, Owing
  <2>2. CASE Respond(r, LookupError(p)) /\ LookupError(p) \in {"UnknownProvider", "MissingApiKey"}
    <3>1. LookupError(p) \in Results
      BY <2>2 DEF Results
    <3>2. Becomes(r, With(r, "done", req[r].trigger, req[r].sent, LookupError(p)))
      BY <2>2, <3>1, RespondFacts DEF IInv
    <3>3. QED
      BY <3>2 DEF Becomes, With, Owing
  <2>3. QED
    BY <1>2, <2>1, <2>2, ForwardBlocks
<1>3. QED
  BY <1>1, <1>2

\* The permit: the pool counts no more than it has handed out.
LEMMA ReserveLedgers ==
    ASSUME IInv, LedgersAgree, NEW r \in Requests, TryReserve(r)
    PROVE  LedgersAgree'
<1>1. /\ At(r, "escalate") /\ history' = history /\ metrics' = metrics
      /\ used \in Nat /\ Cap \in Nat /\ answer \in [Requests -> Pool!Answers]
  BY CapAssumption DEF TryReserve, IInv, TypeOK
<1>2. answer[r] = "none"
  BY <1>1 DEF IInv, TaskInv, PlaceOK
<1>3. /\ req'[r].at = "reserved"
      /\ \A q \in Requests \ {r} : req'[q] = req[q]
  <2>1. "reserved" \in Places
    BY DEF Places
  <2>2. QED
    BY <2>1, EscalateMoves DEF TryReserve
<1>4. \/ /\ used' \in Nat /\ used' <= used + 1 /\ used' <= Cap
         /\ answer' = [answer EXCEPT ![r] = "granted"]
      \/ used' = used /\ answer' = [answer EXCEPT ![r] = "denied"]
  <2>1. CASE Pool!Reserve(r)
    <3>1. PICK kept \in 0..used : kept < Cap /\ used' = kept + 1
      BY <2>1 DEF Pool!Reserve
    <3>2. QED
      BY <1>1, <2>1, <3>1 DEF Pool!Reserve
  <2>2. CASE Pool!Deny(r)
    BY <2>2 DEF Pool!Deny
  <2>3. QED
    BY <2>1, <2>2 DEF TryReserve
<1>5. /\ \A q \in Requests \ {r} : answer'[q] = answer[q]
      /\ answer'[r] \in {"granted", "denied"}
      /\ answer'[r] = "denied" => used' = used
      /\ used' \in Nat /\ used' <= used + 1
      /\ used' <= Cap
  BY <1>1, <1>4 DEF LedgersAgree
<1>6. /\ r \notin LoggedGrants' /\ r \notin LoggedGrants
      /\ r \notin LoggedDenials' /\ r \notin LoggedDenials
      /\ r \notin CountedDenials' /\ r \notin CountedDenials
      /\ \A t : r \notin CountedGrants(t)' /\ r \notin CountedGrants(t)
      /\ r \notin GrantedRequests
      /\ r \in GrantedRequests' <=> answer'[r] = "granted"
  BY <1>2, <1>3, Membership
<1>7. /\ LoggedGrants' = LoggedGrants /\ LoggedDenials' = LoggedDenials
      /\ CountedDenials' = CountedDenials /\ \A t : CountedGrants(t)' = CountedGrants(t)
      /\ GrantedRequests' = IF answer'[r] = "granted" THEN GrantedRequests \cup {r}
                            ELSE GrantedRequests
  <2>1. \A q \in Requests \ {r} :
          /\ q \in GrantedRequests' <=> q \in GrantedRequests
          /\ q \in LoggedGrants' <=> q \in LoggedGrants
          /\ q \in LoggedDenials' <=> q \in LoggedDenials
          /\ q \in CountedDenials' <=> q \in CountedDenials
          /\ \A t : q \in CountedGrants(t)' <=> q \in CountedGrants(t)
    BY <1>3, <1>5, OthersCounted
  <2>2. LoggedGrants' = LoggedGrants
    BY <1>6, <2>1, OnlyRequests
  <2>3. LoggedDenials' = LoggedDenials
    BY <1>6, <2>1, OnlyRequests
  <2>4. CountedDenials' = CountedDenials
    BY <1>6, <2>1, OnlyRequests
  <2>5. ASSUME NEW t
        PROVE  CountedGrants(t)' = CountedGrants(t)
    BY <1>6, <2>1, OnlyRequests
  <2>6. CASE answer'[r] = "granted"
    <3>1. GrantedRequests' = GrantedRequests \cup {r}
      BY <1>6, <2>1, <2>6, OnlyRequests
    <3>2. QED
      BY <2>2, <2>3, <2>4, <2>5, <2>6, <3>1
  <2>7. CASE answer'[r] # "granted"
    <3>1. GrantedRequests' = GrantedRequests
      BY <1>6, <2>1, <2>7, OnlyRequests
    <3>2. QED
      BY <2>2, <2>3, <2>4, <2>5, <2>7, <3>1
  <2>8. QED
    BY <2>6, <2>7
<1>8. used' <= Cardinality(GrantedRequests')
  <2>1. Cardinality(GrantedRequests) \in Nat /\ used <= Cardinality(GrantedRequests)
    BY FiniteSets, FS_CardinalityType DEF LedgersAgree
  <2>2. CASE answer'[r] = "granted"
    <3>1. Cardinality(GrantedRequests') = Cardinality(GrantedRequests) + 1
      BY <1>6, <1>7, <2>2, FiniteSets, OneMore
    <3>2. QED
      BY <1>1, <1>5, <2>1, <3>1
  <2>3. CASE answer'[r] = "denied"
    BY <1>5, <1>7, <2>1, <2>3
  <2>4. QED
    BY <1>5, <2>2, <2>3
<1>9. QED
  BY <1>1, <1>5, <1>7, <1>8 DEF LedgersAgree

\* The sticky map is no ledger.
LEMMA MarkLedgers ==
    ASSUME IInv, LedgersAgree, NEW r \in Requests, MarkCloud(r)
    PROVE  LedgersAgree'
<1>1. /\ req'[r].at = "record" /\ req'[r].trigger = req[r].trigger
      /\ \A q \in Requests \ {r} : req'[q] = req[q]
  <2>1. "record" \in Places
    BY DEF Places
  <2>2. QED
    BY <2>1, EscalateMoves DEF MarkCloud
<1>2. /\ At(r, "reserved") /\ answer[r] = "granted" /\ answer' = answer /\ used' = used
      /\ history' = history /\ metrics' = metrics
  BY DEF MarkCloud
<1>3. /\ r \in GrantedRequests' <=> r \in GrantedRequests
      /\ r \in LoggedGrants' <=> r \in LoggedGrants
      /\ r \in LoggedDenials' <=> r \in LoggedDenials
      /\ r \in CountedDenials' <=> r \in CountedDenials
      /\ \A t : r \in CountedGrants(t)' <=> r \in CountedGrants(t)
  BY <1>1, <1>2, Membership DEF At
<1>4. /\ GrantedRequests' = GrantedRequests /\ LoggedGrants' = LoggedGrants
      /\ LoggedDenials' = LoggedDenials /\ CountedDenials' = CountedDenials
      /\ \A t : CountedGrants(t)' = CountedGrants(t)
  BY <1>1, <1>2, <1>3, OthersCounted, OnlyRequests
<1>5. QED
  BY <1>2, <1>4 DEF LedgersAgree

\* The history takes in a grant, or a denial, of a task that was not in it.
LEMMA RecordLedgers ==
    ASSUME IInv, LedgersAgree, NEW r \in Requests, RecordGrant(r) \/ RecordDenial(r)
    PROVE  LedgersAgree'
<1>1. /\ answer' = answer /\ used' = used /\ metrics' = metrics
  BY DEF RecordGrant, RecordDenial
<1>2. req[r].key \in ConversationKeys \cup {NoKey}
  BY Fields DEF IInv
<1>3. TypeOK
  BY DEF IInv
<1>4. CASE RecordGrant(r)
  <2>1. At(r, "record") /\ answer[r] = "granted" /\ req[r].trigger \in Triggers
    BY <1>4 DEF RecordGrant, IInv, TaskInv, PlaceOK, At, Granted, Escalating
  <2>2. /\ req'[r].at = "count_grant" /\ req'[r].trigger = req[r].trigger
        /\ \A q \in Requests \ {r} : req'[q] = req[q]
    <3>1. "count_grant" \in Places
      BY DEF Places
    <3>2. QED
      BY <1>4, <3>1, EscalateMoves DEF RecordGrant
  <2>3. /\ history'.total_escalations = history.total_escalations + 1
        /\ history'.total_budget_denied = history.total_budget_denied
    <3>1. /\ history'.total_escalations = history.total_escalations
              + IF req[r].trigger = "budget_denied" THEN 0 ELSE 1
          /\ history'.total_budget_denied = history.total_budget_denied
              + IF req[r].trigger = "budget_denied" THEN 1 ELSE 0
      BY <1>2, <1>3, <1>4, <2>1, RecordedFacts DEF RecordGrant
    <3>2. req[r].trigger # "budget_denied"
      BY <2>1 DEF Triggers
    <3>3. history.total_budget_denied \in Nat
      BY <1>3 DEF TypeOK, Histories
    <3>4. QED
      BY <3>1, <3>2, <3>3
  <2>4. /\ r \in GrantedRequests' <=> r \in GrantedRequests
        /\ r \in LoggedGrants' /\ r \notin LoggedGrants
        /\ r \in LoggedDenials' <=> r \in LoggedDenials
        /\ r \in CountedDenials' <=> r \in CountedDenials
        /\ \A t : r \in CountedGrants(t)' <=> r \in CountedGrants(t)
    BY <1>1, <2>1, <2>2, Membership DEF At
  <2>5. /\ GrantedRequests' = GrantedRequests /\ LoggedGrants' = LoggedGrants \cup {r}
        /\ LoggedDenials' = LoggedDenials /\ CountedDenials' = CountedDenials
        /\ \A t : CountedGrants(t)' = CountedGrants(t)
    BY <1>1, <2>2, <2>4, OthersCounted, OnlyRequests
  <2>6. Cardinality(LoggedGrants') = Cardinality(LoggedGrants) + 1
    BY <2>4, <2>5, FiniteSets, OneMore
  <2>7. QED
    BY <1>1, <2>3, <2>5, <2>6 DEF LedgersAgree
<1>5. CASE RecordDenial(r)
  <2>1. At(r, "reserved") /\ answer[r] = "denied"
    BY <1>5 DEF RecordDenial
  <2>2. /\ req'[r].at = "count_denial" /\ req'[r].trigger = req[r].trigger
        /\ \A q \in Requests \ {r} : req'[q] = req[q]
    <3>1. "count_denial" \in Places
      BY DEF Places
    <3>2. QED
      BY <1>5, <3>1, EscalateMoves DEF RecordDenial
  <2>3. /\ history'.total_escalations = history.total_escalations
        /\ history'.total_budget_denied = history.total_budget_denied + 1
    <3>1. /\ history'.total_escalations = history.total_escalations
              + IF "budget_denied" = "budget_denied" THEN 0 ELSE 1
          /\ history'.total_budget_denied = history.total_budget_denied
              + IF "budget_denied" = "budget_denied" THEN 1 ELSE 0
      BY <1>2, <1>3, <1>5, RecordedFacts DEF RecordDenial
    <3>2. history.total_escalations \in Nat
      BY <1>3 DEF TypeOK, Histories
    <3>3. QED
      BY <3>1, <3>2
  <2>4. /\ r \in GrantedRequests' <=> r \in GrantedRequests
        /\ r \in LoggedGrants' <=> r \in LoggedGrants
        /\ r \in LoggedDenials' /\ r \notin LoggedDenials
        /\ r \in CountedDenials' <=> r \in CountedDenials
        /\ \A t : r \in CountedGrants(t)' <=> r \in CountedGrants(t)
    BY <1>1, <2>1, <2>2, Membership DEF At
  <2>5. /\ GrantedRequests' = GrantedRequests /\ LoggedGrants' = LoggedGrants
        /\ LoggedDenials' = LoggedDenials \cup {r} /\ CountedDenials' = CountedDenials
        /\ \A t : CountedGrants(t)' = CountedGrants(t)
    BY <1>1, <2>2, <2>4, OthersCounted, OnlyRequests
  <2>6. Cardinality(LoggedDenials') = Cardinality(LoggedDenials) + 1
    BY <2>4, <2>5, FiniteSets, OneMore
  <2>7. QED
    BY <1>1, <2>3, <2>5, <2>6 DEF LedgersAgree
<1>6. QED
  BY <1>4, <1>5

\* The counters of /metrics follow, one task at a time.
LEMMA CountLedgers ==
    ASSUME IInv, LedgersAgree, NEW r \in Requests, CountGrant(r) \/ CountDenial(r)
    PROVE  LedgersAgree'
<1>1. /\ answer' = answer /\ used' = used /\ history' = history
  BY DEF CountGrant, CountDenial, shared
<1>2. TypeOK
  BY DEF IInv
<1>3. /\ req'[r].at \notin Owing /\ req'[r].trigger = req[r].trigger
      /\ \A q \in Requests \ {r} : req'[q] = req[q]
  <2>1. /\ "cloud" \in Providers /\ "local" \in Providers
        /\ "none" \in Notes /\ "unavailable" \in Notes
    BY DEF Providers, Notes
  <2>2. QED
    BY <2>1, EscalateMoves DEF CountGrant, CountDenial, Fallback
<1>4. CASE CountGrant(r)
  <2>1. At(r, "count_grant") /\ answer[r] = "granted" /\ req[r].trigger \in Triggers
    BY <1>4 DEF CountGrant, IInv, TaskInv, PlaceOK, At, Granted, Escalating
  <2>2. /\ metrics'.denied = metrics.denied
        /\ metrics'.escalations = [metrics.escalations EXCEPT ![req[r].trigger] = @ + 1]
    BY <1>2, <1>4, <2>1, GrantCounters DEF CountGrant
  <2>3. /\ r \in GrantedRequests' <=> r \in GrantedRequests
        /\ r \in LoggedGrants' <=> r \in LoggedGrants
        /\ r \in LoggedDenials' <=> r \in LoggedDenials
        /\ r \in CountedDenials' <=> r \in CountedDenials
        /\ \A t : r \notin CountedGrants(t) /\ (r \in CountedGrants(t)' <=> t = req[r].trigger)
    BY <1>1, <1>3, <2>1, Membership DEF At, Owing
  <2>4. /\ GrantedRequests' = GrantedRequests /\ LoggedGrants' = LoggedGrants
        /\ LoggedDenials' = LoggedDenials /\ CountedDenials' = CountedDenials
    <3>1. \A q \in Requests \ {r} :
            /\ q \in GrantedRequests' <=> q \in GrantedRequests
            /\ q \in LoggedGrants' <=> q \in LoggedGrants
            /\ q \in LoggedDenials' <=> q \in LoggedDenials
            /\ q \in CountedDenials' <=> q \in CountedDenials
      BY <1>1, <1>3, OthersCounted
    <3>2. GrantedRequests' = GrantedRequests
      BY <2>3, <3>1, OnlyRequests
    <3>3. LoggedGrants' = LoggedGrants
      BY <2>3, <3>1, OnlyRequests
    <3>4. LoggedDenials' = LoggedDenials
      BY <2>3, <3>1, OnlyRequests
    <3>5. CountedDenials' = CountedDenials
      BY <2>3, <3>1, OnlyRequests
    <3>6. QED
      BY <3>2, <3>3, <3>4, <3>5
  <2>5. ASSUME NEW t \in Triggers
        PROVE  metrics'.escalations[t] = Cardinality(CountedGrants(t)')
    <3>1. metrics.escalations \in [Triggers -> Nat]
      BY <1>2 DEF TypeOK, Counters
    <3>2. metrics.escalations[t] = Cardinality(CountedGrants(t))
      BY DEF LedgersAgree
    <3>3. \A q \in Requests \ {r} : q \in CountedGrants(t)' <=> q \in CountedGrants(t)
      BY <1>1, <1>3, OthersCounted
    <3>4. CountedGrants(t) \subseteq Requests /\ CountedGrants(t)' \subseteq Requests
      BY OnlyRequests
    <3>5. CASE t = req[r].trigger
      <4>1. CountedGrants(t)' = CountedGrants(t) \cup {r}
        BY <2>3, <3>3, <3>4, <3>5
      <4>2. Cardinality(CountedGrants(t)') = Cardinality(CountedGrants(t)) + 1
        BY <2>3, <4>1, FiniteSets, OneMore
      <4>3. QED
        BY <2>1, <2>2, <3>1, <3>2, <3>5, <4>2
    <3>6. CASE t # req[r].trigger
      <4>1. CountedGrants(t)' = CountedGrants(t)
        BY <2>3, <3>3, <3>4, <3>6
      <4>2. QED
        BY <2>1, <2>2, <3>1, <3>2, <3>6, <4>1
    <3>7. QED
      BY <3>5, <3>6
  <2>6. QED
    BY <1>1, <2>2, <2>4, <2>5 DEF LedgersAgree
<1>5. CASE CountDenial(r)
  <2>1. At(r, "count_denial") /\ answer[r] = "denied"
    BY <1>5 DEF CountDenial, IInv, TaskInv, PlaceOK, At, Denied
  <2>2. metrics'.denied = metrics.denied + 1 /\ metrics'.escalations = metrics.escalations
    BY <1>2, <1>5, DenialCounters DEF CountDenial
  <2>3. /\ r \in GrantedRequests' <=> r \in GrantedRequests
        /\ r \in LoggedGrants' <=> r \in LoggedGrants
        /\ r \in LoggedDenials' <=> r \in LoggedDenials
        /\ r \in CountedDenials' /\ r \notin CountedDenials
        /\ \A t : r \in CountedGrants(t)' <=> r \in CountedGrants(t)
    BY <1>1, <1>3, <2>1, Membership DEF At, Owing
  <2>4. /\ GrantedRequests' = GrantedRequests /\ LoggedGrants' = LoggedGrants
        /\ LoggedDenials' = LoggedDenials /\ CountedDenials' = CountedDenials \cup {r}
        /\ \A t : CountedGrants(t)' = CountedGrants(t)
    BY <1>1, <1>3, <2>3, OthersCounted, OnlyRequests
  <2>5. Cardinality(CountedDenials') = Cardinality(CountedDenials) + 1
    BY <2>3, <2>4, FiniteSets, OneMore
  <2>6. QED
    BY <1>1, <2>2, <2>4, <2>5 DEF LedgersAgree
<1>6. QED
  BY <1>4, <1>5

\* Reading the gauge can only lower what the budget charges.
LEMMA ReadLedgers ==
    ASSUME IInv, LedgersAgree, ReadBudget
    PROVE  LedgersAgree'
<1>1. /\ req' = req /\ answer' = answer /\ history' = history /\ metrics' = metrics
      /\ used' \in 0..used
  BY DEF ReadBudget, Pool!Refresh
<1>2. used \in Nat /\ Cap \in Nat
  BY CapAssumption DEF IInv, TypeOK
<1>3. Cardinality(GrantedRequests) \in Nat
  BY FiniteSets, FS_CardinalityType
<1>4. used' <= Cap /\ used' <= Cardinality(GrantedRequests)
  BY <1>1, <1>2, <1>3 DEF LedgersAgree
<1>5. /\ GrantedRequests' = GrantedRequests /\ LoggedGrants' = LoggedGrants
      /\ LoggedDenials' = LoggedDenials /\ CountedDenials' = CountedDenials
      /\ \A t : CountedGrants(t)' = CountedGrants(t)
  BY <1>1 DEF GrantedRequests, LoggedGrants, LoggedDenials, CountedDenials, CountedGrants,
              Granted, Denied, At
<1>6. QED
  BY <1>1, <1>4, <1>5 DEF LedgersAgree

\* At the start nobody was told anything and nothing was counted.
LEMMA InitLedgers == Init => LedgersAgree
<1> SUFFICES ASSUME Init PROVE LedgersAgree
  OBVIOUS
<1>1. \A r \in Requests : answer[r] = "none"
  BY DEF Init, Pool!Init
<1>2. /\ GrantedRequests = {} /\ LoggedGrants = {}
      /\ LoggedDenials = {} /\ CountedDenials = {}
      /\ \A t : CountedGrants(t) = {}
  BY <1>1 DEF GrantedRequests, LoggedGrants, LoggedDenials, CountedDenials, CountedGrants,
              Granted, Denied
<1>3. Cardinality({}) = 0
  BY FS_EmptySet
<1>4. /\ used = 0 /\ history.total_escalations = 0 /\ history.total_budget_denied = 0
      /\ metrics.denied = 0 /\ \A t \in Triggers : metrics.escalations[t] = 0
  BY DEF Init, Pool!Init, ZeroMetrics
<1>5. used <= Cap /\ used <= 0
  BY <1>4, CapAssumption
<1>6. QED
  BY <1>2, <1>3, <1>4, <1>5 DEF LedgersAgree

\* The agreement is inductive beside IInv.
LEMMA NextLedgers ==
    ASSUME IInv, LedgersAgree, [Next]_vars
    PROVE  LedgersAgree'
<1>1. ASSUME NEW r \in Requests, Begin(r) \/ LocalStep(r) \/ ForwardStep(r) \/ Cancel(r)
      PROVE  LedgersAgree'
  BY <1>1, QuietMoves, QuietLedgers
<1>2. ASSUME NEW r \in Requests, EscalateStep(r)
      PROVE  LedgersAgree'
  BY <1>2, ReserveLedgers, MarkLedgers, RecordLedgers, CountLedgers DEF EscalateStep
<1>3. CASE UNCHANGED vars
  <2>1. /\ req' = req /\ answer' = answer /\ history' = history /\ metrics' = metrics
        /\ used' = used
    BY <1>3 DEF vars
  <2>2. /\ GrantedRequests' = GrantedRequests /\ LoggedGrants' = LoggedGrants
        /\ LoggedDenials' = LoggedDenials /\ CountedDenials' = CountedDenials
        /\ \A t : CountedGrants(t)' = CountedGrants(t)
    BY <2>1 DEF GrantedRequests, LoggedGrants, LoggedDenials, CountedDenials, CountedGrants,
                Granted, Denied, At
  <2>3. QED
    BY <2>1, <2>2 DEF LedgersAgree
<1>4. QED
  BY <1>1, <1>2, <1>3, ReadLedgers DEF Next, Progress

\* However the tasks interleave, the budget charges at most what it granted
\* and at most its cap, and the totals of /status and the counters of /metrics
\* are the tasks that have got as far as updating them.
THEOREM LedgersHold == Spec => []LedgersAgree
BY InitLedgers, NextLedgers, CascadeInvariant, PTL DEF Spec

-----------------------------------------------------------------------------
\* The exchanges counted.

\* Where a step takes task r: its place, its result and what it has sent.
Moves(r, place, result, sent) ==
    /\ \A q \in Requests \ {r} : req'[q] = req[q]
    /\ req'[r].at = place /\ req'[r].result = result /\ req'[r].sent = sent

\* The building blocks of the steps, as such moves.
LEMMA BlockMoves ==
    ASSUME IInv, NEW r \in Requests
    PROVE  /\ \A x \in Results : Respond(r, x) => Moves(r, "done", x, req[r].sent)
           /\ \A place \in Places :
                 Goto(r, place) => Moves(r, place, req[r].result, req[r].sent)
           /\ \A t \in Triggers :
                 Escalate(r, t) => Moves(r, "escalate", req[r].result, req[r].sent)
           /\ \A p \in Providers, note \in Notes, place \in Places :
                 Send(r, p, note, place) =>
                     Moves(r, place, req[r].result,
                           Append(req[r].sent, [to |-> p, note |-> note]))
           /\ \A k \in ConversationKeys :
                 Enter(r, k) => Moves(r, "check_sticky", req[r].result, req[r].sent)
<1>1. TypeOK
  BY DEF IInv
<1>2. ASSUME NEW x \in Results, Respond(r, x)
      PROVE  Moves(r, "done", x, req[r].sent)
  <2>1. Becomes(r, With(r, "done", req[r].trigger, req[r].sent, x))
    BY <1>1, <1>2, RespondFacts
  <2>2. QED
    BY <2>1 DEF Becomes, With, Moves
<1>3. ASSUME NEW place \in Places, Goto(r, place)
      PROVE  Moves(r, place, req[r].result, req[r].sent)
  <2>1. Becomes(r, With(r, place, req[r].trigger, req[r].sent, req[r].result))
    BY <1>1, <1>3, GotoFacts
  <2>2. QED
    BY <2>1 DEF Becomes, With, Moves
<1>4. ASSUME NEW t \in Triggers, Escalate(r, t)
      PROVE  Moves(r, "escalate", req[r].result, req[r].sent)
  <2>1. Becomes(r, With(r, "escalate", t, req[r].sent, req[r].result))
    BY <1>1, <1>4, EscalateFacts
  <2>2. QED
    BY <2>1 DEF Becomes, With, Moves
<1>5. ASSUME NEW p \in Providers, NEW note \in Notes, NEW place \in Places,
             Send(r, p, note, place)
      PROVE  Moves(r, place, req[r].result, Append(req[r].sent, [to |-> p, note |-> note]))
  <2>1. Becomes(r, With(r, place, req[r].trigger,
                        Append(req[r].sent, [to |-> p, note |-> note]), req[r].result))
    BY <1>1, <1>5, SendFacts
  <2>2. QED
    BY <2>1 DEF Becomes, With, Moves
<1>6. ASSUME NEW k \in ConversationKeys, Enter(r, k)
      PROVE  Moves(r, "check_sticky", req[r].result, req[r].sent)
  <2> DEFINE b == k # NoKey /\ \E q \in Requests : req[q].key = k /\ WentToCloud(q)
  <2>1. Becomes(r, [at |-> "check_sticky", key |-> k, trigger |-> req[r].trigger,
                    sent |-> req[r].sent, result |-> req[r].result, afterCloud |-> b])
    BY <1>1, <1>6, EnterFacts
  <2> HIDE DEF b
  <2>2. QED
    BY <2>1 DEF Becomes, Moves
<1>7. QED
  BY <1>2, <1>3, <1>4, <1>5, <1>6

\* The three kinds of step, seen from the exchanges: nothing is sent or heard,
Stays(r) ==
    /\ \A q \in Requests \ {r} : req'[q] = req[q]
    /\ req'[r].sent = req[r].sent
    /\ Unheard(r)' <=> Unheard(r)
    /\ metrics'.requests = metrics.requests

\* something is sent,
Sends(r) ==
    /\ \A q \in Requests \ {r} : req'[q] = req[q]
    /\ ~Unheard(r) /\ Unheard(r)'
    /\ \E m \in Messages : req'[r].sent = Append(req[r].sent, m)
    /\ metrics'.requests = metrics.requests

\* or the answer to what was sent last is heard, and counted.
Hears(r) ==
    /\ \A q \in Requests \ {r} : req'[q] = req[q]
    /\ req'[r].sent = req[r].sent /\ req[r].sent # <<>>
    /\ Unheard(r) /\ ~Unheard(r)'
    /\ \E o \in Outcomes : Observe(Upstream(r), o)

\* Every step of a task is of one of the three kinds.
LEMMA Kinds ==
    ASSUME IInv, NEW r \in Requests, Begin(r) \/ Progress(r) \/ Cancel(r)
    PROVE  Stays(r) \/ Sends(r) \/ Hears(r)
<1> DEFINE Silent == metrics'.requests = metrics.requests
           Waiting == {"awaiting_attempt", "awaiting_forward"}
<1>1. TypeOK /\ metrics \in Counters /\ PlaceOK(r)
  BY DEF IInv, TypeOK, TaskInv
<1>2. /\ {"local", "cloud", "named"} = Providers /\ Notes = {"instruction", "unavailable", "none"}
      /\ {"attempt", "reserved", "record", "count_grant", "count_denial", "reading_error",
          "reading_attempt", "awaiting_attempt", "awaiting_forward",
          "reading_forward_error"} \subseteq Places
      /\ {"static", "local"} \subseteq Tiers /\ Outcomes = {"ok", "upstream_error", "transport_error"}
      /\ {"UnknownProvider", "MissingApiKey", "InvalidJson", "panic", "transport_error",
          "upstream_error", "answer", "cancelled_unanswered", "cancelled_reading"} \subseteq Results
      /\ {"sticky", "sentinel", "fail_mode"} = Triggers
  BY DEF Providers, Notes, Places, Awaits, Tiers, Outcomes, Results, Triggers
<1>3. req[r].at # "done" => req[r].result = "none" /\ (Unheard(r) <=> req[r].at \in Waiting)
  BY <1>1 DEF PlaceOK, At, Unheard
<1>4. ASSUME NEW place, NEW result, Silent, Moves(r, place, result, req[r].sent),
             Unheard(r) <=> place \in Waiting \/ result = "cancelled_unanswered"
      PROVE  Stays(r)
  BY <1>4 DEF Stays, Moves, Unheard
<1>5. ASSUME NEW p \in Providers, NEW note \in Notes, NEW place \in Waiting, Silent,
             Send(r, p, note, place), ~Unheard(r)
      PROVE  Sends(r)
  <2>1. [to |-> p, note |-> note] \in Messages
    BY DEF Messages
  <2>2. Moves(r, place, req[r].result, Append(req[r].sent, [to |-> p, note |-> note]))
    BY <1>2, <1>5, BlockMoves
  <2>3. QED
    BY <1>5, <2>1, <2>2 DEF Sends, Moves, Unheard
<1>6. ASSUME NEW place, NEW result, Moves(r, place, result, req[r].sent),
             req[r].sent # <<>>, Unheard(r), place \notin Waiting,
             result # "cancelled_unanswered", NEW o \in Outcomes, Observe(Upstream(r), o)
      PROVE  Hears(r)
  BY <1>6 DEF Hears, Moves, Unheard
<1>7. ASSUME NEW p \in Providers, NEW note \in Notes, Silent, Forward(r, p, note),
             req[r].at # "done", req[r].at \notin Waiting
      PROVE  Stays(r) \/ Sends(r)
  <2>1. CASE Send(r, p, note, "awaiting_forward")
    BY <1>3, <1>5, <1>7, <2>1
  <2>2. CASE Respond(r, LookupError(p)) /\ LookupError(p) \in {"UnknownProvider", "MissingApiKey"}
    <3>1. Moves(r, "done", LookupError(p), req[r].sent)
      BY <1>2, <2>2, BlockMoves
    <3>2. QED
      BY <1>3, <1>4, <1>7, <2>2, <3>1
  <2>3. QED
    BY <1>7, <2>1, <2>2, ForwardBlocks
<1>8. ASSUME NEW x \in Results, x # "cancelled_unanswered", LocalFailed(r, x), req[r].result = "none"
      PROVE  \/ Moves(r, "done", x, req[r].sent)
             \/ Moves(r, "escalate", "none", req[r].sent)
  BY <1>2, <1>8, BlockMoves DEF LocalFailed
<1> HIDE DEF Silent, Waiting
<1>9. ASSUME NEW place, place \notin {"awaiting_attempt", "awaiting_forward"}, NEW result,
             Moves(r, place, result, req[r].sent), result # "cancelled_unanswered",
             req[r].at # "done", req[r].at \notin {"awaiting_attempt", "awaiting_forward"}, Silent
      PROVE  Stays(r)
  BY <1>3, <1>4, <1>9 DEF Waiting
<1>10. CASE Begin(r)
  <2>1. At(r, "idle")
    BY <1>10 DEF Begin, Arrive, ArriveExplicit, ArriveUnusable
  <2>2. CASE Arrive(r)
    <3>1. Moves(r, "check_sticky", "none", req[r].sent)
      BY <1>3, <2>1, <2>2, BlockMoves DEF Arrive, At
    <3>2. Silent
      BY <2>2 DEF Arrive, Silent
    <3>3. QED
      BY <1>9, <2>1, <3>1, <3>2 DEF At
  <2>3. CASE ArriveExplicit(r)
    <3>1. Silent
      BY <1>1, <1>2, <2>3, TierFacts DEF ArriveExplicit, Silent
    <3>2. QED
      BY <1>2, <1>7, <2>1, <2>3, <3>1 DEF ArriveExplicit, At, Waiting
  <2>4. CASE ArriveUnusable(r)
    <3>1. PICK x \in {"InvalidJson", "panic"} : Respond(r, x)
      BY <2>4 DEF ArriveUnusable
    <3>2. Moves(r, "done", x, req[r].sent)
      BY <1>2, <3>1, BlockMoves
    <3>3. Silent
      BY <2>4 DEF ArriveUnusable, Silent
    <3>4. QED
      BY <1>9, <2>1, <3>1, <3>2, <3>3 DEF At
  <2>5. QED
    BY <1>10, <2>2, <2>3, <2>4 DEF Begin
<1>11. CASE LocalStep(r)
  <2>1. ASSUME At(r, "awaiting_attempt")
        PROVE  req[r].result = "none" /\ Unheard(r) /\ req[r].sent # <<>> /\ Upstream(r) = "local"
    <3>1. req[r].sent = <<Instructed>>
      BY <1>1, <2>1 DEF PlaceOK, At, Trying
    <3>2. Instructed.to = "local"
      BY DEF Instructed
    <3>3. <<Instructed>> # <<>> /\ Len(<<Instructed>>) = 1 /\ <<Instructed>>[1] = Instructed
      BY Tuples
    <3>4. QED
      BY <1>3, <2>1, <3>1, <3>2, <3>3 DEF At, Upstream, Waiting
  <2>2. CASE CheckSticky(r)
    <3>1. \/ Moves(r, "escalate", "none", req[r].sent)
          \/ Moves(r, "attempt", "none", req[r].sent)
      BY <1>2, <1>3, <2>2, BlockMoves DEF CheckSticky, At
    <3>2. At(r, "check_sticky") /\ Silent
      BY <2>2 DEF CheckSticky, Silent
    <3>3. QED
      BY <1>9, <3>1, <3>2 DEF At
  <2>3. CASE StartAttempt(r)
    <3>1. At(r, "attempt") /\ req[r].result = "none"
      BY <1>3, <2>3 DEF StartAttempt, At
    <3>2. Silent
      BY <1>1, <1>2, <2>3, TierFacts DEF StartAttempt, Silent
    <3>3. CASE Send(r, "local", "instruction", "awaiting_attempt")
      BY <1>2, <1>3, <1>5, <3>1, <3>2, <3>3 DEF At, Waiting
    <3>4. CASE LocalFailed(r, LookupError("local"))
      <4>1. LookupError("local") \in {"UnknownProvider", "MissingApiKey"}
        BY DEF LookupError
      <4>2. \/ Moves(r, "done", LookupError("local"), req[r].sent)
            \/ Moves(r, "escalate", "none", req[r].sent)
        BY <1>2, <1>8, <3>1, <3>4, <4>1
      <4>3. QED
        BY <1>9, <3>1, <3>2, <4>1, <4>2 DEF At
    <3>5. QED
      BY <2>3, <3>3, <3>4 DEF StartAttempt
  <2>4. CASE AttemptTransportError(r)
    <3>1. /\ At(r, "awaiting_attempt") /\ Observe("local", "transport_error")
          /\ LocalFailed(r, "transport_error")
      BY <2>4 DEF AttemptTransportError
    <3>2. \/ Moves(r, "done", "transport_error", req[r].sent)
          \/ Moves(r, "escalate", "none", req[r].sent)
      BY <1>2, <1>8, <2>1, <3>1
    <3>3. Observe(Upstream(r), "transport_error")
      BY <2>1, <3>1
    <3>4. QED
      BY <1>2, <1>6, <2>1, <3>1, <3>2, <3>3 DEF Waiting
  <2>5. CASE AttemptErrorStatus(r)
    <3>1. Moves(r, "reading_error", "none", req[r].sent)
      BY <1>2, <1>3, <2>5, BlockMoves DEF AttemptErrorStatus, At
    <3>2. At(r, "awaiting_attempt") /\ Observe(Upstream(r), "upstream_error")
      BY <2>1, <2>5 DEF AttemptErrorStatus
    <3>3. QED
      BY <1>2, <1>6, <2>1, <3>1, <3>2 DEF Waiting
  <2>6. CASE AttemptOk(r)
    <3>1. Moves(r, "reading_attempt", "none", req[r].sent)
      BY <1>2, <1>3, <2>6, BlockMoves DEF AttemptOk, At
    <3>2. At(r, "awaiting_attempt") /\ Observe(Upstream(r), "ok")
      BY <2>1, <2>6 DEF AttemptOk
    <3>3. QED
      BY <1>2, <1>6, <2>1, <3>1, <3>2 DEF Waiting
  <2>7. CASE AttemptErrorBody(r)
    <3>1. \/ Moves(r, "done", "upstream_error", req[r].sent)
          \/ Moves(r, "escalate", "none", req[r].sent)
      BY <1>2, <1>3, <1>8, <2>7 DEF AttemptErrorBody, At
    <3>2. At(r, "reading_error") /\ Silent
      BY <2>7 DEF AttemptErrorBody, Silent
    <3>3. QED
      BY <1>9, <3>1, <3>2 DEF At
  <2>8. CASE AttemptBodyError(r)
    <3>1. \/ Moves(r, "done", "transport_error", req[r].sent)
          \/ Moves(r, "escalate", "none", req[r].sent)
      BY <1>2, <1>3, <1>8, <2>8 DEF AttemptBodyError, At
    <3>2. At(r, "reading_attempt") /\ Silent
      BY <2>8 DEF AttemptBodyError, Silent
    <3>3. QED
      BY <1>9, <3>1, <3>2 DEF At
  <2>9. CASE AttemptSentinel(r)
    <3>1. Moves(r, "escalate", "none", req[r].sent)
      BY <1>2, <1>3, <2>9, BlockMoves DEF AttemptSentinel, At
    <3>2. At(r, "reading_attempt") /\ Silent
      BY <2>9 DEF AttemptSentinel, Silent
    <3>3. QED
      BY <1>9, <3>1, <3>2 DEF At
  <2>10. CASE AttemptClean(r)
    <3>1. Moves(r, "done", "answer", req[r].sent)
      BY <1>2, <2>10, BlockMoves DEF AttemptClean
    <3>2. At(r, "reading_attempt") /\ Silent
      BY <2>10 DEF AttemptClean, Silent
    <3>3. QED
      BY <1>9, <3>1, <3>2 DEF At
  <2>11. QED
    BY <1>11, <2>2, <2>3, <2>4, <2>5, <2>6, <2>7, <2>8, <2>9, <2>10 DEF LocalStep
<1>12. CASE EscalateStep(r)
  <2>1. CASE TryReserve(r)
    <3>1. Moves(r, "reserved", "none", req[r].sent) /\ At(r, "escalate") /\ Silent
      BY <1>2, <1>3, <2>1, BlockMoves DEF TryReserve, At, Silent
    <3>2. QED
      BY <1>9, <3>1 DEF At
  <2>2. CASE MarkCloud(r)
    <3>1. Moves(r, "record", "none", req[r].sent) /\ At(r, "reserved") /\ Silent
      BY <1>2, <1>3, <2>2, BlockMoves DEF MarkCloud, At, Silent
    <3>2. QED
      BY <1>9, <3>1 DEF At
  <2>3. CASE RecordGrant(r)
    <3>1. Moves(r, "count_grant", "none", req[r].sent) /\ At(r, "record") /\ Silent
      BY <1>2, <1>3, <2>3, BlockMoves DEF RecordGrant, At, Silent
    <3>2. QED
      BY <1>9, <3>1 DEF At
  <2>4. CASE RecordDenial(r)
    <3>1. Moves(r, "count_denial", "none", req[r].sent) /\ At(r, "reserved") /\ Silent
      BY <1>2, <1>3, <2>4, BlockMoves DEF RecordDenial, At, Silent
    <3>2. QED
      BY <1>9, <3>1 DEF At
  <2>5. CASE CountGrant(r)
    <3>1. At(r, "count_grant") /\ req[r].trigger \in Triggers
      BY <1>1, <2>5 DEF CountGrant, PlaceOK, At, Escalating
    <3>2. Silent
      BY <1>1, <2>5, <3>1, GrantCounters DEF CountGrant, Silent
    <3>3. QED
      BY <1>2, <1>7, <2>5, <3>1, <3>2 DEF CountGrant, At, Waiting
  <2>6. CASE CountDenial(r)
    <3>1. At(r, "count_denial") /\ Silent
      BY <1>1, <2>6, DenialCounters DEF CountDenial, Silent
    <3>2. QED
      BY <1>2, <1>7, <2>6, <3>1 DEF CountDenial, Fallback, At, Waiting
  <2>7. QED
    BY <1>12, <2>1, <2>2, <2>3, <2>4, <2>5, <2>6 DEF EscalateStep
<1>13. CASE ForwardStep(r)
  <2>1. ASSUME At(r, "awaiting_forward")
        PROVE  req[r].result = "none" /\ Unheard(r) /\ req[r].sent # <<>>
    BY <1>1, <1>3, <2>1 DEF PlaceOK, At, Forwarding, Waiting
  <2>2. CASE ForwardTransportError(r)
    <3>1. Moves(r, "done", "transport_error", req[r].sent)
      BY <1>2, <2>2, BlockMoves DEF ForwardTransportError
    <3>2. At(r, "awaiting_forward") /\ Observe(Upstream(r), "transport_error")
      BY <2>2 DEF ForwardTransportError
    <3>3. QED
      BY <1>2, <1>6, <2>1, <3>1, <3>2 DEF Waiting
  <2>3. CASE ForwardErrorStatus(r)
    <3>1. Moves(r, "reading_forward_error", "none", req[r].sent)
      BY <1>2, <1>3, <2>3, BlockMoves DEF ForwardErrorStatus, At
    <3>2. At(r, "awaiting_forward") /\ Observe(Upstream(r), "upstream_error")
      BY <2>3 DEF ForwardErrorStatus
    <3>3. QED
      BY <1>2, <1>6, <2>1, <3>1, <3>2 DEF Waiting
  <2>4. CASE ForwardErrorBody(r)
    <3>1. Moves(r, "done", "upstream_error", req[r].sent)
      BY <1>2, <2>4, BlockMoves DEF ForwardErrorBody
    <3>2. At(r, "reading_forward_error") /\ Silent
      BY <2>4 DEF ForwardErrorBody, Silent
    <3>3. QED
      BY <1>9, <3>1, <3>2 DEF At
  <2>5. CASE ForwardOk(r)
    <3>1. Moves(r, "done", "answer", req[r].sent)
      BY <1>2, <2>5, BlockMoves DEF ForwardOk
    <3>2. At(r, "awaiting_forward") /\ Observe(Upstream(r), "ok")
      BY <2>5 DEF ForwardOk
    <3>3. QED
      BY <1>2, <1>6, <2>1, <3>1, <3>2 DEF Waiting
  <2>6. QED
    BY <1>13, <2>2, <2>3, <2>4, <2>5 DEF ForwardStep
<1>14. CASE Cancel(r)
  <2>1. Silent /\ req[r].at \in Awaits
    BY <1>14 DEF Cancel, Silent
  <2>2. CASE req[r].at \in {"awaiting_attempt", "awaiting_forward"}
    <3>1. Respond(r, "cancelled_unanswered")
      BY <1>14, <2>2 DEF Cancel
    <3>2. Moves(r, "done", "cancelled_unanswered", req[r].sent)
      BY <1>2, <3>1, BlockMoves
    <3>3. Unheard(r)
      BY <2>2 DEF Unheard
    <3>4. QED
      BY <1>4, <2>1, <3>2, <3>3
  <2>3. CASE req[r].at \notin {"awaiting_attempt", "awaiting_forward"}
    <3>1. Respond(r, "cancelled_reading")
      BY <1>14, <2>3 DEF Cancel
    <3>2. Moves(r, "done", "cancelled_reading", req[r].sent)
      BY <1>2, <3>1, BlockMoves
    <3>3. req[r].at # "done"
      BY <2>1 DEF Awaits
    <3>4. QED
      BY <1>9, <2>1, <2>3, <3>2, <3>3
  <2>4. QED
    BY <2>2, <2>3
<1>15. QED
  BY <1>10, <1>11, <1>12, <1>13, <1>14 DEF Progress

\* A task sends at most two requests upstream.
LEMMA AtMostTwo ==
    ASSUME IInv, NEW r \in Requests
    PROVE  Len(req[r].sent) \in 0..2 /\ (req[r].sent # <<>> => Len(req[r].sent) \in 1..2)
<1>1. req[r].sent \in Seq(Messages) /\ SentOK(r)
  BY Fields DEF IInv, TaskInv
<1>2. /\ Len(<<Instructed>>) = 1 /\ Len(<<Copy("named")>>) = 1 /\ Len(<<Copy("cloud")>>) = 1
      /\ Len(<<WithNote>>) = 1 /\ Len(<<Instructed, Copy("cloud")>>) = 2
      /\ Len(<<Instructed, WithNote>>) = 2
  BY Tuples
<1>3. req[r].sent = <<>> \/ Len(req[r].sent) = 1 \/ Len(req[r].sent) = 2
  BY <1>1, <1>2 DEF SentOK
<1>4. req[r].sent = <<>> => Len(req[r].sent) = 0
  BY <1>1, EmptySeq
<1>5. req[r].sent # <<>> => Len(req[r].sent) # 0
  BY <1>1, EmptySeq
<1>6. QED
  BY <1>3, <1>4, <1>5

\* The i-th exchange of q was with p and is answered.
AnsweredAt(q, i, p) ==
    /\ i <= Len(req[q].sent)
    /\ req[q].sent[i].to = p
    /\ ~(i = Len(req[q].sent) /\ Unheard(q))

\* The answered exchanges, pair by pair, before and after a step.
LEMMA AnsweredPairs ==
    ASSUME NEW p
    PROVE  /\ AnsweredBy(p) \subseteq Requests \X (1..2)
           /\ AnsweredBy(p)' \subseteq Requests \X (1..2)
           /\ \A q \in Requests, i \in 1..2 :
                <<q, i>> \in AnsweredBy(p) <=> AnsweredAt(q, i, p)
           /\ \A q \in Requests, i \in 1..2 :
                <<q, i>> \in AnsweredBy(p)' <=> AnsweredAt(q, i, p)'
<1>1. /\ AnsweredBy(p) \subseteq Requests \X (1..2)
      /\ AnsweredBy(p)' \subseteq Requests \X (1..2)
  BY DEF AnsweredBy, ExchangesWith, Exchanges
<1>2. ASSUME NEW q \in Requests, NEW i \in 1..2
      PROVE  /\ <<q, i>> \in AnsweredBy(p) <=> AnsweredAt(q, i, p)
             /\ <<q, i>> \in AnsweredBy(p)' <=> AnsweredAt(q, i, p)'
  <2>1. PICK x : x = <<q, i>>
    OBVIOUS
  <2>2. x \in Requests \X (1..2) /\ x[1] = q /\ x[2] = i
    BY <2>1
  <2>3. x \in AnsweredBy(p) <=> AnsweredAt(q, i, p)
    BY <2>2 DEF AnsweredBy, ExchangesWith, Exchanges, Unanswered, AnsweredAt
  <2>4. x \in AnsweredBy(p)' <=> AnsweredAt(q, i, p)'
    BY <2>2 DEF AnsweredBy, ExchangesWith, Exchanges, Unanswered, AnsweredAt
  <2>5. QED
    BY <2>1, <2>3, <2>4
<1>3. QED
  BY <1>1, <1>2

\* A set of pairs is told by its pairs.
LEMMA PairSets ==
    ASSUME NEW A \in SUBSET (Requests \X (1..2)), NEW B \in SUBSET (Requests \X (1..2))
    PROVE  /\ (\A q \in Requests, i \in 1..2 : <<q, i>> \in B <=> <<q, i>> \in A) => B = A
           /\ \A r \in Requests, n \in 1..2 :
                (\A q \in Requests, i \in 1..2 :
                    <<q, i>> \in B <=> <<q, i>> \in A \/ (q = r /\ i = n))
                => B = A \cup {<<r, n>>}
<1>1. ASSUME NEW x \in Requests \X (1..2)
      PROVE  \E q \in Requests, i \in 1..2 : x = <<q, i>>
  OBVIOUS
<1>2. ASSUME \A q \in Requests, i \in 1..2 : <<q, i>> \in B <=> <<q, i>> \in A
      PROVE  B = A
  <2>1. ASSUME NEW x \in Requests \X (1..2)
        PROVE  x \in B <=> x \in A
    <3>1. PICK q \in Requests, i \in 1..2 : x = <<q, i>>
      BY <1>1
    <3>2. QED
      BY <1>2, <3>1
  <2>2. QED
    BY <2>1
<1>3. ASSUME NEW r \in Requests, NEW n \in 1..2,
             \A q \in Requests, i \in 1..2 :
                <<q, i>> \in B <=> <<q, i>> \in A \/ (q = r /\ i = n)
      PROVE  B = A \cup {<<r, n>>}
  <2>1. ASSUME NEW x \in Requests \X (1..2)
        PROVE  x \in B <=> x \in A \/ x = <<r, n>>
    <3>1. PICK q \in Requests, i \in 1..2 : x = <<q, i>>
      BY <1>1
    <3>2. <<q, i>> = <<r, n>> <=> q = r /\ i = n
      OBVIOUS
    <3>3. QED
      BY <1>3, <3>1, <3>2
  <2>2. <<r, n>> \in Requests \X (1..2)
    OBVIOUS
  <2>3. QED
    BY <2>1, <2>2
<1>4. QED
  BY <1>2, <1>3

\* What the steps that count nothing leave answered.
LEMMA SameAnswered ==
    ASSUME IInv, NEW r \in Requests, Stays(r) \/ Sends(r), NEW p
    PROVE  AnsweredBy(p)' = AnsweredBy(p)
<1>1. req[r].sent \in Seq(Messages) /\ Len(req[r].sent) \in Nat
  BY Fields, LenProperties DEF IInv
<1>2. ASSUME NEW q \in Requests, NEW i \in 1..2
      PROVE  AnsweredAt(q, i, p)' <=> AnsweredAt(q, i, p)
  <2>1. CASE q # r
    <3>1. req'[q] = req[q]
      BY <2>1 DEF Stays, Sends
    <3>2. QED
      BY <3>1 DEF AnsweredAt, Unheard
  <2>2. CASE q = r /\ Stays(r)
    BY <2>2 DEF AnsweredAt, Stays
  <2>3. CASE q = r /\ Sends(r)
    <3>1. PICK m \in Messages : req'[r].sent = Append(req[r].sent, m)
      BY <2>3 DEF Sends
    <3>2. /\ Len(req'[r].sent) = Len(req[r].sent) + 1
          /\ \A j \in 1..Len(req[r].sent) : req'[r].sent[j] = req[r].sent[j]
      BY <1>1, <3>1, AppendProperties
    <3>3. i \in Nat /\ 1 <= i
      OBVIOUS
    <3>4. ~Unheard(r) /\ Unheard(r)'
      BY <2>3 DEF Sends
    <3>5. CASE i <= Len(req[r].sent)
      <4>1. i \in 1..Len(req[r].sent) /\ i # Len(req'[r].sent) /\ i <= Len(req'[r].sent)
        BY <1>1, <3>2, <3>3, <3>5
      <4>2. QED
        BY <2>3, <3>2, <3>4, <3>5, <4>1 DEF AnsweredAt
    <3>6. CASE ~(i <= Len(req[r].sent))
      <4>1. ~(i <= Len(req'[r].sent)) \/ i = Len(req'[r].sent)
        BY <1>1, <3>2, <3>3, <3>6
      <4>2. QED
        BY <2>3, <3>4, <3>6, <4>1 DEF AnsweredAt
    <3>7. QED
      BY <3>5, <3>6
  <2>4. QED
    BY <2>1, <2>2, <2>3
<1>3. \A q \in Requests, i \in 1..2 : <<q, i>> \in AnsweredBy(p)' <=> <<q, i>> \in AnsweredBy(p)
  BY <1>2, AnsweredPairs
<1>4. QED
  BY <1>3, AnsweredPairs, PairSets

\* What is heard is answered from then on, and nothing else is.
LEMMA OneMoreAnswered ==
    ASSUME IInv, NEW r \in Requests, Hears(r), NEW p
    PROVE  IF p = Upstream(r)
             THEN /\ <<r, Len(req[r].sent)>> \notin AnsweredBy(p)
                  /\ AnsweredBy(p)' = AnsweredBy(p) \cup {<<r, Len(req[r].sent)>>}
             ELSE AnsweredBy(p)' = AnsweredBy(p)
<1> DEFINE n == Len(req[r].sent)
<1>1. n \in 1..2
  BY AtMostTwo DEF Hears
<1>2. Unheard(r) /\ ~Unheard(r)' /\ req'[r].sent = req[r].sent
  BY DEF Hears
<1>3. Upstream(r) = req[r].sent[n].to
  BY DEF Upstream
<1> HIDE DEF n
<1>4. ASSUME NEW i \in 1..2
      PROVE  /\ AnsweredAt(r, i, p) <=> i <= n /\ req[r].sent[i].to = p /\ i # n
             /\ AnsweredAt(r, i, p)' <=> i <= n /\ req[r].sent[i].to = p
  BY <1>2 DEF AnsweredAt, n
<1>5. ASSUME NEW i \in 1..2
      PROVE  AnsweredAt(r, i, p)' <=> AnsweredAt(r, i, p) \/ (i = n /\ p = Upstream(r))
  BY <1>1, <1>3, <1>4
<1>6. ASSUME NEW q \in Requests \ {r}, NEW i \in 1..2
      PROVE  AnsweredAt(q, i, p)' <=> AnsweredAt(q, i, p)
  <2>1. req'[q] = req[q]
    BY DEF Hears
  <2>2. QED
    BY <2>1 DEF AnsweredAt, Unheard
<1>7. CASE p = Upstream(r)
  <2>1. <<r, n>> \notin AnsweredBy(p)
    BY <1>1, <1>4, AnsweredPairs
  <2>2. \A q \in Requests, i \in 1..2 :
          <<q, i>> \in AnsweredBy(p)' <=> <<q, i>> \in AnsweredBy(p) \/ (q = r /\ i = n)
    BY <1>5, <1>6, <1>7, AnsweredPairs
  <2>3. AnsweredBy(p)' = AnsweredBy(p) \cup {<<r, n>>}
    <3>1. PICK A, B : A = AnsweredBy(p) /\ B = AnsweredBy(p)'
      OBVIOUS
    <3>2. A \in SUBSET (Requests \X (1..2)) /\ B \in SUBSET (Requests \X (1..2))
      BY <3>1, AnsweredPairs
    <3>3. \A q \in Requests, i \in 1..2 : <<q, i>> \in B <=> <<q, i>> \in A \/ (q = r /\ i = n)
      BY <2>2, <3>1
    <3>4. \A s \in Requests, k \in 1..2 :
            (\A q \in Requests, i \in 1..2 : <<q, i>> \in B <=> <<q, i>> \in A \/ (q = s /\ i = k))
            => B = A \cup {<<s, k>>}
      BY <3>2, PairSets
    <3>5. B = A \cup {<<r, n>>}
      BY <1>1, <3>3, <3>4, Zenon
    <3>6. QED
      BY <3>1, <3>5
  <2>4. QED
    BY <1>7, <2>1, <2>3 DEF n
<1>8. CASE p # Upstream(r)
  <2>1. \A q \in Requests, i \in 1..2 :
          <<q, i>> \in AnsweredBy(p)' <=> <<q, i>> \in AnsweredBy(p)
    BY <1>5, <1>6, <1>8, AnsweredPairs
  <2>2. QED
    BY <1>8, <2>1, AnsweredPairs, PairSets
<1>9. QED
  BY <1>7, <1>8

\* There are finitely many exchanges, of any kind.
LEMMA SomePairs == \A S \in SUBSET (Requests \X (1..2)) : IsFiniteSet(S)
<1>1. IsFiniteSet(1..2)
  <2>1. 1..2 = {1} \cup {2}
    OBVIOUS
  <2>2. IsFiniteSet({1} \cup {2})
    BY FS_Singleton, FS_AddElement
  <2>3. QED
    BY <2>1, <2>2
<1>2. IsFiniteSet(Requests \X (1..2))
  BY <1>1, RequestsAssumption, FS_Product
<1>3. QED
  BY <1>2, FS_Subset

\* The exchanges counted are finitely many.
LEMMA FiniteExchanges == \A p : IsFiniteSet(AnsweredBy(p)) /\ IsFiniteSet(AnsweredBy(p)')
BY SomePairs, AnsweredPairs

\* The count of exchanges is inductive beside IInv.
LEMMA NextAnswered ==
    ASSUME IInv, AnswersObservedOnce, [Next]_vars
    PROVE  AnswersObservedOnce'
<1> DEFINE Observed(p) == metrics.requests[p]["ok"] + metrics.requests[p]["upstream_error"]
                         + metrics.requests[p]["transport_error"]
<1>1. \A p \in Providers : Observed(p) = Cardinality(AnsweredBy(p))
  BY DEF AnswersObservedOnce
<1>2. metrics.requests \in [Providers -> [Outcomes -> Nat]] /\ TypeOK
  BY DEF IInv, TypeOK, Counters
<1>3. ASSUME metrics'.requests = metrics.requests,
             \A p \in Providers : AnsweredBy(p)' = AnsweredBy(p)
      PROVE  AnswersObservedOnce'
  BY <1>1, <1>3 DEF AnswersObservedOnce
<1>4. ASSUME NEW r \in Requests, Hears(r)
      PROVE  AnswersObservedOnce'
  <2>1. PICK o \in Outcomes : Observe(Upstream(r), o)
    BY <1>4 DEF Hears
  <2>2. Upstream(r) \in Providers
    <3>1. req[r].sent \in Seq(Messages) /\ Len(req[r].sent) \in 1..Len(req[r].sent)
      BY <1>2, <1>4, Fields, EmptySeq, LenProperties DEF Hears
    <3>2. req[r].sent[Len(req[r].sent)] \in Messages
      BY <3>1, ElementOfSeq
    <3>3. QED
      BY <3>2 DEF Upstream, Messages
  <2>3. metrics'.requests = [metrics.requests EXCEPT
            ![Upstream(r)] = [metrics.requests[Upstream(r)] EXCEPT ![o] = @ + 1]]
    BY <1>2, <2>1, <2>2, ObserveFacts
  <2>4. ASSUME NEW p \in Providers
        PROVE  Observed(p)' = Cardinality(AnsweredBy(p)')
    <3>1. CASE p # Upstream(r)
      <4>1. Observed(p)' = Observed(p)
        BY <1>2, <2>2, <2>3, <3>1
      <4>2. AnsweredBy(p)' = AnsweredBy(p)
        BY <1>4, <3>1, OneMoreAnswered
      <4>3. QED
        BY <1>1, <4>1, <4>2
    <3>2. CASE p = Upstream(r)
      <4>1. Observed(p)' = Observed(p) + 1
        BY <1>2, <2>2, <2>3, <3>2 DEF Outcomes
      <4>2. /\ <<r, Len(req[r].sent)>> \notin AnsweredBy(p)
            /\ AnsweredBy(p)' = AnsweredBy(p) \cup {<<r, Len(req[r].sent)>>}
        BY <1>4, <3>2, OneMoreAnswered
      <4>3. Cardinality(AnsweredBy(p)') = Cardinality(AnsweredBy(p)) + 1
        BY <4>2, FiniteExchanges, OneMore
      <4>4. QED
        BY <1>1, <4>1, <4>3
    <3>3. QED
      BY <3>1, <3>2
  <2>5. QED
    BY <2>4 DEF AnswersObservedOnce
<1>5. ASSUME NEW r \in Requests, Begin(r) \/ Progress(r) \/ Cancel(r)
      PROVE  AnswersObservedOnce'
  <2>1. CASE Stays(r) \/ Sends(r)
    <3>1. metrics'.requests = metrics.requests
      BY <2>1 DEF Stays, Sends
    <3>2. QED
      BY <1>3, <2>1, <3>1, SameAnswered
  <2>2. QED
    BY <1>4, <1>5, <2>1, Kinds
<1>6. CASE ReadBudget \/ UNCHANGED vars
  <2>1. req' = req /\ metrics' = metrics
    BY <1>6 DEF ReadBudget, vars
  <2>2. \A p \in Providers : AnsweredBy(p)' = AnsweredBy(p)
    BY <2>1 DEF AnsweredBy, ExchangesWith, Exchanges, Unanswered, Unheard
  <2>3. QED
    BY <1>3, <2>1, <2>2
<1>7. QED
  BY <1>5, <1>6 DEF Next

\* Nothing has been sent, and nothing is counted.
LEMMA InitAnswered == Init => AnswersObservedOnce
<1> SUFFICES ASSUME Init, NEW p \in Providers
             PROVE  metrics.requests[p]["ok"] + metrics.requests[p]["upstream_error"]
                      + metrics.requests[p]["transport_error"] = Cardinality(AnsweredBy(p))
  BY DEF AnswersObservedOnce
<1>1. \A q \in Requests : req[q].sent = <<>>
  BY DEF Init
<1>2. AnsweredBy(p) = {}
  BY <1>1 DEF AnsweredBy, ExchangesWith, Exchanges
<1>3. Cardinality(AnsweredBy(p)) = 0
  BY <1>2, FS_EmptySet
<1>4. \A o \in Outcomes : metrics.requests[p][o] = 0
  BY DEF Init, ZeroMetrics
<1>5. QED
  BY <1>3, <1>4 DEF Outcomes

\* bb_requests_total is, for each provider, the number of exchanges that ended
\* in headers or in a failure: none is counted twice, none is missed, and a
\* hang-up before either is in no outcome.
THEOREM ObservedOnce == Spec => []AnswersObservedOnce
BY InitAnswered, NextAnswered, CascadeInvariant, PTL DEF Spec

-----------------------------------------------------------------------------
\* The reply takes no step that the cascade does not know.

\* Taking a lock of the reply reads the budget, or changes nothing.
LEMMA ReadLedgerQuiet ==
    ASSUME NEW l, ReadLedger(l)
    PROVE  [Next]_vars /\ UNCHANGED <<req, answer, sticky, history>>
<1>1. UNCHANGED <<cfg, req, sticky, history, metrics, heard, log, answer>>
  BY DEF ReadLedger, Pool!Refresh
<1>2. CASE l = "budget"
  <2>1. ReadBudget
    BY <1>2 DEF ReadLedger, ReadBudget
  <2>2. QED
    BY <1>1, <2>1 DEF Next
<1>3. CASE l # "budget"
  <2>1. used' = used
    BY <1>3 DEF ReadLedger
  <2>2. QED
    BY <1>1, <2>1 DEF vars
<1>4. QED
  BY <1>2, <1>3

\* A step of the whole is a step of the cascade, or leaves it alone.
LEMMA StatusStep ==
    ASSUME [StatusNext]_statusVars
    PROVE  [Next]_vars
BY ReadLedgerQuiet DEF StatusNext, statusVars

-----------------------------------------------------------------------------
\* Grants.

\* A grant is never taken back.
LEMMA GrantsStay ==
    ASSUME IInv, [Next]_vars
    PROVE  /\ Cardinality(GrantedRequests) \in Nat /\ Cardinality(GrantedRequests') \in Nat
           /\ Cardinality(GrantedRequests) <= Cardinality(GrantedRequests')
<1>1. \A r \in Requests : Granted(r) => Granted(r)'
  <2>1. CASE UNCHANGED answer
    BY <2>1 DEF Granted
  <2>2. ASSUME NEW r \in Requests, TryReserve(r), NEW q \in Requests, Granted(q)
        PROVE  Granted(q)'
    <3>1. At(r, "escalate") /\ answer \in [Requests -> Pool!Answers]
      BY <2>2 DEF TryReserve, IInv, TypeOK
    <3>2. answer[r] = "none"
      BY <3>1 DEF IInv, TaskInv, PlaceOK
    <3>3. answer' = [answer EXCEPT ![r] = "granted"] \/ answer' = [answer EXCEPT ![r] = "denied"]
      BY <2>2 DEF TryReserve, Pool!Reserve, Pool!Deny
    <3>4. QED
      BY <2>2, <3>1, <3>2, <3>3 DEF Granted
  <2>3. ASSUME NEW r \in Requests, EscalateStep(r), ~TryReserve(r)
        PROVE  UNCHANGED answer
    BY <2>3 DEF EscalateStep, MarkCloud, RecordGrant, CountGrant, RecordDenial, CountDenial, shared
  <2>4. ASSUME NEW r \in Requests, Begin(r) \/ LocalStep(r) \/ ForwardStep(r) \/ Cancel(r)
        PROVE  UNCHANGED answer
    <3>1. QuietMove(r)
      BY <2>4, QuietMoves
    <3>2. QED
      BY <3>1 DEF QuietMove, shared
  <2>5. CASE ReadBudget \/ UNCHANGED vars
    BY <2>1, <2>5 DEF ReadBudget, Pool!Refresh, vars
  <2>6. QED
    BY <2>1, <2>2, <2>3, <2>4, <2>5 DEF Next, Progress
<1>2. GrantedRequests \subseteq GrantedRequests' /\ GrantedRequests' \subseteq Requests
  BY <1>1 DEF GrantedRequests
<1>3. IsFiniteSet(GrantedRequests')
  BY <1>2, RequestsAssumption, FS_Subset
<1>4. IsFiniteSet(GrantedRequests)
  BY FiniteSets
<1>5. QED
  BY <1>2, <1>3, <1>4, FS_Subset, FS_CardinalityType

\* There are no more sticky conversations than grants.
LEMMA StickyBounded ==
    ASSUME IInv
    PROVE  Cardinality(sticky) \in Nat /\ Cardinality(sticky) <= Cardinality(GrantedRequests)
<1> DEFINE f == [k \in sticky |-> CHOOSE q \in GrantedRequests : req[q].key = k]
<1>1. \A k \in sticky : \E q \in GrantedRequests : req[q].key = k
  BY DEF IInv, StickyByGrant, GrantedRequests
<1>2. \A k \in sticky : f[k] \in GrantedRequests /\ req[f[k]].key = k
  BY <1>1
<1>3. f \in [sticky -> GrantedRequests]
  BY <1>2
<1> HIDE DEF f
<1>4. f \in Injection(sticky, GrantedRequests)
  BY <1>2, <1>3 DEF Injection, IsInjective
<1>5. IsFiniteSet(GrantedRequests)
  BY FiniteSets
<1>6. IsFiniteSet(sticky) /\ Cardinality(sticky) <= Cardinality(GrantedRequests)
  BY <1>4, <1>5, FS_Injection
<1>7. QED
  BY <1>6, FS_CardinalityType

\* The grants are those in the history and those on their way into it.
LEMMA GrantsExplained ==
    Cardinality(LoggedGrants) + Cardinality(Unrecorded) = Cardinality(GrantedRequests)
<1>1. LoggedGrants \cup Unrecorded = GrantedRequests /\ LoggedGrants \cap Unrecorded = {}
  BY DEF LoggedGrants, Unrecorded, GrantedRequests
<1>2. IsFiniteSet(LoggedGrants) /\ IsFiniteSet(Unrecorded)
  <2>1. Unrecorded \subseteq Requests
    BY DEF Unrecorded
  <2>2. QED
    BY <2>1, FiniteSets, RequestsAssumption, FS_Subset
<1>3. Cardinality(LoggedGrants) \in Nat /\ Cardinality(Unrecorded) \in Nat
  BY <1>2, FS_CardinalityType
<1>4. Cardinality({}) = 0
  BY FS_EmptySet
<1>5. Cardinality(LoggedGrants \cup Unrecorded) =
        Cardinality(LoggedGrants) + Cardinality(Unrecorded) - Cardinality(LoggedGrants \cap Unrecorded)
  BY <1>2, FS_Union
<1>6. Cardinality(GrantedRequests) = Cardinality(LoggedGrants) + Cardinality(Unrecorded) - 0
  BY <1>1, <1>4, <1>5, Zenon
<1>7. \A m, n \in Nat : m + n - 0 = m + n
  OBVIOUS
<1>8. QED
  BY <1>3, <1>6, <1>7

-----------------------------------------------------------------------------
\* The page.

\* The orders that are left, and what the next lock leaves of them.
LEMMA Orders ==
    /\ Head(Order) = "budget" /\ Tail(Order) = <<"sticky", "history">> /\ Len(Order) = 3
    /\ Head(<<"sticky", "history">>) = "sticky" /\ Tail(<<"sticky", "history">>) = <<"history">>
    /\ Len(<<"sticky", "history">>) = 2
    /\ Head(<<"history">>) = "history" /\ Len(<<"history">>) = 1
    /\ Order # <<"history">> /\ Order # <<"sticky", "history">>
    /\ <<"sticky", "history">> # <<"history">>
BY DEF Order

\* Each critical section adds its number to the page, or sends the reply.
LEMMA ReadPage ==
    ASSUME StatusIInv, NEW l \in Ledgers, ReadLedger(l)
    PROVE  \/ /\ page.left = Order
              /\ page'.left = <<"sticky", "history">> /\ page'.seen \in [Ledgers -> Nat]
              /\ page'.seen["budget"] = used'
           \/ /\ page.left = <<"sticky", "history">>
              /\ page'.left = <<"history">> /\ page'.seen \in [Ledgers -> Nat]
              /\ page'.seen["budget"] = page.seen["budget"]
              /\ page'.seen["sticky"] = Cardinality(sticky)
           \/ page.left = <<"history">> /\ page' = BlankPage
<1>1. /\ page.left \in {Order, <<"sticky", "history">>, <<"history">>}
      /\ page.seen \in [Ledgers -> Nat]
      /\ l = Head(page.left)
      /\ page' = IF Len(page.left) = 1 THEN BlankPage
                 ELSE [left |-> Tail(page.left), seen |-> Numbers]
  BY DEF StatusIInv, PageBehind, Pages, ReadLedger
<1>2. /\ Numbers = [page.seen EXCEPT ![Head(page.left)] = Reading(Head(page.left))]
      /\ Ledgers = {"budget", "sticky", "history"}
  BY DEF Numbers, Ledgers
<1>3. CASE page.left = Order
  <2>1. used' \in Nat
    BY <1>1, <1>3, Orders DEF ReadLedger, Pool!Refresh, StatusIInv, IInv, TypeOK
  <2>2. Reading("budget") = used'
    BY DEF Reading
  <2>3. Numbers = [page.seen EXCEPT !["budget"] = used']
    BY <1>2, <1>3, <2>2, Orders
  <2>4. Len(page.left) # 1 /\ Tail(page.left) = <<"sticky", "history">>
    <3>1. Len(page.left) = 3 /\ Tail(page.left) = <<"sticky", "history">>
      BY <1>3, Orders, Zenon
    <3>2. QED
      BY <3>1
  <2>5. page' = [left |-> Tail(page.left), seen |-> Numbers]
    BY <1>1, <2>4, Zenon
  <2>6. page'.left = <<"sticky", "history">> /\ page'.seen = Numbers
    BY <2>4, <2>5
  <2>7. Numbers \in [Ledgers -> Nat] /\ Numbers["budget"] = used'
    BY <1>1, <1>2, <2>1, <2>3
  <2>8. QED
    BY <1>3, <2>6, <2>7, Zenon
<1>4. CASE page.left = <<"sticky", "history">>
  <2>1. Cardinality(sticky) \in Nat
    BY StickyBounded DEF StatusIInv
  <2>2. Reading("sticky") = Cardinality(sticky)
    BY DEF Reading
  <2>3. Numbers = [page.seen EXCEPT !["sticky"] = Cardinality(sticky)]
    BY <1>2, <1>4, <2>2, Orders
  <2>4. page' = [left |-> <<"history">>, seen |-> Numbers]
    BY <1>1, <1>4, Orders
  <2>5. QED
    BY <1>1, <1>2, <1>4, <2>1, <2>3, <2>4
<1>5. CASE page.left = <<"history">>
  BY <1>1, <1>5, Orders
<1>6. QED
  BY <1>1, <1>3, <1>4, <1>5

-----------------------------------------------------------------------------
\* The inductive invariant.

\* An empty page is behind everything.
LEMMA StatusInitIInv ==
    StatusInit => StatusIInv
<1> SUFFICES ASSUME StatusInit
             PROVE  StatusIInv
  OBVIOUS
<1>1. IInv /\ LedgersAgree
  BY InitIInv, InitLedgers DEF StatusInit
<1>2. page.left = Order /\ page \in Pages
  BY DEF StatusInit, BlankPage, Pages
<1>3. PageBehind
  BY <1>2, Orders DEF PageBehind
<1>4. QED
  BY <1>1, <1>3 DEF StatusIInv

\* What has been read stays within the grants: they only grow.
LEMMA PageStaysBehind ==
    ASSUME StatusIInv, UNCHANGED page, [Next]_vars
    PROVE  PageBehind'
<1>1. /\ Cardinality(GrantedRequests) \in Nat /\ Cardinality(GrantedRequests') \in Nat
      /\ Cardinality(GrantedRequests) <= Cardinality(GrantedRequests')
  BY GrantsStay DEF StatusIInv
<1>2. page \in Pages /\ page.seen["budget"] \in Nat /\ page.seen["sticky"] \in Nat
  BY DEF StatusIInv, PageBehind, Pages, Ledgers
<1>3. QED
  BY <1>1, <1>2 DEF StatusIInv, PageBehind

\* What a lock of the reply reads is within the grants of that moment.
LEMMA ReadStaysBehind ==
    ASSUME StatusIInv, LedgersAgree', NEW l \in Ledgers, ReadLedger(l)
    PROVE  PageBehind'
<1>1. GrantedRequests' = GrantedRequests
  BY ReadLedgerQuiet DEF GrantedRequests, Granted
<1>2. /\ Cardinality(GrantedRequests') \in Nat
      /\ used' <= Cardinality(GrantedRequests')
  BY <1>1, FiniteSets, FS_CardinalityType DEF LedgersAgree
<1>3. ASSUME page.left = Order,
             page'.left = <<"sticky", "history">>, page'.seen \in [Ledgers -> Nat],
             page'.seen["budget"] = used',
             page' = [left |-> page'.left, seen |-> page'.seen]
      PROVE  PageBehind'
  <2>1. page' \in Pages
    BY <1>3 DEF Pages
  <2>2. QED
    BY <2>1, <1>2, <1>3, Orders DEF PageBehind
<1>4. ASSUME page.left = <<"sticky", "history">>,
             page'.left = <<"history">>, page'.seen \in [Ledgers -> Nat],
             page'.seen["budget"] = page.seen["budget"],
             page'.seen["sticky"] = Cardinality(sticky),
             page' = [left |-> page'.left, seen |-> page'.seen]
      PROVE  PageBehind'
  <2>1. page' \in Pages
    BY <1>4 DEF Pages
  <2>2. page.seen["budget"] <= Cardinality(GrantedRequests)
    BY <1>4, Orders DEF StatusIInv, PageBehind
  <2>3. Cardinality(sticky) <= Cardinality(GrantedRequests)
    BY StickyBounded DEF StatusIInv
  <2>4. QED
    BY <2>1, <2>2, <2>3, <1>1, <1>4 DEF PageBehind
<1>5. ASSUME page' = BlankPage
      PROVE  PageBehind'
  <2>1. page'.left = Order /\ page' \in Pages
    BY <1>5 DEF BlankPage, Pages
  <2>2. QED
    BY <2>1, Orders DEF PageBehind
<1>6. page' = BlankPage \/ page' = [left |-> page'.left, seen |-> page'.seen]
  BY DEF ReadLedger
<1>7. QED
  BY <1>3, <1>4, <1>5, <1>6, ReadPage

\* Every step of the requests and every lock of the reply keeps it.
LEMMA StatusNextIInv ==
    StatusIInv /\ [StatusNext]_statusVars => StatusIInv'
<1> SUFFICES ASSUME StatusIInv, [StatusNext]_statusVars
             PROVE  StatusIInv'
  OBVIOUS
<1>1. [Next]_vars
  BY StatusStep
<1>2. IInv' /\ LedgersAgree'
  BY <1>1, NextIInv, NextLedgers DEF StatusIInv
<1>3. ASSUME UNCHANGED page
      PROVE  PageBehind'
  BY <1>1, <1>3, PageStaysBehind
<1>4. ASSUME NEW l \in Ledgers, ReadLedger(l)
      PROVE  PageBehind'
  BY <1>2, <1>4, ReadStaysBehind
<1>5. PageBehind'
  BY <1>3, <1>4 DEF StatusNext, statusVars
<1>6. QED
  BY <1>2, <1>5 DEF StatusIInv

\* GET /status disturbs nothing the cascade relies on: its invariants and the
\* agreement of its ledgers hold with replies being put together, of which a
\* part never says more than the grants there are.
THEOREM StatusInvariant == StatusSpec => []StatusIInv
<1>1. QED
  BY StatusInitIInv, StatusNextIInv, PTL DEF StatusSpec

-----------------------------------------------------------------------------
\* The reply.

\* The last lock reads the history, and the reply is sent with it.
LEMMA ReplySent ==
    ASSUME StatusIInv, NEW l \in Ledgers, ReadLedger(l), page' = BlankPage
    PROVE  LET explained == Numbers["history"] + Cardinality(Unrecorded)
           IN  Numbers["budget"] <= explained /\ Numbers["sticky"] <= explained
<1>1. page.left = <<"history">>
  <2>1. page'.left = Order
    BY DEF BlankPage
  <2>2. QED
    BY <2>1, ReadPage, Orders
<1>2. page.seen \in [Ledgers -> Nat] /\ Ledgers = {"budget", "sticky", "history"}
  BY DEF StatusIInv, PageBehind, Pages, Ledgers
<1>3. Numbers = [page.seen EXCEPT !["history"] = history.total_escalations]
  <2>1. Reading("history") = history.total_escalations
    BY DEF Reading
  <2>2. QED
    BY <1>1, <2>1, Orders DEF Numbers
<1>4. /\ Numbers["history"] = history.total_escalations
      /\ Numbers["budget"] = page.seen["budget"]
      /\ Numbers["sticky"] = page.seen["sticky"]
  BY <1>2, <1>3
<1>5. history.total_escalations + Cardinality(Unrecorded) = Cardinality(GrantedRequests)
  BY GrantsExplained DEF StatusIInv, LedgersAgree
<1>6. /\ page.seen["budget"] <= Cardinality(GrantedRequests)
      /\ page.seen["sticky"] <= Cardinality(GrantedRequests)
  BY <1>1, Orders DEF StatusIInv, PageBehind
<1>7. QED
  BY <1>4, <1>5, <1>6

\* A reply of GET /status, whose parts are read under three locks while
\* escalations go on, never shows more of the budget spent, or more sticky
\* conversations, than the escalations it lists and those on their way into
\* the list explain.
THEOREM NeverAhead == StatusSpec => StatusNeverAhead
<1>1. ASSUME StatusIInv, [StatusNext]_statusVars, page' = BlankPage, page # BlankPage
      PROVE  LET explained == Numbers["history"] + Cardinality(Unrecorded)
             IN  Numbers["budget"] <= explained /\ Numbers["sticky"] <= explained
  <2>1. PICK l \in Ledgers : ReadLedger(l)
    BY <1>1 DEF StatusNext, statusVars
  <2>2. QED
    BY <1>1, <2>1, ReplySent
<1>2. QED
  BY <1>1, StatusInvariant, PTL DEF StatusSpec, StatusNeverAhead

-----------------------------------------------------------------------------
\* The cascade under the doors.

\* A chat request that is sent into the cascade begins like any other.
LEMMA ChatCascadeInv ==
    ASSUME DoorIInv, NEW r \in ChatRequests, ChatCascade(r)
    PROVE  /\ IInv' /\ QuietMove(r)
           /\ Moves(r, "check_sticky", "none", <<>>) /\ req'[r].trigger = "none"
<1> DEFINE k == ConversationKey(Translated(chat[r].body.messages))
<1>1. IInv /\ At(r, "idle") /\ r \in Requests
  BY DoorAssumption DEF DoorIInv, DoorPlaceOK, ChatCascade, InPipeline, AtDoor
<1>2. k \in ConversationKeys
  <2>1. chat[r].body \in ChatBodies \cup {Blank}
    BY DEF DoorIInv, DoorTypeOK
  <2>2. QED
    BY <2>1, KeyAssumption DEF ChatCascade, InPipeline, Blank, Translatable
<1>3. Enter(r, k) /\ UNCHANGED <<cfg, shared, metrics>>
  BY DEF ChatCascade
<1> HIDE DEF k
<1>4. IInv'
  BY <1>1, <1>2, <1>3, EnterInv
<1>5. /\ req[r].result = "none" /\ req[r].sent = <<>> /\ req[r].trigger = "none"
      /\ answer[r] = "none"
  BY <1>1 DEF IInv, TaskInv, PlaceOK, At, Fresh
<1>6. Moves(r, "check_sticky", "none", <<>>)
  BY <1>1, <1>2, <1>3, <1>5, BlockMoves
<1>7. req'[r].trigger = "none"
  <2> DEFINE b == k # NoKey /\ \E q \in Requests : req[q].key = k /\ WentToCloud(q)
  <2>1. Becomes(r, [at |-> "check_sticky", key |-> k, trigger |-> req[r].trigger,
                    sent |-> req[r].sent, result |-> req[r].result, afterCloud |-> b])
    BY <1>1, <1>2, <1>3, EnterFacts DEF IInv
  <2> HIDE DEF b
  <2>2. QED
    BY <1>5, <2>1 DEF Becomes
<1>8. QuietMove(r)
  BY <1>1, <1>3, <1>5, <1>6, <1>7 DEF QuietMove, Moves, Owing, At
<1>9. QED
  BY <1>4, <1>6, <1>7, <1>8

\* So does one that is forwarded to a provider, past the tiers.
LEMMA ChatForwardInv ==
    ASSUME DoorIInv, NEW r \in ChatRequests, ChatForward(r)
    PROVE  /\ IInv' /\ QuietMove(r) /\ req'[r].trigger = "none"
           /\ \/ /\ cfg.state["named"] = "ok"
                 /\ Moves(r, "awaiting_forward", "none", <<Copy("named")>>)
              \/ /\ cfg.state["named"] # "ok"
                 /\ Moves(r, "done", LookupError("named"), <<>>)
<1>1. IInv /\ At(r, "idle") /\ r \in Requests
  BY DoorAssumption DEF DoorIInv, DoorPlaceOK, ChatForward, InPipeline, AtDoor
<1>2. Forward(r, "named", "none") /\ UNCHANGED <<cfg, shared, metrics>>
  BY DEF ChatForward
<1>3. /\ "named" \in Providers /\ "none" \in Notes /\ "awaiting_forward" \in Places
      /\ LookupError("named") \in Results
  BY DEF Providers, Notes, Places, Awaits, LookupError, Results
<1>4. IInv'
  BY <1>1, <1>2, <1>3, ForwardInv DEF IInv, TypeOK
<1>5. /\ req[r].result = "none" /\ req[r].sent = <<>> /\ req[r].trigger = "none"
      /\ answer[r] = "none"
  BY <1>1 DEF IInv, TaskInv, PlaceOK, At, Fresh
<1>6. CASE cfg.state["named"] = "ok"
  <2>1. Send(r, "named", "none", "awaiting_forward")
    BY <1>2, <1>6 DEF Forward
  <2>2. Moves(r, "awaiting_forward", "none", Append(<<>>, [to |-> "named", note |-> "none"]))
    BY <1>1, <1>3, <1>5, <2>1, BlockMoves
  <2>3. Append(<<>>, [to |-> "named", note |-> "none"]) = <<Copy("named")>>
    BY Tuples DEF Copy
  <2>4. Moves(r, "awaiting_forward", "none", <<Copy("named")>>)
    BY <2>2, <2>3, Zenon
  <2>5. Becomes(r, With(r, "awaiting_forward", req[r].trigger,
                        Append(req[r].sent, [to |-> "named", note |-> "none"]), req[r].result))
    BY <1>1, <1>3, <2>1, SendFacts DEF IInv
  <2>6. req'[r].trigger = "none"
    BY <1>5, <2>5 DEF Becomes, With
  <2>7. QuietMove(r)
    BY <1>1, <1>2, <1>5, <2>4, <2>6 DEF QuietMove, Moves, Owing, At
  <2>8. QED
    BY <1>4, <1>6, <2>4, <2>6, <2>7
<1>7. CASE cfg.state["named"] # "ok"
  <2>1. Respond(r, LookupError("named"))
    BY <1>2, <1>7 DEF Forward
  <2>2. Moves(r, "done", LookupError("named"), <<>>)
    BY <1>1, <1>3, <1>5, <2>1, BlockMoves
  <2>3. Becomes(r, With(r, "done", req[r].trigger, req[r].sent, LookupError("named")))
    BY <1>1, <1>3, <2>1, RespondFacts DEF IInv
  <2>4. req'[r].trigger = "none"
    BY <1>5, <2>3 DEF Becomes, With
  <2>5. QuietMove(r)
    BY <1>1, <1>2, <1>5, <2>2, <2>4 DEF QuietMove, Moves, Owing, At
  <2>6. QED
    BY <1>4, <1>7, <2>2, <2>4, <2>5
<1>8. QED
  BY <1>6, <1>7

\* Every other step at a door is a step of the cascade, or leaves it alone.
LEMMA DoorStep ==
    ASSUME [DoorNext]_<<vars, doorVars>>
    PROVE  \/ [Next]_vars
           \/ \E r \in ChatRequests : ChatCascade(r) \/ ChatForward(r)
<1>1. ASSUME NEW r \in Requests, MessageDoor(r)
      PROVE  [Next]_vars
  BY <1>1 DEF MessageDoor, MessageArrive, Next, Begin
<1>2. ASSUME NEW r \in Requests, CascadeProgress(r)
      PROVE  [Next]_vars
  BY <1>2 DEF CascadeProgress, Next
<1>3. ASSUME NEW r \in ChatRequests, ChatProgress(r)
      PROVE  [Next]_vars \/ ChatCascade(r) \/ ChatForward(r)
  BY <1>3 DEF ChatProgress, Passthrough, PassthroughAnswer, PipelineRefused, ChatReply, ReadAnswer
<1>4. ASSUME NEW r \in ChatRequests, ChatDoor(r)
      PROVE  [Next]_vars
  <2>1. r \in Requests
    BY DoorAssumption
  <2>2. QED
    BY <1>4, <2>1 DEF ChatDoor, ChatRefused, ChatArrive, ChatCancel, Next
<1>5. ASSUME NEW s \in ChatChoices, PutSettings(s)
      PROVE  [Next]_vars
  BY <1>5 DEF PutSettings
<1>6. ASSUME ReadBudget
      PROVE  [Next]_vars
  BY <1>6 DEF Next
<1>7. QED
  BY <1>1, <1>2, <1>3, <1>4, <1>5, <1>6 DEF DoorNext, Serve

-----------------------------------------------------------------------------
\* What the cascade does to the road of a request.

\* Nothing but Begin sends a bare copy to a named provider.
LEMMA NeverNamed ==
    ASSUME IInv, IInv', NEW r \in Requests, Progress(r) \/ Cancel(r),
           req'[r].sent = <<Copy("named")>>
    PROVE  req[r].sent = <<Copy("named")>>
<1> DEFINE Keeps == \E place, result : Moves(r, place, result, req[r].sent)
<1>1. TypeOK
  BY DEF IInv
<1>2. /\ {"local", "cloud", "named"} = Providers /\ Notes = {"instruction", "unavailable", "none"}
      /\ {"attempt", "reading_error", "reading_attempt", "awaiting_attempt", "awaiting_forward",
          "reading_forward_error"} \subseteq Places
      /\ {"UnknownProvider", "MissingApiKey", "transport_error",
          "upstream_error", "answer", "cancelled_unanswered", "cancelled_reading"} \subseteq Results
      /\ {"sticky", "sentinel", "fail_mode"} = Triggers
  BY DEF Providers, Notes, Places, Awaits, Results, Triggers
<1>3. SUFFICES Keeps
  BY DEF Moves
<1>4. \A x \in Results : Respond(r, x) => Keeps
  BY BlockMoves, Zenon
<1>5. \A place \in Places : Goto(r, place) => Keeps
  BY BlockMoves, Zenon
<1>6. \A t \in Triggers : Escalate(r, t) => Keeps
  BY BlockMoves, Zenon
<1> HIDE DEF Keeps
<1>7. \A x \in Results : LocalFailed(r, x) => Keeps
  BY <1>4, <1>6, LocalFailedBlocks
<1>8. answer'[r] = "none"
  <2>1. SentOK(r)' /\ PlaceOK(r)'
    BY DEF IInv, TaskInv
  <2>2. /\ <<Copy("named")>> # <<>> /\ <<Copy("named")>> # <<Instructed>>
        /\ <<Copy("named")>> # <<Copy("cloud")>> /\ <<Copy("named")>> # <<WithNote>>
        /\ <<Copy("named")>> # <<Instructed, Copy("cloud")>>
        /\ <<Copy("named")>> # <<Instructed, WithNote>>
    BY DEF Copy, Instructed, WithNote
  <2>3. req'[r].trigger = "none"
    BY <2>1, <2>2 DEF SentOK
  <2>4. QED
    BY <2>1, <2>3 DEF PlaceOK
<1>9. CASE EscalateStep(r)
  <2>1. PlaceOK(r) /\ PlaceOK(r)'
    BY DEF IInv, TaskInv
  <2>2. CASE TryReserve(r)
    BY <1>2, <1>5, <2>2 DEF TryReserve, Places
  <2>3. CASE MarkCloud(r) \/ RecordGrant(r) \/ RecordDenial(r) \/ CountGrant(r) \/ CountDenial(r)
    BY <1>8, <2>1, <2>3 DEF MarkCloud, RecordGrant, RecordDenial, CountGrant, CountDenial,
                            PlaceOK, At, Granted, Denied, shared
  <2>4. QED
    BY <1>9, <2>2, <2>3 DEF EscalateStep
<1>10. CASE LocalStep(r)
  <2>1. CASE StartAttempt(r)
    <3>1. CASE cfg.state["local"] = "ok"
      <4>1. Send(r, "local", "instruction", "awaiting_attempt")
        BY <2>1, <3>1 DEF StartAttempt
      <4>2. req'[r].at = "awaiting_attempt"
        BY <1>2, <4>1, BlockMoves DEF Moves
      <4>3. req'[r].sent = <<Instructed>>
        BY <4>2 DEF IInv, TaskInv, PlaceOK, Trying
      <4>4. <<Copy("named")>> # <<Instructed>>
        BY DEF Copy, Instructed
      <4>5. QED
        BY <4>3, <4>4, Zenon
    <3>2. CASE cfg.state["local"] # "ok"
      <4>1. LookupError("local") \in Results
        BY <1>2 DEF LookupError
      <4>2. QED
        BY <1>7, <2>1, <3>2, <4>1 DEF StartAttempt
    <3>3. QED
      BY <3>1, <3>2
  <2>2. CASE CheckSticky(r)
    BY <1>2, <1>5, <1>6, <2>2 DEF CheckSticky
  <2>3. CASE AttemptTransportError(r) \/ AttemptErrorBody(r) \/ AttemptBodyError(r)
    BY <1>2, <1>7, <2>3 DEF AttemptTransportError, AttemptErrorBody, AttemptBodyError
  <2>4. CASE AttemptErrorStatus(r) \/ AttemptOk(r)
    BY <1>2, <1>5, <2>4 DEF AttemptErrorStatus, AttemptOk
  <2>5. CASE AttemptSentinel(r)
    BY <1>2, <1>6, <2>5 DEF AttemptSentinel
  <2>6. CASE AttemptClean(r)
    BY <1>2, <1>4, <2>6 DEF AttemptClean
  <2>7. QED
    BY <1>10, <2>1, <2>2, <2>3, <2>4, <2>5, <2>6 DEF LocalStep
<1>11. CASE ForwardStep(r)
  BY <1>2, <1>4, <1>5, <1>11
  DEF ForwardStep, ForwardTransportError, ForwardErrorStatus, ForwardErrorBody, ForwardOk
<1>12. CASE Cancel(r)
  BY <1>2, <1>4, <1>12 DEF Cancel
<1>13. QED
  BY <1>9, <1>10, <1>11, <1>12 DEF Progress

\* A request that has been forwarded waits for the answer and nothing else.
LEMMA ForwardedStays ==
    ASSUME IInv, NEW r \in Requests, Progress(r) \/ Cancel(r), req[r].at \in Forwarding
    PROVE  req'[r].at \in {"done"} \cup Forwarding /\ req'[r].sent = req[r].sent
<1>1. /\ "reading_forward_error" \in Places
      /\ {"transport_error", "upstream_error", "answer", "cancelled_unanswered",
          "cancelled_reading"} \subseteq Results
  BY DEF Places, Awaits, Results
<1>2. \A x \in Results : Respond(r, x) => Moves(r, "done", x, req[r].sent)
  BY BlockMoves, Zenon
<1>3. \A place \in Places :
          Goto(r, place) => Moves(r, place, req[r].result, req[r].sent)
  BY BlockMoves, Zenon
<1>4. req[r].at \in {"awaiting_forward", "reading_forward_error"}
  BY DEF Forwarding
<1>5. ForwardStep(r) \/ Cancel(r)
  BY <1>4 DEF Progress, LocalStep, EscalateStep, CheckSticky, StartAttempt,
     AttemptTransportError, AttemptErrorStatus, AttemptErrorBody, AttemptOk, AttemptSentinel,
     AttemptClean, AttemptBodyError, TryReserve, MarkCloud, RecordGrant, RecordDenial,
     CountGrant, CountDenial, At
<1>6. CASE ForwardErrorStatus(r)
  BY <1>1, <1>3, <1>6 DEF ForwardErrorStatus, Moves, Forwarding
<1>7. CASE ForwardTransportError(r) \/ ForwardErrorBody(r) \/ ForwardOk(r) \/ Cancel(r)
  BY <1>1, <1>2, <1>7 DEF ForwardTransportError, ForwardErrorBody, ForwardOk, Cancel, Moves
<1>8. QED
  BY <1>5, <1>6, <1>7 DEF ForwardStep

\* A task that runs is neither idle nor done, and runs alone.
LEMMA Alone ==
    ASSUME IInv, NEW r \in Requests, Progress(r) \/ Cancel(r)
    PROVE  /\ ~At(r, "idle") /\ ~At(r, "done") /\ cfg' = cfg
           /\ \A q \in Requests \ {r} : req'[q] = req[q]
<1>1. ~At(r, "idle") /\ ~At(r, "done") /\ cfg' = cfg
  BY DEF Progress, Cancel, LocalStep, EscalateStep, ForwardStep, CheckSticky, StartAttempt,
     AttemptTransportError, AttemptErrorStatus, AttemptErrorBody, AttemptOk, AttemptSentinel,
     AttemptClean, AttemptBodyError, TryReserve, MarkCloud, RecordGrant, RecordDenial,
     CountGrant, CountDenial, ForwardTransportError, ForwardErrorStatus, ForwardErrorBody,
     ForwardOk, At, Awaits
<1>2. \A q \in Requests \ {r} : req'[q] = req[q]
  BY Kinds DEF Stays, Sends, Hears
<1>3. QED
  BY <1>1, <1>2

-----------------------------------------------------------------------------
\* What a step does to the handlers at the chat door.

ChatTask == [at : DoorPlaces, choice : ChatChoices \cup {NoChat},
             body : ChatBodies \cup {Blank}, reply : Replies]

\* The handler of r goes to a place, keeps its choice, and no other moves.
Handler(r, place) ==
    /\ chat' \in [ChatRequests -> ChatTask]
    /\ chat'[r].at = place /\ chat'[r].choice = chat[r].choice
    /\ \A q \in ChatRequests \ {r} : chat'[q] = chat[q]

\* DoorGoto drops the body, DoorReply the body and the reply before.
LEMMA HandlerMoves ==
    ASSUME DoorTypeOK, NEW r \in ChatRequests
    PROVE  /\ \A place \in DoorPlaces : DoorGoto(r, place) => Handler(r, place)
           /\ \A reply \in Replies : DoorReply(r, reply) => Handler(r, "done")
<1>1. chat \in [ChatRequests -> ChatTask] /\ chat[r] \in ChatTask
  BY DEF DoorTypeOK, ChatTask
<1>2. ASSUME NEW u \in ChatTask, u.choice = chat[r].choice, chat' = [chat EXCEPT ![r] = u]
      PROVE  Handler(r, u.at)
  BY <1>1, <1>2 DEF Handler
<1>3. ASSUME NEW place \in DoorPlaces
      PROVE  /\ [[chat[r] EXCEPT !.at = place] EXCEPT !.body = Blank] \in ChatTask
             /\ [[chat[r] EXCEPT !.at = place] EXCEPT !.body = Blank].choice = chat[r].choice
             /\ [[chat[r] EXCEPT !.at = place] EXCEPT !.body = Blank].at = place
  <2>1. PICK u : u = [chat[r] EXCEPT !.at = place]
    OBVIOUS
  <2>2. u \in ChatTask /\ u.choice = chat[r].choice /\ u.at = place
    BY <1>1, <2>1 DEF ChatTask
  <2>3. /\ [u EXCEPT !.body = Blank] \in ChatTask
        /\ [u EXCEPT !.body = Blank].choice = chat[r].choice
        /\ [u EXCEPT !.body = Blank].at = place
    BY <2>2 DEF ChatTask
  <2>4. QED
    BY <2>1, <2>3, Zenon
<1>4. ASSUME NEW place \in DoorPlaces, DoorGoto(r, place)
      PROVE  Handler(r, place)
  <2>1. PICK u : u = [[chat[r] EXCEPT !.at = place] EXCEPT !.body = Blank]
    OBVIOUS
  <2>2. chat' = [chat EXCEPT ![r] = u]
    BY <1>4, <2>1, Zenon DEF DoorGoto
  <2>3. u \in ChatTask /\ u.choice = chat[r].choice /\ u.at = place
    BY <1>3, <2>1, Zenon
  <2>4. QED
    BY <1>2, <2>2, <2>3, Zenon
<1>5. ASSUME NEW reply \in Replies, DoorReply(r, reply)
      PROVE  Handler(r, "done")
  <2>1. PICK v : v = [[chat[r] EXCEPT !.at = "done"] EXCEPT !.body = Blank]
    OBVIOUS
  <2>2. PICK u : u = [v EXCEPT !.reply = reply]
    OBVIOUS
  <2>3. chat' = [chat EXCEPT ![r] = u]
    BY <1>5, <2>1, <2>2, Zenon DEF DoorReply
  <2>4. v \in ChatTask /\ v.choice = chat[r].choice /\ v.at = "done"
    BY <1>3, <2>1, Zenon DEF DoorPlaces
  <2>5. u \in ChatTask /\ u.choice = chat[r].choice /\ u.at = "done"
    BY <2>2, <2>4 DEF ChatTask
  <2>6. QED
    BY <1>2, <2>3, <2>5, Zenon
<1>6. QED
  BY <1>4, <1>5

\* The first user message of a body is a list of texts.
LEMMA FirstUserTyped ==
    ASSUME NEW ms \in Seq([role : Roles, parts : Seq(Seq(STRING))])
    PROVE  FirstUser(ms) \in Seq(Seq(STRING))
<1> DEFINE first == {i \in DOMAIN ms : /\ ms[i].role = "user"
                                       /\ \A j \in 1..(i - 1) : ms[j].role # "user"}
           i == CHOOSE i \in first : TRUE
<1>1. CASE first = {}
  BY <1>1 DEF FirstUser
<1>2. CASE first # {}
  <2>1. i \in first
    BY <1>2
  <2>2. i \in 1..Len(ms)
    BY <2>1
  <2>3. ms[i] \in [role : Roles, parts : Seq(Seq(STRING))]
    BY <2>2, ElementOfSeq
  <2>4. ms[i].parts \in Seq(Seq(STRING))
    BY <2>3
  <2>5. QED
    BY <1>2, <2>4 DEF FirstUser
<1>3. QED
  BY <1>1, <1>2

-----------------------------------------------------------------------------
\* The invariant, step by step.

\* What one request does at the doors leaves the others alone, and the count
\* of the modes changes only with the choices.
LEMMA OthersAtDoor ==
    ASSUME DoorIInv, IInv', DoorTypeOK', cfg' = cfg, NEW r,
           \A q \in Requests \ {r} : req'[q] = req[q],
           \A q \in ChatRequests \ {r} : chat'[q] = chat[q],
           r \in ChatRequests => DoorPlaceOK(r)' /\ RoadOK(r)',
           ModesAgree'
    PROVE  DoorIInv'
<1>1. ASSUME NEW q \in ChatRequests, q # r
      PROVE  DoorPlaceOK(q)' /\ RoadOK(q)'
  <2>1. req'[q] = req[q] /\ chat'[q] = chat[q]
    BY <1>1, DoorAssumption
  <2>2. DoorPlaceOK(q) /\ RoadOK(q)
    BY DEF DoorIInv
  <2>3. DoorPlaceOK(q)'
    BY <2>1, <2>2 DEF DoorPlaceOK, At, AtDoor
  <2>4. RoadOK(q)'
    BY <2>1, <2>2 DEF RoadOK, IntoCascade, ToProvider
  <2>5. QED
    BY <2>3, <2>4
<1>2. QED
  BY <1>1 DEF DoorIInv

\* The same choices have the same count.
LEMMA SameModes ==
    ASSUME ModesAgree, modes' = modes,
           \A q \in ChatRequests : chat'[q].choice = chat[q].choice
    PROVE  ModesAgree'
<1>1. Chosen(TRUE)' = Chosen(TRUE) /\ Chosen(FALSE)' = Chosen(FALSE)
  BY DEF Chosen
<1>2. QED
  BY <1>1 DEF ModesAgree

\* A step of the cascade that nothing at the door takes note of.
LEMMA InsideInv ==
    ASSUME DoorIInv, IInv', UNCHANGED doorVars, NEW r \in Requests,
           \/ Progress(r)
           \/ r \notin ChatRequests /\ (Begin(r) \/ Cancel(r))
    PROVE  DoorIInv'
<1>1. /\ settings' = settings /\ chat' = chat /\ modes' = modes /\ opening' = opening
  BY DEF doorVars
<1>2. DoorTypeOK'
  BY <1>1 DEF DoorIInv, DoorTypeOK, IInv
<1>3. ModesAgree'
  BY <1>1, SameModes DEF DoorIInv
<1>4. cfg' = cfg /\ \A q \in Requests \ {r} : req'[q] = req[q]
  <2>1. CASE Progress(r)
    BY <2>1, Alone DEF DoorIInv
  <2>2. CASE Begin(r) \/ Cancel(r)
    BY <2>2, QuietMoves DEF DoorIInv, QuietMove
  <2>3. QED
    BY <2>1, <2>2
<1>5. ASSUME r \in ChatRequests
      PROVE  DoorPlaceOK(r)' /\ RoadOK(r)'
  <2>1. /\ Progress(r) /\ DoorPlaceOK(r) /\ RoadOK(r) /\ IInv
    BY <1>5 DEF DoorIInv
  <2>2. ~At(r, "idle") /\ ~At(r, "done")
    BY <2>1, Alone
  <2>3. /\ chat[r].at \notin {"idle", "read", "passthrough"}
        /\ chat[r].choice # NoChat /\ chat[r].choice.pipeline
    BY <2>1, <2>2 DEF DoorPlaceOK
  <2>4. DoorPlaceOK(r)'
    BY <1>1, <2>3 DEF DoorPlaceOK, AtDoor
  <2>5. IntoCascade(chat[r].choice) => req'[r].sent # <<Copy("named")>>
    BY <2>1, <2>3, NeverNamed DEF RoadOK
  <2>6. ASSUME ToProvider(chat[r].choice)
        PROVE  /\ req'[r].at \in {"idle", "done"} \cup Forwarding
               /\ req'[r].trigger = "none"
               /\ req'[r].sent \in {<<>>, <<Copy("named")>>}
    <3>1. req[r].at \in Forwarding /\ req[r].sent \in {<<>>, <<Copy("named")>>}
      BY <2>1, <2>2, <2>3, <2>6 DEF RoadOK, At
    <3>2. req[r].sent = <<Copy("named")>>
      BY <2>1, <3>1 DEF IInv, TaskInv, PlaceOK
    <3>3. req'[r].at \in {"done"} \cup Forwarding /\ req'[r].sent = <<Copy("named")>>
      BY <2>1, <3>1, <3>2, ForwardedStays
    <3>4. /\ <<Copy("named")>> # <<>> /\ <<Copy("named")>> # <<Instructed>>
          /\ <<Copy("named")>> # <<Copy("cloud")>> /\ <<Copy("named")>> # <<WithNote>>
          /\ <<Copy("named")>> # <<Instructed, Copy("cloud")>>
          /\ <<Copy("named")>> # <<Instructed, WithNote>>
      BY DEF Copy, Instructed, WithNote
    <3>5. SentOK(r)'
      BY DEF IInv, TaskInv
    <3>6. req'[r].trigger = "none"
      BY <3>3, <3>4, <3>5 DEF SentOK
    <3>7. QED
      BY <3>3, <3>6
  <2>7. RoadOK(r)'
    BY <1>1, <1>4, <2>5, <2>6 DEF RoadOK, IntoCascade, ToProvider
  <2>8. QED
    BY <2>4, <2>7
<1>6. QED
  BY <1>1, <1>2, <1>3, <1>4, <1>5, OthersAtDoor

\* A request enters the cascade at the messages door.
LEMMA MessageArriveInv ==
    ASSUME DoorIInv, IInv', NEW r \in Requests \ ChatRequests, MessageArrive(r)
    PROVE  DoorIInv'
<1>1. PICK ms \in MessageBodies : Arrive(r) /\ Opens(r, ms)
  BY DEF MessageArrive
<1>2. settings' = settings /\ chat' = chat /\ modes' = modes
  BY DEF MessageArrive
<1>3. FirstUser(ms) \in Seq(Seq(STRING))
  BY DoorAssumption, FirstUserTyped
<1>4. opening' \in [Requests -> Seq(Seq(STRING))]
  BY <1>1, <1>3 DEF Opens, DoorIInv, DoorTypeOK
<1>5. DoorTypeOK'
  BY <1>2, <1>4 DEF DoorIInv, DoorTypeOK, IInv
<1>6. ModesAgree'
  BY <1>2, SameModes DEF DoorIInv
<1>7. cfg' = cfg /\ \A q \in Requests \ {r} : req'[q] = req[q]
  BY <1>1, QuietMoves DEF Begin, DoorIInv, QuietMove
<1>8. QED
  BY <1>2, <1>5, <1>6, <1>7, OthersAtDoor

\* A handler that moves on by itself, the cascade left alone.
LEMMA HandlerInv ==
    ASSUME DoorIInv, UNCHANGED <<vars, settings, modes, opening>>,
           NEW r \in ChatRequests, NEW place, Handler(r, place), place \notin {"idle", "read"},
           place = "passthrough" => AtDoor(r, "read") /\ ~chat[r].choice.pipeline
    PROVE  DoorIInv'
<1>1. [Next]_vars /\ UNCHANGED <<cfg, req>>
  BY DEF vars
<1>2. IInv'
  BY <1>1, NextIInv DEF DoorIInv
<1>3. DoorTypeOK'
  BY <1>2 DEF DoorIInv, DoorTypeOK, IInv, Handler, ChatTask
<1>4. ModesAgree'
  <2>1. \A q \in ChatRequests : chat'[q].choice = chat[q].choice
    BY DEF Handler
  <2>2. QED
    BY <2>1, SameModes DEF DoorIInv
<1>5. DoorPlaceOK(r) /\ RoadOK(r)
  BY DEF DoorIInv
<1>6. chat'[r].at = place /\ chat'[r].choice = chat[r].choice
  BY DEF Handler
<1>7. DoorPlaceOK(r)'
  BY <1>1, <1>5, <1>6 DEF DoorPlaceOK, At, AtDoor
<1>8. RoadOK(r)'
  BY <1>1, <1>5, <1>6 DEF RoadOK, IntoCascade, ToProvider
<1>9. QED
  BY <1>1, <1>2, <1>3, <1>4, <1>7, <1>8, OthersAtDoor DEF Handler

\* The settings are read: the request has a choice, and is counted with it.
LEMMA ChatArriveInv ==
    ASSUME DoorIInv, NEW r \in ChatRequests, ChatArrive(r)
    PROVE  DoorIInv'
<1>1. PICK b \in ChatBodies :
          chat' = [chat EXCEPT ![r] =
                    [at |-> "read", choice |-> settings, body |-> b, reply |-> "none"]]
  BY DEF ChatArrive
<1>2. AtDoor(r, "idle") /\ settings # NoChat /\ UNCHANGED <<vars, settings, opening>>
  BY DEF ChatArrive
<1>3. [Next]_vars /\ UNCHANGED <<cfg, req>>
  BY <1>2 DEF vars
<1>4. IInv'
  BY <1>3, NextIInv DEF DoorIInv
<1>5. /\ settings \in ChatChoices /\ chat \in [ChatRequests -> ChatTask]
      /\ modes \in [pipeline : Nat, passthrough : Nat]
  BY <1>2 DEF DoorIInv, DoorTypeOK, ChatTask
<1>6. [at |-> "read", choice |-> settings, body |-> b, reply |-> "none"] \in ChatTask
  BY <1>5 DEF ChatTask, DoorPlaces, Replies
<1>7. /\ chat' \in [ChatRequests -> ChatTask]
      /\ chat'[r].at = "read" /\ chat'[r].choice = settings
      /\ \A q \in ChatRequests \ {r} : chat'[q] = chat[q]
  BY <1>1, <1>5, <1>6
<1>8. /\ modes' \in [pipeline : Nat, passthrough : Nat]
      /\ settings.pipeline => /\ modes'.pipeline = modes.pipeline + 1
                              /\ modes'.passthrough = modes.passthrough
      /\ ~settings.pipeline => /\ modes'.pipeline = modes.pipeline
                               /\ modes'.passthrough = modes.passthrough + 1
  <2>1. CASE settings.pipeline
    <3>1. modes' = [modes EXCEPT !.pipeline = @ + 1]
      BY <2>1 DEF ChatArrive
    <3>2. QED
      BY <1>5, <2>1, <3>1
  <2>2. CASE ~settings.pipeline
    <3>1. modes' = [modes EXCEPT !.passthrough = @ + 1]
      BY <2>2 DEF ChatArrive
    <3>2. QED
      BY <1>5, <2>2, <3>1
  <2>3. QED
    BY <2>1, <2>2
<1>9. DoorTypeOK'
  BY <1>2, <1>4, <1>5, <1>7, <1>8 DEF DoorIInv, DoorTypeOK, IInv, ChatTask
<1>10. At(r, "idle") /\ chat[r].choice = NoChat /\ req[r].sent = <<>> /\ req[r].trigger = "none"
  <2>1. DoorPlaceOK(r) /\ r \in Requests
    BY DoorAssumption DEF DoorIInv
  <2>2. At(r, "idle") /\ chat[r].choice = NoChat
    BY <1>2, <2>1 DEF DoorPlaceOK, AtDoor
  <2>3. QED
    BY <2>1, <2>2 DEF DoorIInv, IInv, TaskInv, PlaceOK, At, Fresh
<1>11. DoorPlaceOK(r)'
  BY <1>2, <1>3, <1>7, <1>10 DEF DoorPlaceOK, At, AtDoor
<1>12. RoadOK(r)'
  BY <1>3, <1>7, <1>10 DEF RoadOK, At
<1>13. ModesAgree'
  <2>1. settings.pipeline \in BOOLEAN
    BY <1>5, DoorAssumption
  <2>2. ASSUME NEW on \in BOOLEAN
        PROVE  /\ settings.pipeline = on =>
                     Cardinality(Chosen(on)') = Cardinality(Chosen(on)) + 1
               /\ settings.pipeline # on => Chosen(on)' = Chosen(on)
    <3>1. r \notin Chosen(on)
      BY <1>10 DEF Chosen
    <3>2. settings.pipeline = on => Chosen(on)' = Chosen(on) \cup {r}
      BY <1>2, <1>7, <1>10 DEF Chosen
    <3>3. settings.pipeline # on => Chosen(on)' = Chosen(on)
      BY <1>2, <1>7, <1>10 DEF Chosen
    <3>4. IsFiniteSet(Chosen(on))
      <4>1. Chosen(on) \in SUBSET Requests
        BY DoorAssumption DEF Chosen
      <4>2. QED
        BY <4>1, SomeRequests
    <3>5. QED
      BY <3>1, <3>2, <3>3, <3>4, OneMore
  <2>3. CASE settings.pipeline = TRUE
    <3>1. /\ Cardinality(Chosen(TRUE)') = Cardinality(Chosen(TRUE)) + 1
          /\ Chosen(FALSE)' = Chosen(FALSE)
      BY <2>2, <2>3
    <3>2. QED
      BY <1>8, <2>3, <3>1 DEF DoorIInv, ModesAgree
  <2>4. CASE settings.pipeline = FALSE
    <3>1. /\ Cardinality(Chosen(FALSE)') = Cardinality(Chosen(FALSE)) + 1
          /\ Chosen(TRUE)' = Chosen(TRUE)
      BY <2>2, <2>4
    <3>2. QED
      BY <1>8, <2>4, <3>1 DEF DoorIInv, ModesAgree
  <2>5. QED
    BY <2>1, <2>3, <2>4
<1>14. QED
  BY <1>3, <1>4, <1>7, <1>9, <1>11, <1>12, <1>13, OthersAtDoor

\* The choice is acted on: into the cascade,
LEMMA CascadeRoadInv ==
    ASSUME DoorIInv, NEW r \in ChatRequests, ChatCascade(r)
    PROVE  DoorIInv'
<1>1. /\ IInv' /\ QuietMove(r)
      /\ req'[r].sent = <<>> /\ req'[r].at = "check_sticky"
  BY ChatCascadeInv DEF Moves
<1>2. /\ cfg' = cfg /\ \A q \in Requests \ {r} : req'[q] = req[q]
  BY <1>1 DEF QuietMove
<1>3. /\ AtDoor(r, "read") /\ chat[r].choice.pipeline /\ cfg.orchestrator
      /\ chat[r].choice.target = "cascade"
      /\ settings' = settings /\ modes' = modes
      /\ Opens(r, chat[r].body.messages) /\ DoorGoto(r, "inside")
  BY DEF ChatCascade, InPipeline, Target
<1>4. Handler(r, "inside")
  BY <1>3, HandlerMoves DEF DoorIInv, DoorPlaces
<1>5. opening' \in [Requests -> Seq(Seq(STRING))]
  <2>1. chat[r].body \in ChatBodies \cup {Blank}
    BY DEF DoorIInv, DoorTypeOK
  <2>2. chat[r].body.messages \in Seq([role : Roles, parts : Seq(Seq(STRING))])
    <3>1. CASE chat[r].body \in ChatBodies
      <4>1. chat[r].body.messages \in MessageBodies \cup {b.messages : b \in ChatBodies}
        BY <3>1
      <4>2. QED
        BY <4>1, DoorAssumption, Zenon
    <3>2. CASE chat[r].body = Blank
      BY <3>2 DEF Blank
    <3>3. QED
      BY <2>1, <3>1, <3>2
  <2>3. FirstUser(chat[r].body.messages) \in Seq(Seq(STRING))
    BY <2>2, FirstUserTyped
  <2>4. QED
    BY <1>3, <2>3 DEF Opens, DoorIInv, DoorTypeOK
<1>6. DoorTypeOK'
  BY <1>1, <1>3, <1>4, <1>5 DEF DoorIInv, DoorTypeOK, IInv, Handler, ChatTask
<1>7. ModesAgree'
  <2>1. \A q \in ChatRequests : chat'[q].choice = chat[q].choice
    BY <1>4 DEF Handler
  <2>2. QED
    BY <1>3, <2>1, SameModes DEF DoorIInv
<1>8. chat[r].choice # NoChat
  BY <1>3 DEF DoorIInv, DoorPlaceOK
<1>9. chat'[r].at = "inside" /\ chat'[r].choice = chat[r].choice
  BY <1>4 DEF Handler
<1>10. DoorPlaceOK(r)'
  BY <1>3, <1>8, <1>9 DEF DoorPlaceOK, AtDoor
<1>11. RoadOK(r)'
  BY <1>1, <1>2, <1>3, <1>9, Tuples DEF RoadOK, IntoCascade, ToProvider
<1>12. QED
  BY <1>1, <1>2, <1>4, <1>6, <1>7, <1>10, <1>11, OthersAtDoor DEF Handler

\* or to a provider.
LEMMA ProviderRoadInv ==
    ASSUME DoorIInv, NEW r \in ChatRequests, ChatForward(r)
    PROVE  DoorIInv'
<1>1. /\ IInv' /\ QuietMove(r) /\ req'[r].trigger = "none"
      /\ req'[r].sent \in {<<>>, <<Copy("named")>>}
      /\ req'[r].at \in {"awaiting_forward", "done"}
  BY ChatForwardInv DEF Moves
<1>2. /\ cfg' = cfg /\ \A q \in Requests \ {r} : req'[q] = req[q]
  BY <1>1 DEF QuietMove
<1>3. /\ AtDoor(r, "read") /\ chat[r].choice.pipeline
      /\ chat[r].choice.target = "cascade" => ~cfg.orchestrator
      /\ settings' = settings /\ modes' = modes /\ opening' = opening
      /\ DoorGoto(r, "inside")
  BY DEF ChatForward, InPipeline, Target
<1>4. Handler(r, "inside")
  BY <1>3, HandlerMoves DEF DoorIInv, DoorPlaces
<1>5. DoorTypeOK'
  BY <1>1, <1>3, <1>4 DEF DoorIInv, DoorTypeOK, IInv, Handler, ChatTask
<1>6. ModesAgree'
  <2>1. \A q \in ChatRequests : chat'[q].choice = chat[q].choice
    BY <1>4 DEF Handler
  <2>2. QED
    BY <1>3, <2>1, SameModes DEF DoorIInv
<1>7. chat[r].choice # NoChat
  BY <1>3 DEF DoorIInv, DoorPlaceOK
<1>8. chat'[r].at = "inside" /\ chat'[r].choice = chat[r].choice
  BY <1>4 DEF Handler
<1>9. DoorPlaceOK(r)'
  BY <1>3, <1>7, <1>8 DEF DoorPlaceOK, AtDoor
<1>10. RoadOK(r)'
  BY <1>1, <1>2, <1>3, <1>8 DEF RoadOK, IntoCascade, ToProvider, Forwarding
<1>11. QED
  BY <1>1, <1>2, <1>4, <1>5, <1>6, <1>9, <1>10, OthersAtDoor DEF Handler

\* The client of a chat request hangs up.
LEMMA ChatCancelInv ==
    ASSUME DoorIInv, NEW r \in ChatRequests, ChatCancel(r)
    PROVE  DoorIInv'
<1>1. Handler(r, "done") /\ settings' = settings /\ modes' = modes /\ opening' = opening
  BY HandlerMoves DEF ChatCancel, DoorIInv, Replies
<1>2. CASE UNCHANGED vars
  BY <1>1, <1>2, HandlerInv
<1>3. CASE AtDoor(r, "inside") /\ Cancel(r)
  <2>1. r \in Requests /\ IInv /\ DoorPlaceOK(r) /\ RoadOK(r)
    BY DoorAssumption DEF DoorIInv
  <2>2. IInv'
    BY <1>3, <2>1, NextIInv DEF Next
  <2>3. /\ cfg' = cfg /\ ~At(r, "idle") /\ ~At(r, "done")
        /\ \A q \in Requests \ {r} : req'[q] = req[q]
    BY <1>3, <2>1, Alone
  <2>4. DoorTypeOK'
    BY <1>1, <2>2 DEF DoorIInv, DoorTypeOK, IInv, Handler, ChatTask
  <2>5. ModesAgree'
    <3>1. \A q \in ChatRequests : chat'[q].choice = chat[q].choice
      BY <1>1 DEF Handler
    <3>2. QED
      BY <1>1, <3>1, SameModes DEF DoorIInv
  <2>6. chat'[r].at = "done" /\ chat'[r].choice = chat[r].choice
    BY <1>1 DEF Handler
  <2>7. chat[r].choice # NoChat /\ chat[r].choice.pipeline
    BY <2>1, <2>3 DEF DoorPlaceOK
  <2>8. DoorPlaceOK(r)'
    BY <2>6, <2>7 DEF DoorPlaceOK, AtDoor
  <2>9. IntoCascade(chat[r].choice) => req'[r].sent # <<Copy("named")>>
    BY <1>3, <2>1, <2>2, <2>7, NeverNamed DEF RoadOK
  <2>10. ASSUME ToProvider(chat[r].choice)
         PROVE  /\ req'[r].at = "done" /\ req'[r].trigger = "none"
                /\ req'[r].sent \in {<<>>, <<Copy("named")>>}
    <3>1. req[r].trigger = "none" /\ req[r].sent \in {<<>>, <<Copy("named")>>}
      BY <2>1, <2>7, <2>10 DEF RoadOK
    <3>2. \A x \in Results : Respond(r, x) =>
              Becomes(r, With(r, "done", req[r].trigger, req[r].sent, x))
      BY <2>1, RespondFacts DEF IInv
    <3>3. PICK x \in {"cancelled_unanswered", "cancelled_reading"} : Respond(r, x)
      BY <1>3 DEF Cancel
    <3>4. Becomes(r, With(r, "done", req[r].trigger, req[r].sent, x))
      BY <3>2, <3>3 DEF Results
    <3>5. QED
      BY <3>1, <3>4 DEF Becomes, With
  <2>11. RoadOK(r)'
    BY <2>3, <2>6, <2>9, <2>10 DEF RoadOK, IntoCascade, ToProvider
  <2>12. QED
    BY <1>1, <2>2, <2>3, <2>4, <2>5, <2>8, <2>11, OthersAtDoor DEF Handler
<1>4. QED
  BY <1>2, <1>3 DEF ChatCancel

\* A PUT changes the settings for those that come later, and for nobody else.
LEMMA PutSettingsInv ==
    ASSUME DoorIInv, NEW s \in ChatChoices, PutSettings(s)
    PROVE  DoorIInv'
<1>1. /\ settings' = s /\ UNCHANGED <<vars, chat, modes, opening>>
  BY DEF PutSettings, Register!Put
<1>2. [Next]_vars /\ cfg' = cfg /\ req' = req
  BY <1>1 DEF vars
<1>3. IInv'
  BY <1>2, NextIInv DEF DoorIInv
<1>4. DoorTypeOK'
  BY <1>1, <1>3 DEF DoorIInv, DoorTypeOK, IInv
<1>5. ModesAgree'
  BY <1>1, SameModes DEF DoorIInv
<1>6. ASSUME NEW r \in ChatRequests
      PROVE  DoorPlaceOK(r)' /\ RoadOK(r)'
  BY <1>1, <1>2 DEF DoorIInv, DoorPlaceOK, RoadOK, At, AtDoor, IntoCascade, ToProvider
<1>7. QED
  BY <1>3, <1>4, <1>5, <1>6 DEF DoorIInv

-----------------------------------------------------------------------------
\* The theorems.

\* No request has arrived at either door.
LEMMA DoorInitIInv == DoorInit => DoorIInv
<1> SUFFICES ASSUME DoorInit PROVE DoorIInv
  OBVIOUS
<1>1. IInv
  BY InitIInv DEF DoorInit
<1>2. DoorTypeOK
  <2>1. /\ [at |-> "idle", choice |-> NoChat, body |-> Blank, reply |-> "none"] \in
              [at : DoorPlaces, choice : ChatChoices \cup {NoChat},
               body : ChatBodies \cup {Blank}, reply : Replies]
        /\ <<>> \in Seq(Seq(STRING))
    BY DEF DoorPlaces, Replies
  <2>2. QED
    BY <1>1, <2>1 DEF DoorInit, DoorTypeOK, IInv
<1>3. ASSUME NEW r \in ChatRequests
      PROVE  DoorPlaceOK(r) /\ RoadOK(r)
  <2>1. chat[r].at = "idle" /\ chat[r].choice = NoChat /\ req[r].at = "idle"
    BY DoorAssumption DEF DoorInit, Init
  <2>2. QED
    BY <2>1 DEF DoorPlaceOK, RoadOK, At, AtDoor
<1>4. ModesAgree
  <2>1. Chosen(TRUE) = {} /\ Chosen(FALSE) = {}
    BY DEF Chosen, DoorInit
  <2>2. Cardinality(Chosen(TRUE)) = 0 /\ Cardinality(Chosen(FALSE)) = 0
    BY <2>1, FS_EmptySet
  <2>3. QED
    BY <2>2 DEF ModesAgree, DoorInit
<1>5. QED
  BY <1>1, <1>2, <1>3, <1>4 DEF DoorIInv

\* Whichever door is used next, and whoever puts settings meanwhile.
LEMMA DoorNextIInv == DoorIInv /\ [DoorNext]_<<vars, doorVars>> => DoorIInv'
<1> SUFFICES ASSUME DoorIInv, [DoorNext]_<<vars, doorVars>>
             PROVE  DoorIInv'
  OBVIOUS
<1>0. IInv /\ DoorTypeOK /\ ChatRequests \subseteq Requests
  BY DoorAssumption DEF DoorIInv
<1>1. /\ "done" \in DoorPlaces /\ "passthrough" \in DoorPlaces /\ "reading_answer" \in DoorPlaces
      /\ {"404", "400", "panic", "502", "verbatim", "stream", "json",
          "upstream_error"} \subseteq Replies
  BY DEF DoorPlaces, Replies
<1>2. CASE UNCHANGED <<vars, doorVars>> \/ (ReadBudget /\ UNCHANGED doorVars)
  <2>1. [Next]_vars /\ cfg' = cfg /\ req' = req /\ chat' = chat /\ modes' = modes
        /\ settings' = settings /\ opening' = opening
    BY <1>2 DEF Next, vars, doorVars, ReadBudget
  <2>2. IInv'
    BY <2>1, <1>0, NextIInv
  <2>3. DoorTypeOK' /\ ModesAgree'
    BY <2>1, <2>2, SameModes DEF DoorIInv, DoorTypeOK, IInv
  <2>4. ASSUME NEW r \in ChatRequests
        PROVE  DoorPlaceOK(r)' /\ RoadOK(r)'
    BY <2>1 DEF DoorIInv, DoorPlaceOK, RoadOK, At, AtDoor, IntoCascade, ToProvider
  <2>5. QED
    BY <2>2, <2>3, <2>4 DEF DoorIInv
<1>3. ASSUME NEW r \in Requests, CascadeProgress(r)
      PROVE  DoorIInv'
  BY <1>0, <1>3, NextIInv, InsideInv DEF CascadeProgress, Next
<1>4. ASSUME NEW r \in ChatRequests, UNCHANGED <<vars, settings, modes, opening>>
      PROVE  /\ \A reply \in Replies : DoorReply(r, reply) => DoorIInv'
             /\ DoorGoto(r, "reading_answer") => DoorIInv'
             /\ DoorGoto(r, "passthrough") /\ AtDoor(r, "read") /\ ~chat[r].choice.pipeline
                  => DoorIInv'
  <2>1. \A reply \in Replies : DoorReply(r, reply) => Handler(r, "done")
    BY <1>0, HandlerMoves, Zenon
  <2>2. \A place \in DoorPlaces : DoorGoto(r, place) => Handler(r, place)
    BY <1>0, HandlerMoves, Zenon
  <2>3. Handler(r, "done") => DoorIInv'
    BY <1>4, HandlerInv
  <2>4. Handler(r, "reading_answer") => DoorIInv'
    BY <1>4, HandlerInv
  <2>5. Handler(r, "passthrough") /\ AtDoor(r, "read") /\ ~chat[r].choice.pipeline => DoorIInv'
    BY <1>4, HandlerInv
  <2>6. QED
    BY <1>1, <2>1, <2>2, <2>3, <2>4, <2>5
<1>5. ASSUME NEW r \in ChatRequests, ChatProgress(r)
      PROVE  DoorIInv'
  <2>0. /\ UNCHANGED <<vars, settings, modes, opening>> =>
              \A reply \in {"400", "panic", "502", "verbatim", "stream", "json", "upstream_error"} :
                  DoorReply(r, reply) => DoorIInv'
        /\ UNCHANGED <<vars, settings, modes, opening>> =>
              /\ DoorGoto(r, "reading_answer") => DoorIInv'
              /\ DoorGoto(r, "passthrough") /\ AtDoor(r, "read") /\ ~chat[r].choice.pipeline
                    => DoorIInv'
    BY <1>1, <1>4, Zenon
  <2>1. CASE Passthrough(r)
    BY <2>0, <2>1 DEF Passthrough
  <2>2. CASE PassthroughAnswer(r) \/ PipelineRefused(r) \/ ReadAnswer(r)
    BY <2>0, <2>2 DEF PassthroughAnswer, PipelineRefused, ReadAnswer
  <2>3. CASE ChatReply(r)
    BY <2>0, <2>3 DEF ChatReply
  <2>4. QED
    BY <1>5, <2>1, <2>2, <2>3, CascadeRoadInv, ProviderRoadInv DEF ChatProgress
<1>6. ASSUME NEW r \in Requests \ ChatRequests, MessageDoor(r)
      PROVE  DoorIInv'
  <2>1. CASE MessageArrive(r)
    <3>1. IInv'
      BY <1>0, <2>1, NextIInv DEF MessageArrive, Next, Begin
    <3>2. QED
      BY <2>1, <3>1, MessageArriveInv
  <2>2. CASE (ArriveExplicit(r) \/ ArriveUnusable(r) \/ Cancel(r)) /\ UNCHANGED doorVars
    <3>1. IInv'
      BY <1>0, <2>2, NextIInv DEF Next, Begin
    <3>2. QED
      BY <2>2, <3>1, InsideInv DEF Begin
  <2>3. QED
    BY <1>6, <2>1, <2>2 DEF MessageDoor
<1>7. ASSUME NEW r \in ChatRequests, ChatDoor(r)
      PROVE  DoorIInv'
  <2>1. CASE ChatRefused(r)
    BY <1>1, <1>4, <2>1 DEF ChatRefused
  <2>2. QED
    BY <1>7, <2>1, ChatArriveInv, ChatCancelInv DEF ChatDoor
<1>8. ASSUME NEW s \in ChatChoices, PutSettings(s)
      PROVE  DoorIInv'
  BY <1>8, PutSettingsInv
<1>9. QED
  BY <1>2, <1>3, <1>5, <1>6, <1>7, <1>8 DEF DoorNext, Serve

\* The tasks of the cascade, the handlers of the chat door and the settings
\* stay in step, whichever door is used and whatever is put.
THEOREM DoorInvariant == DoorSpec => []DoorIInv
BY DoorInitIInv, DoorNextIInv, PTL DEF DoorSpec

\* Every variable of both doors keeps the shape of the code's data.
THEOREM DoorTyped == DoorSpec => []DoorTypeOK
<1>1. DoorIInv => DoorTypeOK
  BY DEF DoorIInv
<1>2. QED
  BY <1>1, DoorInvariant, PTL

\* The road a request is on is one its choice allows.
LEMMA InvServed == DoorIInv => ServedUnderOneChoice
<1> SUFFICES ASSUME DoorIInv PROVE ServedUnderOneChoice
  OBVIOUS
<1>1. ASSUME NEW r \in ChatRequests
      PROVE  AllowedUnder(chat[r].choice, r)
  <2> DEFINE c == chat[r].choice
  <2>1. DoorPlaceOK(r) /\ RoadOK(r) /\ r \in Requests /\ IInv
    BY DoorAssumption DEF DoorIInv
  <2>2. Disciplined(r)
    BY <2>1, InvDiscipline DEF DispatchDiscipline
  <2>3. PlaceOK(r)
    BY <2>1 DEF IInv, TaskInv
  <2>4. At(r, "idle") => /\ req[r].sent = <<>> /\ answer[r] = "none"
                         /\ req[r].sent # <<Copy("named")>>
    BY <2>3, Tuples DEF PlaceOK, At, Fresh
  <2>5. CASE c = NoChat \/ ~c.pipeline
    <3>1. At(r, "idle")
      BY <2>1, <2>5 DEF DoorPlaceOK
    <3>2. QED
      BY <2>2, <2>4, <3>1 DEF AllowedUnder
  <2>6. CASE c # NoChat /\ IntoCascade(c)
    <3>1. req[r].sent # <<Copy("named")>>
      BY <2>1, <2>6 DEF RoadOK
    <3>2. c \in ChatChoices /\ c.pipeline /\ c.target = "cascade" /\ cfg.orchestrator
      BY <2>6 DEF DoorIInv, DoorTypeOK, IntoCascade
    <3>3. QED
      BY <2>2, <2>6, <3>1, <3>2 DEF AllowedUnder
  <2>7. CASE c # NoChat /\ ToProvider(c)
    <3>1. req[r].trigger = "none" /\ req[r].sent \in {<<>>, <<Copy("named")>>}
      BY <2>1, <2>7 DEF RoadOK
    <3>2. answer[r] = "none"
      BY <2>3, <3>1 DEF PlaceOK
    <3>3. QED
      BY <2>7, <3>1, <3>2 DEF AllowedUnder, ToProvider
  <2>8. QED
    BY <2>5, <2>6, <2>7 DEF IntoCascade, ToProvider
<1>2. QED
  BY <1>1 DEF ServedUnderOneChoice, DoorIInv

\* A chat request is served from first to last under the choice that was read
\* when it arrived: passed through it touches no tier, pinned it goes to its
\* provider and is charged to no budget, and it is counted in its mode.
THEOREM OneChoice == DoorSpec => []ServedUnderOneChoice
BY InvServed, DoorInvariant, PTL
-----------------------------------------------------------------------------
\* What holds of the cascade by itself holds of it under the two doors.

\* No ledger takes note of a chat request before it escalates.
LEMMA DoorNextLedgers ==
    ASSUME DoorIInv, LedgersAgree, [DoorNext]_<<vars, doorVars>>
    PROVE  LedgersAgree'
<1>1. CASE [Next]_vars
  BY <1>1, NextLedgers DEF DoorIInv
<1>2. ASSUME NEW r \in ChatRequests, ChatCascade(r) \/ ChatForward(r)
      PROVE  LedgersAgree'
  <2>1. r \in Requests /\ QuietMove(r)
    BY <1>2, DoorAssumption, ChatCascadeInv, ChatForwardInv
  <2>2. QED
    BY <2>1, QuietLedgers
<1>3. QED
  BY <1>1, <1>2, DoorStep

\* /status, /metrics and the budget agree with what the requests of both doors
\* were told.
THEOREM DoorLedgersHold == DoorSpec => []LedgersAgree
<1>1. DoorInit => LedgersAgree
  BY InitLedgers DEF DoorInit
<1>2. QED
  BY <1>1, DoorNextLedgers, DoorInvariant, PTL DEF DoorSpec

\* A chat request enters unheard of, or is sent to its provider.
LEMMA DoorNextAnswered ==
    ASSUME DoorIInv, AnswersObservedOnce, [DoorNext]_<<vars, doorVars>>
    PROVE  AnswersObservedOnce'
<1>1. CASE [Next]_vars
  BY <1>1, NextAnswered DEF DoorIInv
<1>2. ASSUME NEW r \in ChatRequests, ChatCascade(r) \/ ChatForward(r)
      PROVE  AnswersObservedOnce'
  <2>1. r \in Requests /\ IInv /\ At(r, "idle") /\ UNCHANGED metrics
    BY <1>2, DoorAssumption
    DEF DoorIInv, DoorPlaceOK, ChatCascade, ChatForward, InPipeline, AtDoor
  <2>2. req[r].result = "none" /\ req[r].sent = <<>>
    BY <2>1 DEF IInv, TaskInv, PlaceOK, At, Fresh
  <2>3. \/ Moves(r, "check_sticky", "none", <<>>)
        \/ Moves(r, "awaiting_forward", "none", <<Copy("named")>>)
        \/ Moves(r, "done", LookupError("named"), <<>>)
    BY <1>2, ChatCascadeInv, ChatForwardInv
  <2>4. ~Unheard(r)
    BY <2>1, <2>2 DEF Unheard, At
  <2>5. CASE Moves(r, "awaiting_forward", "none", <<Copy("named")>>)
    <3>1. Unheard(r)'
      BY <2>5 DEF Moves, Unheard
    <3>2. Copy("named") \in Messages /\ <<Copy("named")>> = Append(<<>>, Copy("named"))
      BY Tuples DEF Copy, Messages, Providers, Notes
    <3>3. \E m \in Messages : req'[r].sent = Append(req[r].sent, m)
      BY <2>2, <2>5, <3>2 DEF Moves
    <3>4. Sends(r)
      BY <2>1, <2>4, <2>5, <3>1, <3>3 DEF Sends, Moves
    <3>5. QED
      BY <2>1, <3>4, SameAnswered DEF AnswersObservedOnce
  <2>6. CASE Moves(r, "check_sticky", "none", <<>>) \/ Moves(r, "done", LookupError("named"), <<>>)
    <3>1. ~Unheard(r)'
      BY <2>6 DEF Moves, Unheard, LookupError
    <3>2. Stays(r)
      BY <2>1, <2>2, <2>4, <2>6, <3>1 DEF Stays, Moves
    <3>3. QED
      BY <2>1, <3>2, SameAnswered DEF AnswersObservedOnce
  <2>7. QED
    BY <2>3, <2>5, <2>6
<1>3. QED
  BY <1>1, <1>2, DoorStep

\* bb_requests_total counts the exchanges of both doors, each once.
THEOREM DoorObservedOnce == DoorSpec => []AnswersObservedOnce
<1>1. DoorInit => AnswersObservedOnce
  BY InitAnswered DEF DoorInit
<1>2. QED
  BY <1>1, DoorNextAnswered, DoorInvariant, PTL DEF DoorSpec

\* A chat request hears nothing on its way in.
LEMMA DoorNextHeard ==
    ASSUME DoorIInv, HeardInv, [DoorNext]_<<vars, doorVars>>
    PROVE  HeardInv'
<1>1. CASE [Next]_vars
  BY <1>1, NextHeard DEF DoorIInv
<1>2. ASSUME NEW r \in ChatRequests, ChatCascade(r) \/ ChatForward(r)
      PROVE  HeardInv'
  <2>1. r \in Requests /\ IInv /\ At(r, "idle") /\ cfg' = cfg /\ heard' = heard
    BY <1>2, DoorAssumption
    DEF DoorIInv, DoorPlaceOK, ChatCascade, ChatForward, InPipeline, AtDoor
  <2>2. req[r].result = "none" /\ req[r].sent = <<>>
    BY <2>1 DEF IInv, TaskInv, PlaceOK, At, Fresh
  <2>3. CASE ChatCascade(r)
    <3> DEFINE b == chat[r].body
    <3>1. b \in ChatBodies \cup {Blank} /\ b.form = "object" /\ Translatable(b.messages)
      BY <2>3 DEF DoorIInv, DoorTypeOK, ChatCascade, InPipeline
    <3>2. b \in ChatBodies
      BY <3>1 DEF Translatable, Blank
    <3>3. ConversationKey(Translated(b.messages)) \in ConversationKeys
      BY <3>1, <3>2, KeyAssumption
    <3>4. Enter(r, ConversationKey(Translated(b.messages)))
      BY <2>3 DEF ChatCascade
    <3> HIDE DEF b
    <3>5. QED
      BY <2>1, <3>3, <3>4, EnterHeard
  <2>4. CASE ChatForward(r)
    <3>1. "named" \in Providers /\ "none" \in Notes /\ Forward(r, "named", "none")
      BY <2>4 DEF ChatForward, Providers, Notes
    <3>2. QED
      BY <2>1, <2>2, <3>1, ForwardHeard
  <2>5. QED
    BY <1>2, <2>3, <2>4
<1>3. QED
  BY <1>1, <1>2, DoorStep

\* No request is granted a cloud call without a cause, whichever door it came
\* through and whatever is put meanwhile.
THEOREM DoorCauses == DoorSpec => []EscalationHasCause
<1>1. DoorInit => HeardInv
  BY InitHeard DEF DoorInit
<1>2. DoorSpec => []HeardInv
  BY <1>1, DoorNextHeard, DoorInvariant, PTL DEF DoorSpec
<1>3. DoorIInv /\ HeardInv => EscalationHasCause
  BY InvCauses DEF DoorIInv
<1>4. QED
  BY <1>2, <1>3, DoorInvariant, PTL

-----------------------------------------------------------------------------
\* The dispatches counted by tier.

\* A step of r that sends nothing and counts no tier,
Undispatched(r) ==
    /\ \A q \in Requests \ {r} : req'[q] = req[q]
    /\ req'[r].sent = req[r].sent
    /\ metrics'.tiers = metrics.tiers

\* and one that sends to p, or finds it is not configured, and counts its tier.
Dispatched(r, p) ==
    /\ \A q \in Requests \ {r} : req'[q] = req[q]
    /\ metrics'.tiers = [metrics.tiers EXCEPT ![TierOf[p]] = @ + 1]
    /\ Len(req[r].sent) \in 0..1
    /\ IF cfg.state[p] = "ok"
         THEN \E m \in Messages : m.to = p /\ req'[r].sent = Append(req[r].sent, m)
         ELSE req'[r].sent = req[r].sent

\* A step sends if and only if it counts the tier of the provider it sends to;
\* only what a client names goes to a named one.
LEMMA Dispatches ==
    ASSUME IInv, NEW r \in Requests, Begin(r) \/ Progress(r) \/ Cancel(r)
    PROVE  \/ Undispatched(r)
           \/ Dispatched(r, "local") \/ Dispatched(r, "cloud")
           \/ Dispatched(r, "named") /\ ArriveExplicit(r)
<1> DEFINE Silent == metrics'.tiers = metrics.tiers
           Keeps == \E place, result : Moves(r, place, result, req[r].sent)
           Sent(p) == \E place, result : \E m \in Messages :
                        m.to = p /\ Moves(r, place, result, Append(req[r].sent, m))
<1>1. TypeOK /\ metrics \in Counters /\ PlaceOK(r)
  BY DEF IInv, TypeOK, TaskInv
<1>2. /\ {"local", "cloud", "named"} = Providers /\ Notes = {"instruction", "unavailable", "none"}
      /\ {"attempt", "reserved", "record", "count_grant", "count_denial", "reading_error",
          "reading_attempt", "awaiting_attempt", "awaiting_forward",
          "reading_forward_error"} \subseteq Places
      /\ {"static", "local", "cloud"} = Tiers /\ Outcomes = {"ok", "upstream_error", "transport_error"}
      /\ {"UnknownProvider", "MissingApiKey", "InvalidJson", "panic", "transport_error",
          "upstream_error", "answer", "cancelled_unanswered", "cancelled_reading"} \subseteq Results
      /\ {"sticky", "sentinel", "fail_mode"} = Triggers
      /\ TierOf["named"] = "static" /\ TierOf["local"] = "local" /\ TierOf["cloud"] = "cloud"
  BY DEF Providers, Notes, Places, Awaits, Tiers, Outcomes, Results, Triggers, TierOf
<1>3. \A x \in Results : Respond(r, x) => Keeps
  BY BlockMoves, Zenon
<1>4. \A place \in Places : Goto(r, place) => Keeps
  BY BlockMoves, Zenon
<1>5. \A t \in Triggers : Escalate(r, t) => Keeps
  BY BlockMoves, Zenon
<1>6. \A k \in ConversationKeys : Enter(r, k) => Keeps
  BY BlockMoves, Zenon
<1>7. ASSUME NEW p \in Providers, NEW note \in Notes, NEW place \in Places, Send(r, p, note, place)
      PROVE  Sent(p)
  <2>1. [to |-> p, note |-> note] \in Messages
    BY DEF Messages
  <2>2. Moves(r, place, req[r].result, Append(req[r].sent, [to |-> p, note |-> note]))
    BY <1>7, BlockMoves
  <2>3. QED
    BY <2>1, <2>2
<1>8. Silent /\ Keeps => Undispatched(r)
  BY DEF Undispatched, Moves
<1>9. ASSUME NEW p \in Providers, Len(req[r].sent) \in 0..1,
             metrics'.tiers = [metrics.tiers EXCEPT ![TierOf[p]] = @ + 1],
             IF cfg.state[p] = "ok" THEN Sent(p) ELSE Keeps
      PROVE  Dispatched(r, p)
  BY <1>9 DEF Dispatched, Moves
<1> HIDE DEF Silent, Keeps, Sent
<1>10. \A x \in Results : LocalFailed(r, x) => Keeps
  BY <1>3, <1>5, LocalFailedBlocks
<1>11. ASSUME NEW p \in Providers, NEW note \in Notes, Forward(r, p, note)
       PROVE  IF cfg.state[p] = "ok" THEN Sent(p) ELSE Keeps
  <2>1. LookupError(p) \in Results
    BY <1>2 DEF LookupError
  <2>2. QED
    BY <1>2, <1>3, <1>7, <1>11, <2>1 DEF Forward
<1>12. ASSUME NEW p \in Providers, NEW o \in Outcomes, Observe(p, o)
       PROVE  Silent
  BY <1>1, <1>12, ObserveFacts DEF Silent
<1>13. req[r].at \in Fresh \/ req[r].at \in Escalating => Len(req[r].sent) \in 0..1
  <2>1. Len(<<>>) = 0 /\ Len(<<Instructed>>) = 1
    BY Tuples
  <2>2. QED
    BY <1>1, <2>1 DEF PlaceOK
<1>14. CASE Begin(r)
  <2>1. CASE Arrive(r)
    BY <1>6, <1>8, <2>1 DEF Arrive, Silent
  <2>2. CASE ArriveUnusable(r)
    BY <1>2, <1>3, <1>8, <2>2 DEF ArriveUnusable, Silent
  <2>3. CASE ArriveExplicit(r)
    <3>1. IF cfg.state["named"] = "ok" THEN Sent("named") ELSE Keeps
      BY <1>2, <1>11, <2>3 DEF ArriveExplicit
    <3>2. metrics'.tiers = [metrics.tiers EXCEPT !["static"] = @ + 1]
      BY <1>1, <1>2, <2>3, TierTally DEF ArriveExplicit
    <3>3. Len(req[r].sent) \in 0..1
      BY <1>13, <2>3 DEF ArriveExplicit, At, Fresh
    <3>4. QED
      BY <1>2, <1>9, <2>3, <3>1, <3>2, <3>3
  <2>4. QED
    BY <1>14, <2>1, <2>2, <2>3 DEF Begin
<1>15. CASE LocalStep(r)
  <2>1. CASE StartAttempt(r)
    <3>1. metrics'.tiers = [metrics.tiers EXCEPT !["local"] = @ + 1]
      BY <1>1, <1>2, <2>1, TierTally DEF StartAttempt
    <3>2. IF cfg.state["local"] = "ok" THEN Sent("local") ELSE Keeps
      <4>1. LookupError("local") \in Results
        BY <1>2 DEF LookupError
      <4>2. QED
        BY <1>2, <1>7, <1>10, <2>1, <4>1 DEF StartAttempt
    <3>3. Len(req[r].sent) \in 0..1
      BY <1>13, <2>1 DEF StartAttempt, At, Fresh
    <3>4. QED
      BY <1>2, <1>9, <3>1, <3>2, <3>3
  <2>2. CASE CheckSticky(r)
    BY <1>2, <1>4, <1>5, <1>8, <2>2 DEF CheckSticky, Silent
  <2>3. CASE AttemptTransportError(r)
    BY <1>2, <1>8, <1>10, <1>12, <2>3 DEF AttemptTransportError
  <2>4. CASE AttemptErrorStatus(r) \/ AttemptOk(r)
    BY <1>2, <1>4, <1>8, <1>12, <2>4 DEF AttemptErrorStatus, AttemptOk
  <2>5. CASE AttemptErrorBody(r) \/ AttemptBodyError(r)
    BY <1>2, <1>8, <1>10, <2>5 DEF AttemptErrorBody, AttemptBodyError, Silent
  <2>6. CASE AttemptSentinel(r) \/ AttemptClean(r)
    BY <1>2, <1>3, <1>5, <1>8, <2>6 DEF AttemptSentinel, AttemptClean, Silent
  <2>7. QED
    BY <1>15, <2>1, <2>2, <2>3, <2>4, <2>5, <2>6 DEF LocalStep
<1>16. CASE EscalateStep(r)
  <2>1. CASE TryReserve(r) \/ MarkCloud(r) \/ RecordGrant(r) \/ RecordDenial(r)
    BY <1>2, <1>4, <1>8, <2>1 DEF TryReserve, MarkCloud, RecordGrant, RecordDenial, Silent
  <2>2. CASE CountGrant(r)
    <3>1. At(r, "count_grant") /\ req[r].trigger \in Triggers /\ Len(req[r].sent) \in 0..1
      BY <1>1, <1>13, <2>2 DEF CountGrant, PlaceOK, At, Escalating
    <3>2. metrics'.tiers = [metrics.tiers EXCEPT !["cloud"] = @ + 1]
      BY <1>1, <2>2, <3>1, GrantCounters DEF CountGrant
    <3>3. IF cfg.state["cloud"] = "ok" THEN Sent("cloud") ELSE Keeps
      BY <1>2, <1>11, <2>2 DEF CountGrant
    <3>4. QED
      BY <1>2, <1>9, <3>1, <3>2, <3>3
  <2>3. CASE CountDenial(r)
    <3>1. Len(req[r].sent) \in 0..1
      BY <1>13, <2>3 DEF CountDenial, At, Escalating
    <3>2. metrics'.tiers = [metrics.tiers EXCEPT !["local"] = @ + 1]
      BY <1>1, <2>3, DenialCounters DEF CountDenial
    <3>3. IF cfg.state["local"] = "ok" THEN Sent("local") ELSE Keeps
      BY <1>2, <1>11, <2>3 DEF CountDenial, Fallback
    <3>4. QED
      BY <1>2, <1>9, <3>1, <3>2, <3>3
  <2>4. QED
    BY <1>16, <2>1, <2>2, <2>3 DEF EscalateStep
<1>17. CASE ForwardStep(r)
  <2>1. req[r].at \in Forwarding => Upstream(r) \in Providers
    BY UpstreamTyped
  <2>2. CASE ForwardTransportError(r) \/ ForwardErrorStatus(r) \/ ForwardOk(r)
    <3>1. Silent
      BY <1>2, <1>12, <2>1, <2>2
      DEF ForwardTransportError, ForwardErrorStatus, ForwardOk, At, Forwarding
    <3>2. Keeps
      BY <1>2, <1>3, <1>4, <2>2 DEF ForwardTransportError, ForwardErrorStatus, ForwardOk
    <3>3. QED
      BY <1>8, <3>1, <3>2
  <2>3. CASE ForwardErrorBody(r)
    BY <1>2, <1>3, <1>8, <2>3 DEF ForwardErrorBody, Silent
  <2>4. QED
    BY <1>17, <2>2, <2>3 DEF ForwardStep
<1>18. CASE Cancel(r)
  BY <1>2, <1>3, <1>8, <1>18 DEF Cancel, Silent
<1>19. QED
  BY <1>14, <1>15, <1>16, <1>17, <1>18 DEF Progress

\* What has been sent to p and is in the counter of its tier.
TierExchanges(p) == {x \in ExchangesWith(p) : p # "named" \/ x[1] \notin ChatRequests}
SentAt(q, i, p) ==
    /\ i <= Len(req[q].sent)
    /\ req[q].sent[i].to = p
    /\ p # "named" \/ q \notin ChatRequests

\* These exchanges, pair by pair, before and after a step.
LEMMA TierPairs ==
    ASSUME NEW p
    PROVE  /\ TierExchanges(p) \subseteq Requests \X (1..2)
           /\ TierExchanges(p)' \subseteq Requests \X (1..2)
           /\ \A q \in Requests, i \in 1..2 :
                <<q, i>> \in TierExchanges(p) <=> SentAt(q, i, p)
           /\ \A q \in Requests, i \in 1..2 :
                <<q, i>> \in TierExchanges(p)' <=> SentAt(q, i, p)'
<1>1. /\ TierExchanges(p) \subseteq Requests \X (1..2)
      /\ TierExchanges(p)' \subseteq Requests \X (1..2)
  BY DEF TierExchanges, ExchangesWith, Exchanges
<1>2. ASSUME NEW q \in Requests, NEW i \in 1..2
      PROVE  /\ <<q, i>> \in TierExchanges(p) <=> SentAt(q, i, p)
             /\ <<q, i>> \in TierExchanges(p)' <=> SentAt(q, i, p)'
  <2>1. PICK x : x = <<q, i>>
    OBVIOUS
  <2>2. x \in Requests \X (1..2) /\ x[1] = q /\ x[2] = i
    BY <2>1
  <2>3. x \in TierExchanges(p) <=> SentAt(q, i, p)
    BY <2>2 DEF TierExchanges, ExchangesWith, Exchanges, SentAt
  <2>4. x \in TierExchanges(p)' <=> SentAt(q, i, p)'
    BY <2>2 DEF TierExchanges, ExchangesWith, Exchanges, SentAt
  <2>5. QED
    BY <2>1, <2>3, <2>4
<1>3. QED
  BY <1>1, <1>2

\* They are finitely many.
LEMMA FiniteTiers == \A p : IsFiniteSet(TierExchanges(p)) /\ IsFiniteSet(TierExchanges(p)')
BY SomePairs, TierPairs

\* A step that sends nothing leaves them alone.
LEMMA SameTiers ==
    ASSUME NEW r \in Requests, \A q \in Requests \ {r} : req'[q] = req[q],
           req'[r].sent = req[r].sent, NEW p
    PROVE  TierExchanges(p)' = TierExchanges(p)
<1>1. \A q \in Requests, i \in 1..2 :
        <<q, i>> \in TierExchanges(p)' <=> <<q, i>> \in TierExchanges(p)
  <2>1. \A q \in Requests : req'[q].sent = req[q].sent
    OBVIOUS
  <2>2. \A q \in Requests, i \in 1..2 : SentAt(q, i, p)' <=> SentAt(q, i, p)
    BY <2>1 DEF SentAt
  <2>3. QED
    BY <2>2, TierPairs
<1>2. QED
  BY <1>1, TierPairs, PairSets

\* A step that sends m to p makes them one more, unless r is a chat request
\* and p a provider its settings name.
LEMMA OneMoreTier ==
    ASSUME IInv, NEW r \in Requests, \A q \in Requests \ {r} : req'[q] = req[q],
           NEW m \in Messages, req'[r].sent = Append(req[r].sent, m),
           Len(req[r].sent) \in 0..1, NEW p
    PROVE  IF m.to = p /\ (p # "named" \/ r \notin ChatRequests)
             THEN /\ <<r, Len(req[r].sent) + 1>> \notin TierExchanges(p)
                  /\ TierExchanges(p)' = TierExchanges(p) \cup {<<r, Len(req[r].sent) + 1>>}
             ELSE TierExchanges(p)' = TierExchanges(p)
<1> DEFINE n == Len(req[r].sent) + 1
           Counts == m.to = p /\ (p # "named" \/ r \notin ChatRequests)
<1>1. req[r].sent \in Seq(Messages) /\ n \in 1..2
  BY Fields DEF IInv
<1>2. /\ Len(req'[r].sent) = n /\ req'[r].sent[n] = m
      /\ \A j \in 1..Len(req[r].sent) : req'[r].sent[j] = req[r].sent[j]
  BY <1>1, AppendProperties
<1>3. ASSUME NEW i \in 1..2
      PROVE  /\ SentAt(r, i, p) => i # n
             /\ SentAt(r, i, p)' <=> SentAt(r, i, p) \/ (i = n /\ Counts)
  <2>1. CASE i <= Len(req[r].sent)
    <3>1. i \in 1..Len(req[r].sent) /\ i # n /\ i <= n
      BY <1>1, <2>1
    <3>2. req'[r].sent[i] = req[r].sent[i]
      BY <1>2, <3>1
    <3>3. QED
      BY <1>2, <2>1, <3>1, <3>2 DEF SentAt
  <2>2. CASE i = n
    <3>1. ~(i <= Len(req[r].sent)) /\ i <= n
      BY <1>1, <2>2
    <3>2. QED
      BY <1>2, <2>2, <3>1 DEF SentAt
  <2>3. CASE ~(i <= Len(req[r].sent)) /\ i # n
    <3>1. ~(i <= n)
      BY <1>1, <2>3
    <3>2. QED
      BY <1>2, <2>3, <3>1 DEF SentAt
  <2>4. QED
    BY <2>1, <2>2, <2>3
<1>4. ASSUME NEW q \in Requests \ {r}, NEW i \in 1..2
      PROVE  SentAt(q, i, p)' <=> SentAt(q, i, p)
  BY DEF SentAt
<1> HIDE DEF n, Counts
<1>5. CASE Counts
  <2>1. <<r, n>> \notin TierExchanges(p)
    BY <1>1, <1>3, TierPairs
  <2>2. \A q \in Requests, i \in 1..2 :
          <<q, i>> \in TierExchanges(p)' <=> <<q, i>> \in TierExchanges(p) \/ (q = r /\ i = n)
    BY <1>3, <1>4, <1>5, TierPairs
  <2>3. TierExchanges(p)' = TierExchanges(p) \cup {<<r, n>>}
    <3>1. PICK A, B : A = TierExchanges(p) /\ B = TierExchanges(p)'
      OBVIOUS
    <3>2. A \in SUBSET (Requests \X (1..2)) /\ B \in SUBSET (Requests \X (1..2))
      BY <3>1, TierPairs
    <3>3. \A q \in Requests, i \in 1..2 : <<q, i>> \in B <=> <<q, i>> \in A \/ (q = r /\ i = n)
      BY <2>2, <3>1
    <3>4. \A s \in Requests, k \in 1..2 :
            (\A q \in Requests, i \in 1..2 : <<q, i>> \in B <=> <<q, i>> \in A \/ (q = s /\ i = k))
            => B = A \cup {<<s, k>>}
      BY <3>2, PairSets
    <3>5. B = A \cup {<<r, n>>}
      BY <1>1, <3>3, <3>4, Zenon
    <3>6. QED
      BY <3>1, <3>5
  <2>4. QED
    BY <1>5, <2>1, <2>3 DEF n, Counts
<1>6. CASE ~Counts
  <2>1. \A q \in Requests, i \in 1..2 :
          <<q, i>> \in TierExchanges(p)' <=> <<q, i>> \in TierExchanges(p)
    BY <1>3, <1>4, <1>6, TierPairs
  <2>2. TierExchanges(p)' = TierExchanges(p)
    BY <2>1, TierPairs, PairSets
  <2>3. QED
    BY <1>6, <2>2 DEF Counts
<1>7. QED
  BY <1>5, <1>6

\* The counter of each configured tier, by the name of its exchanges.
TiersCount ==
    \A p \in Providers :
        cfg.state[p] = "ok" => metrics.tiers[TierOf[p]] = Cardinality(TierExchanges(p))

\* A step that dispatches keeps the count, if no chat request counts a tier of
\* its own accord.
LEMMA DispatchedCount ==
    ASSUME IInv, TiersCount, NEW r \in Requests, cfg' = cfg, NEW p \in Providers,
           Dispatched(r, p), p # "named" \/ r \notin ChatRequests
    PROVE  TiersCount'
<1>1. metrics.tiers \in [Tiers -> Nat] /\ TierOf \in [Providers -> Tiers]
      /\ \A x, y \in Providers : TierOf[x] = TierOf[y] => x = y
  <2>1. metrics.tiers \in [Tiers -> Nat]
    BY DEF IInv, TypeOK, Counters
  <2>2. /\ TierOf["local"] = "local" /\ TierOf["cloud"] = "cloud" /\ TierOf["named"] = "static"
        /\ TierOf \in [Providers -> Tiers]
    BY DEF TierOf, Providers, Tiers
  <2>3. QED
    BY <2>1, <2>2 DEF Providers
<1>2. metrics'.tiers = [metrics.tiers EXCEPT ![TierOf[p]] = @ + 1]
  BY DEF Dispatched
<1>3. SUFFICES ASSUME NEW x \in Providers, cfg.state[x] = "ok"
               PROVE  metrics'.tiers[TierOf[x]] = Cardinality(TierExchanges(x)')
  BY DEF TiersCount
<1>4. metrics.tiers[TierOf[x]] = Cardinality(TierExchanges(x))
  BY <1>3 DEF TiersCount
<1>5. CASE cfg.state[p] # "ok"
  <2>1. x # p /\ TierOf[x] # TierOf[p]
    BY <1>1, <1>3, <1>5
  <2>2. TierExchanges(x)' = TierExchanges(x)
    BY <1>5, SameTiers DEF Dispatched
  <2>3. QED
    BY <1>1, <1>2, <1>4, <2>1, <2>2
<1>6. CASE cfg.state[p] = "ok"
  <2>1. PICK m \in Messages : m.to = p /\ req'[r].sent = Append(req[r].sent, m)
    BY <1>6 DEF Dispatched
  <2>2. CASE x = p
    <3>1. /\ <<r, Len(req[r].sent) + 1>> \notin TierExchanges(x)
          /\ TierExchanges(x)' = TierExchanges(x) \cup {<<r, Len(req[r].sent) + 1>>}
      <4>1. /\ \A q \in Requests \ {r} : req'[q] = req[q]
            /\ Len(req[r].sent) \in 0..1
        BY DEF Dispatched
      <4>2. m.to = p /\ (p # "named" \/ r \notin ChatRequests)
        BY <2>1
      <4>3. /\ <<r, Len(req[r].sent) + 1>> \notin TierExchanges(p)
            /\ TierExchanges(p)' = TierExchanges(p) \cup {<<r, Len(req[r].sent) + 1>>}
        BY <2>1, <4>1, <4>2, OneMoreTier
      <4>4. QED
        BY <2>2, <4>3, Zenon
    <3>2. Cardinality(TierExchanges(x)') = Cardinality(TierExchanges(x)) + 1
      BY <3>1, FiniteTiers, OneMore
    <3>3. metrics'.tiers[TierOf[x]] = metrics.tiers[TierOf[x]] + 1
      BY <1>1, <1>2, <2>2
    <3>4. QED
      BY <1>4, <3>2, <3>3
  <2>3. CASE x # p
    <3>1. TierExchanges(x)' = TierExchanges(x)
      <4>1. /\ \A q \in Requests \ {r} : req'[q] = req[q]
            /\ Len(req[r].sent) \in 0..1
        BY DEF Dispatched
      <4>2. ~(m.to = x /\ (x # "named" \/ r \notin ChatRequests))
        BY <2>1, <2>3
      <4>3. QED
        BY <2>1, <4>1, <4>2, OneMoreTier
    <3>2. metrics'.tiers[TierOf[x]] = metrics.tiers[TierOf[x]]
      BY <1>1, <1>2, <2>3
    <3>3. QED
      BY <1>4, <3>1, <3>2
  <2>4. QED
    BY <2>2, <2>3
<1>7. QED
  BY <1>5, <1>6

\* No step counts a tier without a dispatch, or a dispatch not at all.
LEMMA DoorNextTiers ==
    ASSUME DoorIInv, TiersCount, [DoorNext]_<<vars, doorVars>>
    PROVE  TiersCount'
<1>0. IInv /\ ChatRequests \subseteq Requests
  BY DoorAssumption DEF DoorIInv
<1>1. ASSUME cfg' = cfg, metrics'.tiers = metrics.tiers,
             \A p \in Providers : TierExchanges(p)' = TierExchanges(p)
      PROVE  TiersCount'
  BY <1>1 DEF TiersCount
<1>2. ASSUME NEW r \in Requests, cfg' = cfg, Undispatched(r)
      PROVE  TiersCount'
  BY <1>1, <1>2, SameTiers DEF Undispatched
<1>3. ASSUME NEW r \in Requests, Progress(r) \/ Cancel(r)
      PROVE  TiersCount'
  <2>1. cfg' = cfg /\ ~ArriveExplicit(r)
    BY <1>0, <1>3, Alone DEF ArriveExplicit
  <2>2. Undispatched(r) \/ Dispatched(r, "local") \/ Dispatched(r, "cloud")
    BY <1>0, <1>3, <2>1, Dispatches
  <2>3. "local" \in Providers /\ "cloud" \in Providers
    BY DEF Providers
  <2>4. CASE Dispatched(r, "local")
    BY <1>0, <2>1, <2>3, <2>4, DispatchedCount
  <2>5. CASE Dispatched(r, "cloud")
    BY <1>0, <2>1, <2>3, <2>5, DispatchedCount
  <2>6. QED
    BY <1>2, <2>1, <2>2, <2>4, <2>5
<1>4. ASSUME UNCHANGED vars \/ ReadBudget
      PROVE  TiersCount'
  <2>1. req' = req /\ metrics' = metrics /\ cfg' = cfg
    BY <1>4 DEF vars, ReadBudget
  <2>2. \A p \in Providers : TierExchanges(p)' = TierExchanges(p)
    BY <2>1 DEF TierExchanges, ExchangesWith, Exchanges
  <2>3. QED
    BY <1>1, <2>1, <2>2
<1>5. ASSUME NEW r \in Requests \ ChatRequests, Begin(r)
      PROVE  TiersCount'
  <2>1. cfg' = cfg
    BY <1>5 DEF Begin, Arrive, ArriveExplicit, ArriveUnusable
  <2>2. /\ "local" \in Providers /\ "cloud" \in Providers /\ "named" \in Providers
    BY DEF Providers
  <2>3. Undispatched(r) \/ \E p \in Providers : Dispatched(r, p)
    BY <1>0, <1>5, <2>2, Dispatches
  <2>4. ASSUME NEW p \in Providers, Dispatched(r, p)
        PROVE  TiersCount'
    BY <1>0, <1>5, <2>1, <2>4, DispatchedCount
  <2>5. QED
    BY <1>2, <2>1, <2>3, <2>4
<1>6. ASSUME NEW r \in ChatRequests, ChatCascade(r) \/ ChatForward(r)
      PROVE  TiersCount'
  <2>1. r \in Requests /\ At(r, "idle") /\ metrics' = metrics /\ cfg' = cfg
    BY <1>0, <1>6 DEF DoorIInv, DoorPlaceOK, ChatCascade, ChatForward, InPipeline, AtDoor
  <2>2. req[r].sent = <<>>
    BY <1>0, <2>1 DEF IInv, TaskInv, PlaceOK, At, Fresh
  <2>3. \/ Moves(r, "check_sticky", "none", <<>>)
        \/ Moves(r, "awaiting_forward", "none", <<Copy("named")>>)
        \/ Moves(r, "done", LookupError("named"), <<>>)
    BY <1>6, ChatCascadeInv, ChatForwardInv
  <2>4. CASE Moves(r, "awaiting_forward", "none", <<Copy("named")>>)
    <3>1. Copy("named") \in Messages /\ Copy("named").to = "named"
      BY DEF Copy, Messages, Providers, Notes
    <3>2. req'[r].sent = Append(req[r].sent, Copy("named"))
      BY <2>2, <2>4, Tuples DEF Moves
    <3>3. Len(req[r].sent) \in 0..1
      BY <2>2
    <3>4. \A q \in Requests \ {r} : req'[q] = req[q]
      BY <2>4 DEF Moves
    <3>5. \A p : TierExchanges(p)' = TierExchanges(p)
      BY <1>0, <2>1, <3>1, <3>2, <3>3, <3>4, OneMoreTier
    <3>6. QED
      BY <1>1, <2>1, <3>5
  <2>5. CASE Moves(r, "check_sticky", "none", <<>>) \/ Moves(r, "done", LookupError("named"), <<>>)
    BY <1>2, <2>1, <2>2, <2>5 DEF Moves, Undispatched
  <2>6. QED
    BY <2>3, <2>4, <2>5
<1>7. ASSUME NEW r \in Requests, Serve(r)
      PROVE  TiersCount'
  <2>1. CASE CascadeProgress(r)
    BY <1>3, <2>1 DEF CascadeProgress
  <2>2. CASE r \in ChatRequests /\ ChatProgress(r)
    <3>1. UNCHANGED vars \/ ChatCascade(r) \/ ChatForward(r)
      BY <2>2 DEF ChatProgress, Passthrough, PassthroughAnswer, PipelineRefused, ChatReply,
                  ReadAnswer
    <3>2. QED
      BY <1>4, <1>6, <2>2, <3>1
  <2>3. QED
    BY <1>7, <2>1, <2>2 DEF Serve
<1>8. ASSUME NEW r \in Requests \ ChatRequests, MessageDoor(r)
      PROVE  TiersCount'
  <2>1. Begin(r) \/ Cancel(r)
    BY <1>8 DEF MessageDoor, MessageArrive, Begin
  <2>2. QED
    BY <1>3, <1>5, <2>1
<1>9. ASSUME NEW r \in ChatRequests, ChatDoor(r)
      PROVE  TiersCount'
  <2>1. UNCHANGED vars \/ Cancel(r)
    BY <1>9 DEF ChatDoor, ChatRefused, ChatArrive, ChatCancel
  <2>2. QED
    BY <1>0, <1>3, <1>4, <2>1
<1>10. ASSUME NEW s \in ChatChoices, PutSettings(s)
       PROVE  TiersCount'
  BY <1>4, <1>10 DEF PutSettings
<1>11. QED
  BY <1>4, <1>7, <1>8, <1>9, <1>10 DEF DoorNext

\* bb_tier_requests_total is the number of dispatches to a tier whose provider
\* is configured, over both doors: a denied fallback is a second one, and what
\* the chat door forwards by itself is in no tier.
THEOREM TiersAreCounted == DoorSpec => []TierCountsAllButChatTargets
<1>1. TiersCount <=> TierCountsAllButChatTargets
  BY DEF TiersCount, TierExchanges, TierCountsAllButChatTargets
<1>2. DoorInit => TiersCount
  <2> SUFFICES ASSUME DoorInit, NEW p \in Providers
               PROVE  metrics.tiers[TierOf[p]] = Cardinality(TierExchanges(p))
    BY DEF TiersCount
  <2>1. \A q \in Requests : req[q].sent = <<>>
    BY DEF DoorInit, Init
  <2>2. TierExchanges(p) = {}
    BY <2>1 DEF TierExchanges, ExchangesWith, Exchanges
  <2>3. Cardinality(TierExchanges(p)) = 0
    BY <2>2, FS_EmptySet
  <2>4. TierOf[p] \in Tiers
    BY DEF TierOf, Providers, Tiers
  <2>5. metrics.tiers[TierOf[p]] = 0
    BY <2>4 DEF DoorInit, Init, ZeroMetrics
  <2>6. QED
    BY <2>3, <2>5
<1>3. QED
  BY <1>1, <1>2, DoorNextTiers, DoorInvariant, PTL DEF DoorSpec

-----------------------------------------------------------------------------
\* One key for a conversation.

\* The lemmas about induction, which are about numbers only.
Induction == INSTANCE ChunkedBytesProofs WITH Alphabet <- {}

\* A text in one part is that part.
LEMMA OnePart ==
    ASSUME NEW t
    PROVE  Joined(<<t>>) = t
<1> DEFINE ss == [i \in 1..1 |-> t]
           Eq(g) == g = [i \in 1..1 |-> IF i = 1 THEN ss[i] ELSE g[i - 1] \o ss[i]]
           flatten == CHOOSE g : Eq(g)
<1>1. DOMAIN <<t>> = 1..1 /\ <<t>>[1] = t
  OBVIOUS
<1>2. ss \in Seq({t}) /\ Len(ss) = 1 /\ ss[1] = t
  OBVIOUS
<1>3. Joined(<<t>>) = FlattenSeq(ss)
  <2>1. \A i \in 1..1 : (IF i = 1 THEN <<t>>[i] ELSE <<NL>> \o <<t>>[i]) = t
    BY <1>1
  <2>2. [i \in DOMAIN <<t>> |-> IF i = 1 THEN <<t>>[i] ELSE <<NL>> \o <<t>>[i]] = ss
    BY <1>1, <2>1
  <2>3. QED
    BY <2>2 DEF Joined
<1> HIDE DEF ss
<1>4. FlattenSeq(ss) = flatten[1]
  BY <1>2 DEF FlattenSeq
<1>5. Eq([i \in 1..1 |-> t])
  BY <1>2
<1>6. Eq(flatten)
  BY <1>5
<1> HIDE DEF flatten
<1>7. flatten[1] = t
  BY <1>2, <1>6
<1>8. QED
  BY <1>3, <1>4, <1>7

\* The first user message is the one with none before it.
LEMMA FirstUserIs ==
    ASSUME NEW ms, NEW n \in Nat, DOMAIN ms = 1..n, NEW p \in 1..n, ms[p].role = "user",
           \A j \in 1..(p - 1) : ms[j].role # "user"
    PROVE  FirstUser(ms) = ms[p].parts
<1> DEFINE first == {i \in DOMAIN ms : /\ ms[i].role = "user"
                                       /\ \A j \in 1..(i - 1) : ms[j].role # "user"}
<1>1. p \in first
  OBVIOUS
<1>2. \A i \in first : i = p
  <2>1. SUFFICES ASSUME NEW i \in first, i # p PROVE FALSE
    OBVIOUS
  <2>2. i \in 1..n /\ ms[i].role = "user" /\ \A j \in 1..(i - 1) : ms[j].role # "user"
    OBVIOUS
  <2>3. i \in 1..(p - 1) \/ p \in 1..(i - 1)
    BY <2>1, <2>2
  <2>4. QED
    BY <2>2, <2>3
<1> HIDE DEF first
<1>3. (CHOOSE i \in first : TRUE) = p
  BY <1>1, <1>2
<1>4. QED
  BY <1>1, <1>3 DEF FirstUser, first

\* The loop of the translation has turned so many messages.
Turned(ms, after) ==
    /\ after[0] = <<>>
    /\ \A n \in 1..Len(ms) :
         after[n] = IF ms[n].role \in {"user", "assistant"}
                      THEN Append(after[n - 1], Turn(ms[n])) ELSE after[n - 1]
    /\ Translated(ms) = after[Len(ms)]

LEMMA LoopRuns ==
    ASSUME NEW ms, Len(ms) \in Nat
    PROVE  \E after : Turned(ms, after)
<1> DEFINE N == Len(ms)
           S == {Turn(ms[n]) : n \in 1..N}
           Q == Seq(S)
           none == <<>>
           Passes(n) == ms[n].role \in {"user", "assistant"}
           More(n, s) == IF Passes(n) THEN Append(s, Turn(ms[n])) ELSE s
           step == [x \in (1..N) \X Q |-> More(x[1], x[2])]
           Eq(g) == g = [n \in 0..N |-> IF n = 0 THEN none ELSE More(n, g[n - 1])]
           after == CHOOSE g : Eq(g)
<1>1. N \in Nat /\ none \in Q
  OBVIOUS
<1>2. step \in [(1..N) \X Q -> Q]
  <2>1. \A n \in 1..N : Turn(ms[n]) \in S
    OBVIOUS
  <2>2. \A n \in 1..N, s \in Q : Append(s, Turn(ms[n])) \in Q
    BY <2>1, AppendProperties
  <2> HIDE DEF Q, Passes
  <2>3. \A n \in 1..N, s \in Q : More(n, s) \in Q
    BY <2>2
  <2>4. QED
    BY <2>3
<1>3. \A n \in 1..N, s \in Q : step[<<n, s>>] = More(n, s)
  OBVIOUS
<1>a. none = <<>>
  OBVIOUS
<1>b. Translated(ms) = after[N]
  BY DEF Translated
<1>c. \A n \in 1..N : \A s : More(n, s) = IF ms[n].role \in {"user", "assistant"}
                                           THEN Append(s, Turn(ms[n])) ELSE s
  OBVIOUS
<1> HIDE DEF step, Q, none, More
<1>4. PICK f : Induction!Recurses(f, none, step, N, Q)
  BY <1>1, <1>2, Induction!Recursion
<1>5. /\ f \in [0..N -> Q] /\ f[0] = none
      /\ \A n \in 1..N : f[n] = step[<<n, f[n - 1]>>]
  BY <1>4 DEF Induction!Recurses
<1>6. \A n \in 1..N : f[n] = More(n, f[n - 1])
  <2>1. \A n \in 1..N : n - 1 \in 0..N
    BY <1>1
  <2> HIDE DEF N
  <2>2. \A n \in 1..N : f[n - 1] \in Q
    BY <1>5, <2>1
  <2>3. QED
    BY <1>3, <1>5, <2>2
<1>7. Eq(f)
  <2> DEFINE g == [n \in 0..N |-> IF n = 0 THEN none ELSE More(n, f[n - 1])]
  <2>1. \A n \in 0..N : n = 0 \/ n \in 1..N
    BY <1>1
  <2>2. \A n \in 0..N : f[n] = g[n]
    BY <1>5, <1>6, <2>1
  <2>3. f = [n \in 0..N |-> f[n]]
    BY <1>5
  <2>4. QED
    BY <2>2, <2>3
<1>8. Eq(after)
  BY <1>7
<1> HIDE DEF after
<1>9. after[0] = none /\ \A n \in 1..N : after[n] = More(n, after[n - 1])
  BY <1>1, <1>8
<1>10. Turned(ms, after)
  BY <1>9, <1>a, <1>b, <1>c DEF Turned
<1>11. QED
  BY <1>10

\* The messages from the first user message on are after it.
Unspoken(s) == \A k \in 1..Len(s) : s[k].role # "user"

\* The translation keeps the first user message, flattened to one part.
LEMMA FirstUserTranslated ==
    ASSUME NEW ms, Len(ms) \in Nat, NEW u \in 1..Len(ms), ms[u].role = "user",
           \A j \in 1..(u - 1) : ms[j].role # "user"
    PROVE  FirstUser(Translated(ms)) = <<Joined(ms[u].parts)>>
<1> DEFINE N == Len(ms)
           S == {Turn(ms[n]) : n \in 1..N}
           t == Turn(ms[u])
           Ahead(s) == \E p \in 1..Len(s) : s[p] = t /\ \A k \in 1..(p - 1) : s[k].role # "user"
           Passes(n) == ms[n].role \in {"user", "assistant"}
<1>1. PICK after : Turned(ms, after)
  BY LoopRuns
<1>2. /\ after[0] = <<>> /\ Translated(ms) = after[N]
      /\ \A n \in 1..N : after[n] = IF Passes(n) THEN Append(after[n - 1], Turn(ms[n]))
                                    ELSE after[n - 1]
  BY <1>1 DEF Turned
<1>3. N \in Nat /\ u \in 1..N /\ u \in Nat /\ Passes(u) /\ t \in S
  OBVIOUS
<1>4. \A n \in 1..N : Turn(ms[n]) \in S /\ Turn(ms[n]).role = ms[n].role
  BY DEF Turn
<1>5. t.role = "user" /\ t.parts = <<Joined(ms[u].parts)>>
  BY DEF Turn, ContentText
<1>6. \A n \in 1..N : n < u => ms[n].role # "user"
  OBVIOUS
<1>7. ASSUME NEW s \in Seq(S), NEW m \in S
      PROVE  /\ Append(s, m) \in Seq(S)
             /\ Unspoken(s) /\ m.role # "user" => Unspoken(Append(s, m))
             /\ Unspoken(s) /\ m = t => Ahead(Append(s, m))
             /\ Ahead(s) => Ahead(Append(s, m))
  <2> DEFINE more == Append(s, m)  l == Len(s)
  <2>1. l \in Nat
    BY LenProperties
  <2>2. more \in Seq(S) /\ Len(more) = l + 1 /\ more[l + 1] = m /\ \A k \in 1..l : more[k] = s[k]
    BY AppendProperties
  <2> HIDE DEF more, l, t, S
  <2>3. \A k \in 1..(l + 1) : k \in 1..l \/ k = l + 1
    BY <2>1
  <2>4. ASSUME Unspoken(s), m.role # "user" PROVE Unspoken(more)
    BY <2>1, <2>2, <2>3, <2>4 DEF Unspoken, l
  <2>5. ASSUME Unspoken(s), m = t PROVE Ahead(more)
    <3>1. l + 1 \in 1..Len(more) /\ more[l + 1] = t
      BY <2>1, <2>2, <2>5
    <3>2. \A k \in 1..((l + 1) - 1) : more[k].role # "user"
      BY <2>1, <2>2, <2>5 DEF Unspoken, l
    <3>3. QED
      BY <3>1, <3>2
  <2>6. ASSUME Ahead(s) PROVE Ahead(more)
    <3>1. PICK p \in 1..l : s[p] = t /\ \A k \in 1..(p - 1) : s[k].role # "user"
      BY <2>6 DEF l
    <3>2. p \in 1..Len(more) /\ \A k \in 1..(p - 1) : k \in 1..l
      BY <2>1, <2>2
    <3>3. more[p] = t /\ \A k \in 1..(p - 1) : more[k].role # "user"
      BY <2>2, <3>1, <3>2
    <3>4. QED
      BY <3>2, <3>3
  <2>7. QED
    BY <2>2, <2>4, <2>5, <2>6 DEF more
<1> DEFINE Fine(n, s) == s \in Seq(S) /\ (n < u => Unspoken(s)) /\ (u <= n => Ahead(s))
           T == {n \in 0..N : Fine(n, after[n])}
<1>8. 0 \in T
  <2>1. <<>> \in Seq(S) /\ Len(<<>>) = 0
    OBVIOUS
  <2>2. Unspoken(<<>>)
    BY <2>1 DEF Unspoken
  <2>3. ~(u <= 0) /\ 0 \in 0..N
    BY <1>3
  <2> HIDE DEF S, Ahead, N
  <2>4. QED
    BY <1>2, <2>1, <2>2, <2>3
<1>9. ASSUME NEW n \in 0..N, n \in T, n < N
      PROVE  n + 1 \in T
  <2> DEFINE s == after[n]  m == Turn(ms[n + 1])
  <2>1. n + 1 \in 1..N /\ n + 1 \in 0..N /\ (n + 1) - 1 = n /\ n \in Nat
    BY <1>3, <1>9
  <2>2. after[n + 1] = IF Passes(n + 1) THEN Append(s, m) ELSE s
    BY <1>2, <2>1
  <2>3. Fine(n, s) /\ m \in S /\ m.role = ms[n + 1].role
    BY <1>4, <1>9, <2>1
  <2>4. n + 1 = u => m = t
    OBVIOUS
  <2>5. n + 1 < u => ms[n + 1].role # "user"
    BY <1>6, <2>1
  <2>6. (n + 1 < u => n < u) /\ (n + 1 = u => n < u) /\ (u <= n + 1 => n + 1 = u \/ u <= n)
    BY <1>3, <2>1
  <2> HIDE DEF s, m, t, S, Ahead, N
  <2>7. CASE Passes(n + 1)
    <3>1. after[n + 1] = Append(s, m)
      BY <2>2, <2>7
    <3>2. Fine(n + 1, Append(s, m))
      BY <1>7, <2>3, <2>4, <2>5, <2>6
    <3>3. QED
      BY <2>1, <3>1, <3>2
  <2>8. CASE ~Passes(n + 1)
    <3>1. after[n + 1] = s /\ n + 1 # u
      BY <1>3, <2>2, <2>8
    <3>2. Fine(n + 1, s)
      BY <2>3, <2>6, <3>1
    <3>3. QED
      BY <2>1, <3>1, <3>2
  <2>9. QED
    BY <2>7, <2>8
<1>10. \A n \in 0..N : n \in T
  <2> HIDE DEF T
  <2>1. \A n \in 0..N : n \in T /\ n < N => n + 1 \in T
    BY <1>9
  <2>2. QED
    BY <1>3, <1>8, <2>1, Induction!UpTo
<1>11. Fine(N, after[N]) /\ u <= N
  <2>1. N \in 0..N /\ u <= N
    BY <1>3
  <2>2. N \in T
    BY <1>10, <2>1
  <2> HIDE DEF Fine, N
  <2>3. QED
    BY <2>1, <2>2
<1> DEFINE tr == Translated(ms)
<1>12. tr \in Seq(S) /\ Ahead(tr)
  BY <1>2, <1>11
<1> HIDE DEF tr, t, S
<1>13. PICK p \in 1..Len(tr) : tr[p] = t /\ \A k \in 1..(p - 1) : tr[k].role # "user"
  BY <1>12
<1>14. Len(tr) \in Nat /\ DOMAIN tr = 1..Len(tr)
  BY <1>12, LenProperties
<1>15. FirstUser(tr) = tr[p].parts
  BY <1>5, <1>13, <1>14, FirstUserIs
<1>16. QED
  BY <1>5, <1>13, <1>15 DEF tr

\* The key of a conversation is that of the text it opened with, at either door.
LEMMA KeyOfOpening ==
    ASSUME NEW ms \in Seq([role : Roles, parts : Seq(Seq(STRING))]), FirstUser(ms) # <<>>
    PROVE  /\ ConversationKey(ms) = Joined(FirstUser(ms))
           /\ ConversationKey(Translated(ms)) = Joined(FirstUser(ms))
<1>1. ConversationKey(ms) = Joined(FirstUser(ms))
  BY DEF ConversationKey
<1> DEFINE first == {i \in DOMAIN ms : /\ ms[i].role = "user"
                                       /\ \A j \in 1..(i - 1) : ms[j].role # "user"}
           u == CHOOSE i \in first : TRUE
<1>2. first # {} /\ FirstUser(ms) = ms[u].parts
  BY DEF FirstUser
<1>3. u \in first
  BY <1>2
<1>4. DOMAIN ms = 1..Len(ms) /\ Len(ms) \in Nat
  BY LenProperties
<1>5. u \in 1..Len(ms) /\ ms[u].role = "user" /\ \A j \in 1..(u - 1) : ms[j].role # "user"
  BY <1>3, <1>4
<1> HIDE DEF u
<1>6. FirstUser(Translated(ms)) = <<Joined(FirstUser(ms))>>
  BY <1>2, <1>4, <1>5, FirstUserTranslated
<1>7. Joined(<<Joined(FirstUser(ms))>>) = Joined(FirstUser(ms))
  BY OnePart
<1>8. <<Joined(FirstUser(ms))>> # <<>>
  OBVIOUS
<1>9. ConversationKey(Translated(ms)) = Joined(FirstUser(ms))
  BY <1>6, <1>7, <1>8 DEF ConversationKey
<1>10. QED
  BY <1>1, <1>9

\* No task's key changes.
KeysStay == \A q \in Requests : req'[q].key = req[q].key

\* Only a request that enters the cascade gets a key: the other building blocks
\* of the steps leave the keys alone.
LEMMA BlocksKeepKeys ==
    ASSUME TypeOK, NEW r \in Requests,
           \/ \E result \in Results : Respond(r, result)
           \/ \E place \in Places : Goto(r, place)
           \/ \E trigger \in Triggers : Escalate(r, trigger)
           \/ \E p \in Providers, note \in Notes, place \in Places : Send(r, p, note, place)
    PROVE  KeysStay
<1>1. ASSUME NEW at, NEW trigger, NEW sent, NEW result,
             Becomes(r, With(r, at, trigger, sent, result))
      PROVE  KeysStay
  BY <1>1 DEF Becomes, With, KeysStay
<1>2. ASSUME NEW result \in Results, Respond(r, result)
      PROVE  KeysStay
  <2>1. Becomes(r, With(r, "done", req[r].trigger, req[r].sent, result))
    BY <1>2, RespondFacts
  <2>2. QED
    BY <1>1, <2>1
<1>3. ASSUME NEW place \in Places, Goto(r, place)
      PROVE  KeysStay
  <2>1. Becomes(r, With(r, place, req[r].trigger, req[r].sent, req[r].result))
    BY <1>3, GotoFacts
  <2>2. QED
    BY <1>1, <2>1
<1>4. ASSUME NEW trigger \in Triggers, Escalate(r, trigger)
      PROVE  KeysStay
  <2>1. Becomes(r, With(r, "escalate", trigger, req[r].sent, req[r].result))
    BY <1>4, EscalateFacts
  <2>2. QED
    BY <1>1, <2>1
<1>5. ASSUME NEW p \in Providers, NEW note \in Notes, NEW place \in Places,
             Send(r, p, note, place)
      PROVE  KeysStay
  <2>1. Becomes(r, With(r, place, req[r].trigger,
                        Append(req[r].sent, [to |-> p, note |-> note]), req[r].result))
    BY <1>5, SendFacts
  <2>2. QED
    BY <1>1, <2>1
<1>6. QED
  BY <1>2, <1>3, <1>4, <1>5

\* A task that is in the cascade keeps its key to the end.
LEMMA ProgressKeepsKeys ==
    ASSUME TypeOK, NEW r \in Requests,
           ArriveExplicit(r) \/ ArriveUnusable(r) \/ Progress(r) \/ Cancel(r)
    PROVE  KeysStay
<1> DEFINE Block ==
        \/ \E result \in Results : Respond(r, result)
        \/ \E place \in Places : Goto(r, place)
        \/ \E trigger \in Triggers : Escalate(r, trigger)
        \/ \E p \in Providers, note \in Notes, place \in Places : Send(r, p, note, place)
<1>1. /\ {"local", "cloud", "named"} = Providers /\ Notes = {"none", "instruction", "unavailable"}
      /\ {"attempt", "reading_error", "reading_attempt", "awaiting_attempt", "awaiting_forward",
          "reading_forward_error", "reserved", "record", "count_grant", "count_denial"}
            \subseteq Places
      /\ {"UnknownProvider", "MissingApiKey", "InvalidJson", "panic", "transport_error",
          "upstream_error", "answer", "cancelled_unanswered", "cancelled_reading"} \subseteq Results
      /\ {"sticky", "sentinel", "fail_mode"} = Triggers
  BY DEF Providers, Notes, Places, Awaits, Results, Triggers
<1>2. SUFFICES Block
  BY BlocksKeepKeys
<1>3. ASSUME NEW p \in Providers, NEW note \in Notes, Forward(r, p, note)
      PROVE  Block
  BY <1>1, <1>3, ForwardBlocks
<1>4. ASSUME NEW result \in Results, LocalFailed(r, result)
      PROVE  Block
  BY <1>4, LocalFailedBlocks
<1>5. LookupError("local") \in Results
  BY <1>1 DEF LookupError
<1> HIDE DEF Block
<1>6. /\ \A result \in Results : Respond(r, result) => Block
      /\ \A place \in Places : Goto(r, place) => Block
      /\ \A trigger \in Triggers : Escalate(r, trigger) => Block
      /\ \A p \in Providers, note \in Notes, place \in Places : Send(r, p, note, place) => Block
  BY DEF Block
<1>7. CASE ArriveExplicit(r) \/ ArriveUnusable(r) \/ Cancel(r)
  BY <1>1, <1>3, <1>6, <1>7 DEF ArriveExplicit, ArriveUnusable, Cancel
<1>8. CASE LocalStep(r)
  <2>1. CASE CheckSticky(r) \/ AttemptErrorStatus(r) \/ AttemptOk(r) \/ AttemptSentinel(r)
             \/ AttemptClean(r)
    BY <1>1, <1>6, <2>1 DEF CheckSticky, AttemptErrorStatus, AttemptOk, AttemptSentinel, AttemptClean
  <2>2. CASE StartAttempt(r)
    BY <1>1, <1>4, <1>5, <1>6, <2>2 DEF StartAttempt
  <2>3. CASE AttemptTransportError(r) \/ AttemptErrorBody(r) \/ AttemptBodyError(r)
    BY <1>1, <1>4, <2>3 DEF AttemptTransportError, AttemptErrorBody, AttemptBodyError
  <2>4. QED
    BY <1>8, <2>1, <2>2, <2>3 DEF LocalStep
<1>9. CASE EscalateStep(r)
  <2>1. CASE TryReserve(r) \/ MarkCloud(r) \/ RecordGrant(r) \/ RecordDenial(r)
    BY <1>1, <1>6, <2>1 DEF TryReserve, MarkCloud, RecordGrant, RecordDenial
  <2>2. CASE CountGrant(r) \/ CountDenial(r)
    BY <1>1, <1>3, <2>2 DEF CountGrant, CountDenial, Fallback
  <2>3. QED
    BY <1>9, <2>1, <2>2 DEF EscalateStep
<1>10. CASE ForwardStep(r)
  BY <1>1, <1>6, <1>10
  DEF ForwardStep, ForwardTransportError, ForwardErrorStatus, ForwardErrorBody, ForwardOk
<1>11. QED
  BY <1>7, <1>8, <1>9, <1>10 DEF Progress

\* A request that enters the cascade has the key of its opening.
LEMMA EntersKeyed ==
    ASSUME DoorIInv, KeyedByOpening, NEW r \in Requests,
           NEW ms \in MessageBodies \cup {b.messages : b \in ChatBodies},
           NEW k \in ConversationKeys, Enter(r, k), Opens(r, ms),
           FirstUser(ms) # <<>> => k = Joined(FirstUser(ms))
    PROVE  KeyedByOpening'
<1>1. TypeOK /\ opening \in [Requests -> Seq(Seq(STRING))]
  BY DEF DoorIInv, DoorTypeOK
<1> DEFINE b == k # NoKey /\ \E q \in Requests : req[q].key = k /\ WentToCloud(q)
<1>2. Becomes(r, [at |-> "check_sticky", key |-> k, trigger |-> req[r].trigger,
                  sent |-> req[r].sent, result |-> req[r].result, afterCloud |-> b])
  BY <1>1, EnterFacts
<1> HIDE DEF b
<1>3. req'[r].key = k /\ \A q \in Requests \ {r} : req'[q] = req[q]
  BY <1>2 DEF Becomes
<1>4. opening'[r] = FirstUser(ms) /\ \A q \in Requests \ {r} : opening'[q] = opening[q]
  BY <1>1 DEF Opens
<1>5. FirstUser(ms) # <<>> => Joined(FirstUser(ms)) # NoKey
  BY NoKeyAssumption
<1>6. ASSUME NEW q \in Requests, opening'[q] # <<>>
      PROVE  req'[q].key = Joined(opening'[q]) /\ req'[q].key # NoKey
  <2>1. CASE q = r
    BY <1>3, <1>4, <1>5, <1>6, <2>1
  <2>2. CASE q # r
    BY <1>3, <1>4, <1>6, <2>2 DEF KeyedByOpening
  <2>3. QED
    BY <2>1, <2>2
<1>7. QED
  BY <1>6 DEF KeyedByOpening

\* Nothing has opened, and a request is keyed by its opening ever after.
LEMMA InitKeyed == DoorInit => KeyedByOpening
BY DEF DoorInit, KeyedByOpening

LEMMA NextKeyed ==
    ASSUME DoorIInv, KeyedByOpening, [DoorNext]_<<vars, doorVars>>
    PROVE  KeyedByOpening'
<1>1. TypeOK /\ ChatRequests \subseteq Requests
  BY DoorAssumption DEF DoorIInv, DoorTypeOK
<1>2. ASSUME KeysStay, opening' = opening
      PROVE  KeyedByOpening'
  BY <1>2 DEF KeysStay, KeyedByOpening
<1>3. ASSUME UNCHANGED vars
      PROVE  KeysStay
  BY <1>3 DEF vars, KeysStay
<1>4. CASE UNCHANGED <<vars, doorVars>> \/ (ReadBudget /\ UNCHANGED doorVars)
  BY <1>2, <1>4 DEF ReadBudget, vars, doorVars, KeysStay
<1>5. ASSUME NEW r \in Requests, CascadeProgress(r)
      PROVE  KeyedByOpening'
  BY <1>1, <1>2, <1>5, ProgressKeepsKeys DEF CascadeProgress, doorVars
<1>6. ASSUME NEW r \in ChatRequests, ChatCascade(r)
      PROVE  KeyedByOpening'
  <2> DEFINE ms == chat[r].body.messages
  <2>1. chat[r].body \in ChatBodies \cup {Blank} /\ InPipeline(r)
    BY <1>6 DEF DoorIInv, DoorTypeOK, ChatCascade
  <2>2. Translatable(ms) /\ chat[r].body.form = "object"
    BY <2>1 DEF InPipeline
  <2>3. chat[r].body # Blank
    <3>1. SUFFICES ASSUME chat[r].body = Blank PROVE FALSE
      OBVIOUS
    <3>2. ms = <<>>
      BY <3>1 DEF Blank
    <3>3. DOMAIN ms = {}
      BY <3>2
    <3>4. QED
      BY <2>2, <3>3 DEF Translatable
  <2>4. chat[r].body \in ChatBodies
    BY <2>1, <2>3
  <2>5. ms \in MessageBodies \cup {b.messages : b \in ChatBodies}
    BY <2>4
  <2>6. ms \in Seq([role : Roles, parts : Seq(Seq(STRING))])
    BY <2>5, DoorAssumption
  <2>7. ConversationKey(Translated(ms)) \in ConversationKeys
    BY <2>2, <2>4, KeyAssumption
  <2>8. Enter(r, ConversationKey(Translated(ms))) /\ Opens(r, ms)
    BY <1>6 DEF ChatCascade
  <2> HIDE DEF ms
  <2>9. FirstUser(ms) # <<>> => ConversationKey(Translated(ms)) = Joined(FirstUser(ms))
    BY <2>6, KeyOfOpening
  <2>10. QED
    BY <1>1, <2>5, <2>7, <2>8, <2>9, EntersKeyed
<1>7. ASSUME NEW r \in ChatRequests, ChatForward(r)
      PROVE  KeyedByOpening'
  <2>1. Forward(r, "named", "none") /\ opening' = opening
    BY <1>7 DEF ChatForward
  <2>2. "named" \in Providers /\ "none" \in Notes /\ "awaiting_forward" \in Places
        /\ {"UnknownProvider", "MissingApiKey"} \subseteq Results
    BY DEF Providers, Notes, Places, Awaits, Results
  <2>3. KeysStay
    BY <1>1, <2>1, <2>2, ForwardBlocks, BlocksKeepKeys
  <2>4. QED
    BY <1>2, <2>1, <2>3
<1>8. ASSUME NEW r \in ChatRequests, ChatProgress(r)
      PROVE  KeyedByOpening'
  <2>1. CASE Passthrough(r) \/ PassthroughAnswer(r) \/ PipelineRefused(r) \/ ChatReply(r)
             \/ ReadAnswer(r)
    BY <1>2, <1>3, <2>1 DEF Passthrough, PassthroughAnswer, PipelineRefused, ChatReply, ReadAnswer
  <2>2. QED
    BY <1>6, <1>7, <1>8, <2>1 DEF ChatProgress
<1>9. ASSUME NEW r \in Requests \ ChatRequests, MessageDoor(r)
      PROVE  KeyedByOpening'
  <2>1. CASE MessageArrive(r)
    <3>1. PICK ms \in MessageBodies : /\ Arrive(r) /\ req'[r].key = ConversationKey(ms)
                                      /\ Opens(r, ms)
      BY <2>1 DEF MessageArrive
    <3>2. PICK k \in ConversationKeys : Enter(r, k)
      BY <3>1 DEF Arrive
    <3>3. req'[r].key = k
      <4> DEFINE b == k # NoKey /\ \E q \in Requests : req[q].key = k /\ WentToCloud(q)
      <4>1. Becomes(r, [at |-> "check_sticky", key |-> k, trigger |-> req[r].trigger,
                        sent |-> req[r].sent, result |-> req[r].result, afterCloud |-> b])
        BY <1>1, <3>2, EnterFacts
      <4> HIDE DEF b
      <4>2. QED
        BY <4>1 DEF Becomes
    <3>4. ms \in Seq([role : Roles, parts : Seq(Seq(STRING))])
      BY DoorAssumption
    <3>5. FirstUser(ms) # <<>> => k = Joined(FirstUser(ms))
      BY <3>1, <3>3, <3>4, KeyOfOpening
    <3>6. QED
      BY <3>1, <3>2, <3>5, EntersKeyed
  <2>2. CASE (ArriveExplicit(r) \/ ArriveUnusable(r) \/ Cancel(r)) /\ UNCHANGED doorVars
    BY <1>1, <1>2, <2>2, ProgressKeepsKeys DEF doorVars
  <2>3. QED
    BY <1>9, <2>1, <2>2 DEF MessageDoor
<1>10. ASSUME NEW r \in ChatRequests, ChatDoor(r)
      PROVE  KeyedByOpening'
  <2>1. CASE ChatRefused(r) \/ ChatArrive(r)
    BY <1>2, <1>3, <2>1 DEF ChatRefused, ChatArrive
  <2>2. CASE ChatCancel(r)
    <3>1. opening' = opening /\ (Cancel(r) \/ UNCHANGED vars)
      BY <2>2 DEF ChatCancel
    <3>2. QED
      BY <1>1, <1>2, <1>3, <3>1, ProgressKeepsKeys
  <2>3. QED
    BY <1>10, <2>1, <2>2 DEF ChatDoor
<1>11. ASSUME NEW s \in ChatChoices, PutSettings(s)
      PROVE  KeyedByOpening'
  BY <1>2, <1>3, <1>11 DEF PutSettings
<1>12. QED
  BY <1>4, <1>5, <1>8, <1>9, <1>10, <1>11 DEF DoorNext, Serve

\* Whichever door it comes through and however its content is cut into parts,
\* a conversation has one key: that of the text it opened with.
THEOREM OneKey == DoorSpec => []OneConversationOneKey
<1>1. DoorIInv /\ KeyedByOpening /\ [DoorNext]_<<vars, doorVars>> => KeyedByOpening'
  BY NextKeyed
<1>2. KeyedByOpening => OneConversationOneKey
  BY DEF KeyedByOpening, OneConversationOneKey
<1>3. QED
  BY InitKeyed, <1>1, <1>2, DoorInvariant, PTL DEF DoorSpec
=============================================================================
