------------------------------ MODULE Cascade -------------------------------
(***************************************************************************)
(* The local-first cascade of src/proxy.rs, with the shared state of       *)
(* src/orchestrator.rs: many requests in flight at once, each a task that  *)
(* runs messages_proxy -> cascade -> local_attempt -> escalate -> forward. *)
(*                                                                         *)
(* A step ends where another task can be seen to run: at an await (the     *)
(* upstream exchange) and between two critical sections (the sticky map,   *)
(* the budget, the history).  The budget is the pool of BudgetPool, which  *)
(* CloudBudget implements.  A client may hang up at any await: the task is *)
(* dropped there and nothing after it runs.                                *)
(***************************************************************************)
EXTENDS Naturals, Sequences, FiniteSets

CONSTANTS
    Requests,   \* requests the clients send, each at most once
    ConversationKeys,   \* what conversation_key makes of the requests: digests
                \* of a first user message and, without one, NoKey
    NoKey,      \* conversation_key's None
    Cap,        \* max_cloud_requests_per_hour
    HistoryCap, \* ESCALATION_HISTORY_CAP
    Configs     \* the configurations a run starts from

Providers == {"local", "cloud", "named"}
ProviderStates == {"ok", "unknown", "nokey"}    \* in the table, absent, no API key
FailModes == {"cloud", "error"}

ASSUME ConfigAssumption ==
    Configs \subseteq [orchestrator : BOOLEAN, failMode : FailModes,
                       state : [Providers -> ProviderStates]]
ASSUME HistoryCapAssumption == HistoryCap \in Nat \ {0}
ASSUME CapAssumption == Cap \in Nat
ASSUME RequestsAssumption == IsFiniteSet(Requests)

VARIABLES
    cfg,        \* Config: is the orchestrator enabled, its fail_mode, and what
                \* a lookup of each provider finds
    req,        \* req[r]: the task of request r
    sticky,     \* Orchestrator.sticky: conversations marked Tier::Cloud
    history,    \* Orchestrator.history: the ring of records and two totals
    metrics,    \* Metrics: the counters of GET /metrics
    used,       \* the budget pool: permits out
    answer,     \* the budget pool: what each request was told, "none" before
    heard,      \* history variable: what the local tier made of the attempt of
                \* each request, whatever the cascade does about it
    log         \* history variable: every record there ever was

vars == <<cfg, req, sticky, history, metrics, used, answer, heard, log>>

Pool == INSTANCE BudgetPool WITH Callers <- Requests

Triggers == {"sentinel", "sticky", "fail_mode"}
Outcomes == {"ok", "upstream_error", "transport_error"}
Tiers == {"local", "cloud", "static"}

\* A request sent upstream: to whom, and the note appended to its system
\* prompt (the sentinel instruction, the unavailable note, or neither).
Notes == {"instruction", "unavailable", "none"}
Messages == [to : Providers, note : Notes]

\* The places of a task.  awaiting_*: headers not there yet; reading_*: the
\* body being read; the others run to the next lock without waiting.
Awaits == {"awaiting_attempt", "reading_error", "reading_attempt",
           "awaiting_forward", "reading_forward_error"}
Places == {"idle", "check_sticky", "attempt", "escalate", "reserved", "record",
           "count_grant", "count_denial", "done"} \cup Awaits

Results == {"none", "answer", "upstream_error", "transport_error",
            "UnknownProvider", "MissingApiKey", "InvalidJson", "panic",
            "cancelled_unanswered", "cancelled_reading"}

Task == [at : Places, key : ConversationKeys \cup {NoKey},
         trigger : Triggers \cup {"none"}, sent : Seq(Messages),
         result : Results, afterCloud : BOOLEAN]

Heard == {"nothing", "failed", "sentinel", "clean"}

Event == [trigger : Triggers \cup {"budget_denied"}, key : ConversationKeys \cup {NoKey}]

Histories == [records : Seq(Event), total_escalations : Nat, total_budget_denied : Nat]

Counters == [requests : [Providers -> [Outcomes -> Nat]], tiers : [Tiers -> Nat],
             escalations : [Triggers -> Nat], denied : Nat]

\* Metrics::new: every counter of the registry at zero.
ZeroMetrics ==
    [requests |-> [p \in Providers |-> [o \in Outcomes |-> 0]],
     tiers |-> [t \in Tiers |-> 0],
     escalations |-> [t \in Triggers |-> 0],
     denied |-> 0]

Init ==
    /\ cfg \in Configs
    /\ req = [r \in Requests |->
                [at |-> "idle", key |-> NoKey, trigger |-> "none", sent |-> <<>>,
                 result |-> "none", afterCloud |-> FALSE]]
    /\ sticky = {}
    /\ history = [records |-> <<>>, total_escalations |-> 0, total_budget_denied |-> 0]
    /\ metrics = ZeroMetrics
    /\ Pool!Init
    /\ heard = [r \in Requests |-> "nothing"]
    /\ log = <<>>

-----------------------------------------------------------------------------
\* What the steps are made of.

At(r, place) == req[r].at = place
Goto(r, place) == req' = [req EXCEPT ![r].at = place]
Respond(r, result) == req' = [req EXCEPT ![r].at = "done", ![r].result = result]

\* The lookups local_attempt and forward begin with.
LookupError(p) == IF cfg.state[p] = "unknown" THEN "UnknownProvider" ELSE "MissingApiKey"

Send(r, p, note, place) ==
    req' = [req EXCEPT ![r].at = place,
                       ![r].sent = Append(@, [to |-> p, note |-> note])]

\* forward: the lookups, then the request; a failed lookup answers the client.
Forward(r, p, note) ==
    IF cfg.state[p] = "ok"
      THEN Send(r, p, note, "awaiting_forward")
      ELSE Respond(r, LookupError(p))

\* Where r last sent to.
Upstream(r) == req[r].sent[Len(req[r].sent)].to

\* Mutant: an exchange that failed in transport is not counted.
ObserveAnswers(p, outcome) ==
    IF outcome = "transport_error" THEN UNCHANGED metrics
    ELSE metrics' = [metrics EXCEPT !.requests[p][outcome] = @ + 1]

\* Metrics::observe_request.
Observe(p, outcome) == metrics' = [metrics EXCEPT !.requests[p][outcome] = @ + 1]

Escalate(r, trigger) == req' = [req EXCEPT ![r].at = "escalate", ![r].trigger = trigger]

\* Mutant: a failed attempt is handled under fail_mode = cloud only.
LocalFailedCloudOnly(r, result) == cfg.failMode = "cloud" /\ Escalate(r, "fail_mode")

\* cascade's match on the outcome of the local attempt: fail_mode decides.
LocalFailed(r, result) ==
    IF cfg.failMode = "cloud" THEN Escalate(r, "fail_mode") ELSE Respond(r, result)

\* Mutant: every record counts as an escalation.
EveryTotal(trigger) == "total_escalations"

\* The total record_escalation adds to.
Total(trigger) ==
    IF trigger = "budget_denied" THEN "total_budget_denied" ELSE "total_escalations"

\* Mutant: > for == in the test of the ring.
KeptOneTooMany(records) == IF Len(records) > HistoryCap THEN Tail(records) ELSE records

\* A full ring gives up its oldest record.
Kept(records) == IF Len(records) = HistoryCap THEN Tail(records) ELSE records

\* record_escalation under the history lock: a total and the ring.
Recorded(trigger, key) ==
    LET event == [trigger |-> trigger, key |-> key]
    IN  /\ history' = [history EXCEPT !.records = Append(Kept(@), event),
                                      ![Total(trigger)] = @ + 1]
        /\ log' = Append(log, event)

HasSentTo(q, p) == \E i \in DOMAIN req[q].sent : req[q].sent[i].to = p

\* The escalation of q has come to forward: the cloud was sent a request, or
\* the lookup of its provider failed.
WentToCloud(q) ==
    \/ HasSentTo(q, "cloud")
    \/ answer[q] = "granted" /\ req[q].result \in {"UnknownProvider", "MissingApiKey"}

Hear(r, what) == heard' = [heard EXCEPT ![r] = what]

shared == <<sticky, history, used, answer, log>>    \* what no upstream step changes

-----------------------------------------------------------------------------
\* cascade begins with the conversation's key.
Enter(r, k) ==
    req' = [req EXCEPT ![r].at = "check_sticky", ![r].key = k,
                ![r].afterCloud = k # NoKey /\ \E q \in Requests :
                    req[q].key = k /\ WentToCloud(q)]

\* messages_proxy: a default route enters the cascade ...
Arrive(r) ==
    /\ At(r, "idle")
    /\ cfg.orchestrator
    /\ \E k \in ConversationKeys : Enter(r, k)
    /\ UNCHANGED <<cfg, shared, metrics, heard>>

\* ... and a route the client named, or any without an orchestrator, goes
\* straight to forward.
ArriveExplicit(r) ==
    /\ At(r, "idle")
    /\ Forward(r, "named", "none")
    /\ metrics' = [metrics EXCEPT !.tiers["static"] = @ + 1]
    /\ UNCHANGED <<cfg, shared, heard>>

\* A body that is not JSON is a 400; an array, a string, a number or a boolean
\* panics when resolve_route writes the model into it.  (A null becomes an object
\* there, and arrives like any body without messages.)
ArriveUnusable(r) ==
    /\ At(r, "idle")
    /\ \E result \in {"InvalidJson", "panic"} : Respond(r, result)
    /\ UNCHANGED <<cfg, shared, metrics, heard>>

\* cascade: one lookup in the sticky map, released before anything else.
CheckSticky(r) ==
    /\ At(r, "check_sticky")
    /\ IF req[r].key \in sticky
         THEN Escalate(r, "sticky")
         ELSE Goto(r, "attempt")
    /\ UNCHANGED <<cfg, shared, metrics, heard>>

\* The tier is counted, then local_attempt looks the provider up and sends
\* the instrumented copy; a failed lookup is a failed local attempt.
StartAttempt(r) ==
    /\ At(r, "attempt")
    /\ metrics' = [metrics EXCEPT !.tiers["local"] = @ + 1]
    /\ IF cfg.state["local"] = "ok"
         THEN Send(r, "local", "instruction", "awaiting_attempt")
         ELSE LocalFailed(r, LookupError("local"))
    /\ UNCHANGED <<cfg, shared, heard>>

\* send() fails: refused, reset, or past request_timeout_secs.
AttemptTransportError(r) ==
    /\ At(r, "awaiting_attempt")
    /\ Hear(r, "failed")
    /\ Observe("local", "transport_error")
    /\ LocalFailed(r, "transport_error")
    /\ UNCHANGED <<cfg, shared>>

\* An error status is counted before its body is read ...
AttemptErrorStatus(r) ==
    /\ At(r, "awaiting_attempt")
    /\ Hear(r, "failed")
    /\ Observe("local", "upstream_error")
    /\ Goto(r, "reading_error")
    /\ UNCHANGED <<cfg, shared>>

\* ... and however that reading ends (unwrap_or_default) the attempt failed.
AttemptErrorBody(r) ==
    /\ At(r, "reading_error")
    /\ LocalFailed(r, "upstream_error")
    /\ UNCHANGED <<cfg, shared, metrics, heard>>

\* A success status: counted ok, whatever the body then does.
AttemptOk(r) ==
    /\ At(r, "awaiting_attempt")
    /\ Observe("local", "ok")
    /\ Goto(r, "reading_attempt")
    /\ UNCHANGED <<cfg, shared, heard>>

\* The body opens with the sentinel (see SentinelScan for the verdict).
AttemptSentinel(r) ==
    /\ At(r, "reading_attempt")
    /\ Hear(r, "sentinel")
    /\ Escalate(r, "sentinel")
    /\ UNCHANGED <<cfg, shared, metrics>>

\* The verdict is clean, or the body ended before there was one.
AttemptClean(r) ==
    /\ At(r, "reading_attempt")
    /\ Hear(r, "clean")
    /\ Respond(r, "answer")
    /\ UNCHANGED <<cfg, shared, metrics>>

\* Mutant: a body that breaks off is taken for an answer.
AttemptBodyAnswers(r) ==
    /\ At(r, "reading_attempt")
    /\ Hear(r, "failed")
    /\ Respond(r, "answer")
    /\ UNCHANGED <<cfg, shared, metrics>>

\* The body breaks off before a verdict.
AttemptBodyError(r) ==
    /\ At(r, "reading_attempt")
    /\ Hear(r, "failed")
    /\ LocalFailed(r, "transport_error")
    /\ UNCHANGED <<cfg, shared, metrics>>

\* escalate: the budget is asked, under its lock ...
TryReserve(r) ==
    /\ At(r, "escalate")
    /\ Pool!Reserve(r) \/ Pool!Deny(r)
    /\ Goto(r, "reserved")
    /\ UNCHANGED <<cfg, sticky, history, metrics, heard, log>>

\* Mutant: the conversation is not marked.
NothingMarked(r) == {}

\* Mutant: a request without a key is marked too, under no key.
MarkedKeyless(r) == {req[r].key}

\* mark_cloud is called for a request that has a key.
Marked(r) == {req[r].key} \ {NoKey}

\* ... and its answer decides the branch.  A grant first makes the
\* conversation sticky ...
MarkCloud(r) ==
    /\ At(r, "reserved")
    /\ answer[r] = "granted"
    /\ sticky' = sticky \cup Marked(r)
    /\ Goto(r, "record")
    /\ UNCHANGED <<cfg, history, metrics, used, answer, heard, log>>

\* ... then goes into the history ...
RecordGrant(r) ==
    /\ At(r, "record")
    /\ Recorded(req[r].trigger, req[r].key)
    /\ Goto(r, "count_grant")
    /\ UNCHANGED <<cfg, sticky, metrics, used, answer, heard>>

\* ... and into the counters, and the ORIGINAL request goes to the cloud.
CountGrant(r) ==
    /\ At(r, "count_grant")
    /\ metrics' = [metrics EXCEPT !.escalations[req[r].trigger] = @ + 1,
                                  !.tiers["cloud"] = @ + 1]
    /\ Forward(r, "cloud", "none")
    /\ UNCHANGED <<cfg, shared, heard>>

\* A denial goes into the history under a trigger of its own ...
RecordDenial(r) ==
    /\ At(r, "reserved")
    /\ answer[r] = "denied"
    /\ Recorded("budget_denied", req[r].key)
    /\ Goto(r, "count_denial")
    /\ UNCHANGED <<cfg, sticky, metrics, used, answer, heard>>

\* Mutant: the instrumented copy is sent again instead of the original.
FallbackInstructed(r) == Forward(r, "local", "instruction")

\* The original request, with the note, goes back to the local tier.
Fallback(r) == Forward(r, "local", "unavailable")

\* Mutant: the fallback is not counted as a dispatch of its own.
DenialCountedOnce == [metrics EXCEPT !.denied = @ + 1]

\* The denial's counters: the fallback is one more dispatch to the local tier.
DenialCounted == [metrics EXCEPT !.denied = @ + 1, !.tiers["local"] = @ + 1]

\* ... and into the counters.
CountDenial(r) ==
    /\ At(r, "count_denial")
    /\ metrics' = DenialCounted
    /\ Fallback(r)
    /\ UNCHANGED <<cfg, shared, heard>>

ForwardTransportError(r) ==
    /\ At(r, "awaiting_forward")
    /\ Observe(Upstream(r), "transport_error")
    /\ Respond(r, "transport_error")
    /\ UNCHANGED <<cfg, shared, heard>>

ForwardErrorStatus(r) ==
    /\ At(r, "awaiting_forward")
    /\ Observe(Upstream(r), "upstream_error")
    /\ Goto(r, "reading_forward_error")
    /\ UNCHANGED <<cfg, shared, heard>>

ForwardErrorBody(r) ==
    /\ At(r, "reading_forward_error")
    /\ Respond(r, "upstream_error")
    /\ UNCHANGED <<cfg, shared, metrics, heard>>

\* The response is handed to the client as a stream.
ForwardOk(r) ==
    /\ At(r, "awaiting_forward")
    /\ Observe(Upstream(r), "ok")
    /\ Respond(r, "answer")
    /\ UNCHANGED <<cfg, shared, heard>>

\* The client hangs up: the server drops the task at its await.
Cancel(r) ==
    /\ req[r].at \in Awaits
    /\ Respond(r, IF req[r].at \in {"awaiting_attempt", "awaiting_forward"}
                    THEN "cancelled_unanswered" ELSE "cancelled_reading")
    /\ UNCHANGED <<cfg, shared, metrics, heard>>

\* GET /status or GET /metrics prunes the budget window.
ReadBudget ==
    /\ Pool!Refresh
    /\ UNCHANGED <<cfg, req, sticky, history, metrics, heard, log>>

-----------------------------------------------------------------------------

Begin(r) == Arrive(r) \/ ArriveExplicit(r) \/ ArriveUnusable(r)

LocalStep(r) ==
    \/ CheckSticky(r)
    \/ StartAttempt(r)
    \/ AttemptTransportError(r)
    \/ AttemptErrorStatus(r)
    \/ AttemptErrorBody(r)
    \/ AttemptOk(r)
    \/ AttemptSentinel(r)
    \/ AttemptClean(r)
    \/ AttemptBodyError(r)

EscalateStep(r) ==
    \/ TryReserve(r)
    \/ MarkCloud(r)
    \/ RecordGrant(r)
    \/ CountGrant(r)
    \/ RecordDenial(r)
    \/ CountDenial(r)

ForwardStep(r) ==
    \/ ForwardTransportError(r)
    \/ ForwardErrorStatus(r)
    \/ ForwardErrorBody(r)
    \/ ForwardOk(r)

Progress(r) == LocalStep(r) \/ EscalateStep(r) \/ ForwardStep(r)

Next ==
    \/ ReadBudget
    \/ \E r \in Requests : Begin(r) \/ Progress(r) \/ Cancel(r)

Spec == Init /\ [][Next]_vars

-----------------------------------------------------------------------------

Granted(r) == answer[r] = "granted"
Denied(r) == answer[r] = "denied"

\* The i-th exchange of r with an upstream.
Exchanges == {x \in Requests \X (1..2) : x[2] <= Len(req[x[1]].sent)}
ExchangesWith(p) == {x \in Exchanges : req[x[1]].sent[x[2]].to = p}

\* No headers came back for the last exchange of r, or for exchange x: it is in
\* flight, or was dropped so.
Unheard(r) ==
    \/ req[r].at \in {"awaiting_attempt", "awaiting_forward"}
    \/ req[r].result = "cancelled_unanswered"
Unanswered(x) == x[2] = Len(req[x[1]].sent) /\ Unheard(x[1])
AnsweredBy(p) == {x \in ExchangesWith(p) : ~Unanswered(x)}

Instructed == [to |-> "local", note |-> "instruction"]
WithNote == [to |-> "local", note |-> "unavailable"]
Copy(p) == [to |-> p, note |-> "none"]

\* Every variable has the shape of the code's data (heard: see HeardInv).
TypeOK ==
    /\ cfg \in Configs
    /\ req \in [Requests -> Task]
    /\ sticky \subseteq ConversationKeys \ {NoKey}
    /\ history \in Histories
    /\ metrics \in Counters
    /\ used \in Nat
    /\ answer \in [Requests -> Pool!Answers]
    /\ log \in Seq(Event)

\* The attempts r may have begun with, and what may follow one.
Attempts(r) == {<<>>} \cup (IF req[r].trigger = "sticky" THEN {} ELSE {<<Instructed>>})
FollowUps(r) ==
    (IF Granted(r) THEN {Copy("cloud")} ELSE {}) \cup (IF Denied(r) THEN {WithNote} ELSE {})
FollowedUp(r) == {a \o <<m>> : a \in Attempts(r), m \in FollowUps(r)}

\* What r may have sent upstream so far, if it went through the cascade or to
\* a provider its client named.
Disciplined(r) ==
    req[r].sent \in {<<Copy("named")>>} \cup Attempts(r) \cup FollowedUp(r)

\* What one request may ever send upstream, and on whose permission: the
\* local attempt at most once and first; then either one copy to the cloud, on
\* a grant, or one fallback to the local tier, on a denial, never both and
\* never anything after it.  The sentinel instruction is in the local attempt
\* and in nothing else: the cloud and the fallback get the original request.
DispatchDiscipline == \A r \in Requests : Disciplined(r)

\* A conversation whose escalation has gone on to the cloud is sticky: a request
\* of it that arrives later never goes through a local attempt again, whatever
\* became of the first (answered, failed, hung up, or never sent because the
\* cloud provider is not configured).
StickyConversation ==
    \A r \in Requests :
        req[r].afterCloud => Instructed \notin {req[r].sent[i] : i \in DOMAIN req[r].sent}

\* Every grant has a cause: the local tier answered the attempt with the
\* sentinel; or it refused, broke off or could not be asked, and fail_mode says
\* cloud; or the conversation is sticky, through a grant to another request of
\* it.  And the attempt goes to the client as the answer only if the local tier
\* did answer: no sentinel does, and no body that breaks off before a verdict.
EscalationHasCause ==
    \A r \in Requests :
        /\ Granted(r) =>
            CASE req[r].trigger = "sentinel" -> heard[r] = "sentinel"
              [] req[r].trigger = "fail_mode" ->
                    cfg.failMode = "cloud" /\ (heard[r] = "failed" \/ cfg.state["local"] # "ok")
              [] req[r].trigger = "sticky" ->
                    \E q \in Requests \ {r} : req[q].key = req[r].key /\ Granted(q)
              [] OTHER -> FALSE
        /\ req[r].result = "answer" /\ req[r].sent = <<Instructed>> => heard[r] = "clean"

\* The requests that were granted, those whose grant or denial has gone into
\* the history, and those whose counters have been updated as well.
GrantedRequests == {r \in Requests : Granted(r)}
LoggedGrants == {r \in GrantedRequests : ~At(r, "reserved") /\ ~At(r, "record")}
LoggedDenials == {r \in Requests : Denied(r) /\ ~At(r, "reserved")}
CountedGrants(t) == {r \in LoggedGrants : ~At(r, "count_grant") /\ req[r].trigger = t}
CountedDenials == {r \in LoggedDenials : ~At(r, "count_denial")}

\* The three ledgers agree with what the requests were told: the totals of
\* /status, the counters of /metrics (which each task updates later, in a
\* step of its own) and the budget, which charges no more than was granted.
LedgersAgree ==
    /\ used <= Cap
    /\ used <= Cardinality(GrantedRequests)
    /\ history.total_escalations = Cardinality(LoggedGrants)
    /\ history.total_budget_denied = Cardinality(LoggedDenials)
    /\ metrics.denied = Cardinality(CountedDenials)
    /\ \A t \in Triggers : metrics.escalations[t] = Cardinality(CountedGrants(t))

\* The ring shown by /status is the newest end of all the records there ever
\* were, at most HistoryCap of them; the totals survive eviction.
HistoryIsNewest ==
    LET n == Len(history.records)
    IN  /\ n = IF Len(log) < HistoryCap THEN Len(log) ELSE HistoryCap
        /\ history.records = SubSeq(log, Len(log) - n + 1, Len(log))
        /\ history.total_escalations + history.total_budget_denied = Len(log)

\* bb_requests_total counts every exchange that produced headers or failed,
\* exactly once under its provider, and no exchange the client abandoned
\* before that: a hang-up is in no outcome.
AnswersObservedOnce ==
    \A p \in Providers :
        metrics.requests[p]["ok"] + metrics.requests[p]["upstream_error"]
            + metrics.requests[p]["transport_error"]
        = Cardinality(AnsweredBy(p))

-----------------------------------------------------------------------------
\* The inductive invariant behind the properties above: what a task has sent,
\* been told and escalated for, by the place it is at, and what its answer has
\* left in the state it shares with the others.

Fresh == {"idle", "check_sticky", "attempt"}
Trying == {"awaiting_attempt", "reading_error", "reading_attempt"}
Escalating == {"escalate", "reserved", "record", "count_grant", "count_denial"}
Forwarding == {"awaiting_forward", "reading_forward_error"}

\* Before it escalates a task has asked nothing of the budget and has sent the
\* attempt at most; the budget answers once, and its answer is the branch.
PlaceOK(r) ==
    /\ req[r].at \in Fresh => req[r].sent = <<>> /\ req[r].trigger = "none"
    /\ At(r, "idle") => req[r].key = NoKey /\ ~req[r].afterCloud
    /\ req[r].at \in Trying => req[r].sent = <<Instructed>> /\ req[r].trigger = "none"
    /\ req[r].at \in Escalating =>
          req[r].sent \in {<<>>, <<Instructed>>} /\ req[r].trigger \in Triggers
    /\ req[r].at \in Forwarding => req[r].sent # <<>>
    /\ req[r].trigger = "none" \/ At(r, "escalate") => answer[r] = "none"
    /\ At(r, "reserved") => Granted(r) \/ Denied(r)
    /\ At(r, "record") \/ At(r, "count_grant") => Granted(r)
    /\ At(r, "count_denial") => Denied(r)
    /\ req[r].result # "none" => At(r, "done")

\* What a task has sent, spelled out.
SentOK(r) ==
    \/ req[r].sent = <<>>
    \/ req[r].sent = <<Instructed>> /\ req[r].trigger # "sticky"
    \/ req[r].sent = <<Copy("named")>> /\ req[r].trigger = "none"
    \/ Granted(r) /\ \/ req[r].sent = <<Copy("cloud")>>
                     \/ req[r].sent = <<Instructed, Copy("cloud")>> /\ req[r].trigger # "sticky"
    \/ Denied(r) /\ \/ req[r].sent = <<WithNote>>
                    \/ req[r].sent = <<Instructed, WithNote>> /\ req[r].trigger # "sticky"

\* The cause of an escalation is there from the moment the task escalates.
CauseOK(r) ==
    /\ req[r].trigger = "sentinel" => req[r].sent # <<>> /\ req[r].sent[1] = Instructed
    /\ req[r].trigger = "fail_mode" => cfg.failMode = "cloud"
    /\ req[r].trigger = "sticky" =>
          \E q \in Requests \ {r} : req[q].key = req[r].key /\ Granted(q)

\* What the local tier said is what the task goes by; what is forwarded is not
\* the attempt.
HeardOK(r) ==
    /\ req[r].trigger = "sentinel" => heard[r] = "sentinel"
    /\ At(r, "reading_error") => heard[r] = "failed"
    /\ req[r].trigger = "fail_mode" => heard[r] = "failed" \/ cfg.state["local"] # "ok"
    /\ req[r].at \in Forwarding => req[r].sent # <<Instructed>>
    /\ req[r].result = "answer" /\ req[r].sent = <<Instructed>> => heard[r] = "clean"

\* A task with a grant marks its conversation before it does anything else,
\* the cloud request included; a task that came after such a request finds its
\* conversation marked.
MarkOK(r) ==
    /\ Granted(r) /\ ~At(r, "reserved") /\ req[r].key # NoKey => req[r].key \in sticky
    /\ HasSentTo(r, "cloud") => Granted(r) /\ ~At(r, "reserved")
    /\ req[r].afterCloud =>
          req[r].key \in sticky /\ (At(r, "check_sticky") \/ req[r].trigger = "sticky")

\* Only a grant makes a conversation sticky.
StickyByGrant ==
    \A k \in sticky : \E q \in Requests : req[q].key = k /\ Granted(q)

HeardInv == heard \in [Requests -> Heard] /\ \A r \in Requests : HeardOK(r)

TaskInv == \A r \in Requests : PlaceOK(r) /\ SentOK(r) /\ CauseOK(r) /\ MarkOK(r)

IInv == TypeOK /\ TaskInv /\ StickyByGrant
=============================================================================
