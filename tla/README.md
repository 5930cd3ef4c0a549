# Big Brother: TLA+ models and proofs

TLA+ models of the *Big Brother* proxy (`src/src/*.rs`) and of its document
export sidecar (`src/docexport/app.py`), the TLC configurations that check them
on small instances, and TLAPS proofs for every value of the parameters: of the
hourly cloud budget, the cascade and its ledgers, `/status` and the two front
doors, the chat settings and the panel that edits them, the sentinel scanner,
the translation of chat streams, the routing of `/model` commands, and the
export sidecar.

The proxy speaks the Anthropic Messages API to its clients. By default it tries
a local model first, with an instruction to answer with a *sentinel* when it
needs help; it escalates to a cloud model when the sentinel comes, when the
local tier fails and `fail_mode = "cloud"`, or when the conversation was
escalated before, as long as an hourly budget of cloud calls allows. A second,
OpenAI-style front door with its own runtime settings leads to the same cascade.

Paths below are relative to the repository (`src/...` is the source tree).

## 1. Inventory

| component | state | operations | talks to |
|---|---|---|---|
| **Cloud budget** `src/src/orchestrator.rs` | `cloud_calls`: a mutex around a deque of instants | `try_reserve_cloud_call`, `budget_used` (each prunes) | called by the cascade, `/status`, `/metrics` |
| **Cascade** `src/src/proxy.rs` | none of its own: one task per request | `messages_proxy`, `cascade`, `local_attempt`, `escalate`, `forward` | the three locks of the orchestrator, the counters, the upstreams (HTTP) |
| **Sticky map and history** `src/src/orchestrator.rs` | `sticky`, `history` (a ring of 500 and two totals), each behind its mutex | `sticky_tier`, `mark_cloud`, `conversation_key`, `record_escalation`, `status` | the cascade, `/status` |
| **Metrics** `src/src/metrics.rs` | atomic counters by provider/outcome, tier, trigger | `observe_request`, increments, rendering | every handler |
| **Sentinel scanner** `src/src/stream.rs` | one per local answer: raw bytes, open line, text so far, verdict | `push`, `check_sentinel`, `json_first_text` | fed by `local_attempt` |
| **Routing and `/model` commands** `src/src/proxy.rs`, `src/src/model_command.rs` | none in the proxy; the client resends its session each turn | `resolve_route`, `parse_and_strip` | first thing `messages_proxy` does |
| **Chat settings** `src/src/chat_settings.rs`, `chat_proxy.rs` | an `RwLock` around the settings, and a JSON file | `load`, `get`, `set`, `put_settings` | the panel, `chat_completions` |
| **Chat stream translation** `src/src/openai_compat.rs`, `chat_proxy.rs` | one `SseTranslator` per answer | `push`, `finish`, the chained stream of `translate_response` | the upstream's body, the client's body |
| **Chat front door** `src/src/chat_proxy.rs`, `openai_compat.rs` | none | `chat_completions`: passthrough, cascade or pinned target; the translation in (`openai_to_anthropic`) and out (`translate_response`) | settings, cascade, forward, the passthrough endpoint |
| **Document export sidecar** `src/docexport/app.py` | `_EXPORTS` (a dict in memory) and the files of `EXPORT_DIR` | `convert`, `download`, `_prune_expired`, each in a pool thread | a client of its own, pandoc, WeasyPrint |
| **Status and metrics endpoints** `src/src/proxy.rs` | none | `GET /status`, `GET /metrics` | the three locks, one after another; the counters |
| **Status panel** `src/src/panel.html` | the two controls of the chat card, in a browser | load once, save on every change, reload when a save failed; poll `/status` | `GET` and `PUT /chat/settings`, `GET /status` |
| **Configuration, errors, startup, deployment** | read once | `config.rs`, `lib.rs`, `main.rs`, `error.rs`, containers | gives the constants |

What is hard here:

* *Interleaving.* Every request is a task; the budget, the sticky map and the
  history have a lock each, and a request takes them one after another, with
  upstream exchanges that last seconds in between. The clock is read before the
  budget's lock is taken, and one `/status` reply is put together from three
  locks. The settings a chat request is served under may be replaced while it
  runs. The export sidecar's threads share an unlocked dict.
* *Failure.* Any upstream exchange can fail before its headers, answer an error
  status, or break off in its body; a client can hang up at any await, and the
  task is dropped there. The settings file is truncated, then written; the
  process may die in between.
* *Ordering and chunking.* A streaming answer is cut into chunks anywhere, also
  inside a character, and is judged (scanner) and rewritten (translator) piece
  by piece. The panel's fetches overlap, and the last to answer decides what it shows.
* *Histories.* The client resends its conversation, old commands included; the
  sticky map makes an old escalation decide later requests; reservations age.

What makes each part correct:

* budget: never more than the cap within an hour, no denial on account of an
  expired reservation, however the tasks interleave;
* cascade: what is sent upstream, in what order, on whose permission; escalated
  conversations do not go through a local attempt again; totals, counters and
  budget agree; every request ends;
* status: a reply never shows cloud calls that no escalation explains;
* front door: a chat request is served under one choice from first to last, and
  one conversation has one key at either door;
* scanner: no false escalation, no missed sentinel, no needless holding back;
* routing: stripping costs the conversation the command and nothing else; the first
  command governs the session; what was sent in one turn is sent again in the next;
* settings: memory is always one whole accepted choice, unless a torn file is read
  back; an accepted edit survives;
* panel: once its exchanges are over, the card shows the settings in force;
* translator: the text arrives in order and whole, `[DONE]` comes once;
* sidecar: a link works until it expires and not after, and no file is leaked.

`PROJECT.json` lists every hazard with the line where it bites and the
properties that are about it, and the hazards no property covers, with the reason.

## 2. Modules

```
BudgetPool  <--refines--  CloudBudget  <--  CloudBudgetProofs (TLAPS)
    ^
    | INSTANCE
 Cascade  <--EXTENDS--  Status
    ^
    | EXTENDS
 FrontDoor  --INSTANCE-->  SettingsRegister  <--refines--  ChatState
                                                              ^
                                                              | EXTENDS
                                                            Panel
 ChunkedBytes  <--  SentinelScan, ChatStream
 RouteResolution      DocExport

Proofs (TLAPS), each EXTENDing the module it is about:
 CascadeProofs (Status and FrontDoor, and with them Cascade)
 SettingsProofs (Panel, and with it ChatState)
 ChunkedBytesProofs (ChunkedBytes)  <--EXTENDS--  SentinelScanProofs (SentinelScan), ChatStreamProofs (ChatStream)
 CloudBudgetProofs (CloudBudget)      DocExportProofs (DocExport)      RouteProofs (RouteResolution)
 CascadeProofs and RouteProofs INSTANCE ChunkedBytesProofs for its lemmas about induction
```

Each module `X` that is run has a module `MCX` that extends it and gives values
to the constants TLC needs (`Cascade` is run through `Status` and `FrontDoor`). Definitions under a comment `Mutant:` are not part of the
models: each is a plausible wrong version of the definition that follows it, and
is kept to show that the properties notice.

**`CloudBudget`** - the sliding window, at the level of the deque. `Sample` is
the clock read of `try_reserve_cloud_call` and `budget_used`, made *before* the
lock; `Grant`, `Deny` and `Report` are the critical sections, each with the
whole `prune_window` loop in it (`PruneStopsAt` says how far the loop gets,
`Kept` what it leaves). Because the read and the lock are apart, the deque need
not be sorted, and pruning stops at the first entry that is still fresh. `Tick`
lets time pass, at most `MaxStall` ticks between a caller's read and its lock.
`granted` is a history variable.

**`BudgetPool`** - the abstract promise: a pool of `Cap` permits, handed out
when there is room and denied only at the cap. `CloudBudget` implements it
(`PoolSpec`: `used` is the length of the deque), and `Cascade` is built on it,
so the cascade's model has no clock.

**`Cascade`** - `messages_proxy` down to `forward`, any number of tasks.
A step ends at an await, or between two critical sections: `CheckSticky`,
`TryReserve`, `MarkCloud`, `RecordGrant`/`RecordDenial` and
`CountGrant`/`CountDenial` are separate because another task can be seen to run
between them. `StartAttempt` and `Forward` contain the provider lookups and their
early returns. Headers and body are separate steps (`AttemptErrorStatus`, then
`AttemptErrorBody`), because the exchange is counted between them. `Cancel` is
the client hanging up: hyper drops the future at its await. A body's verdict is
a choice here; how it comes about is `SentinelScan`. `ArriveUnusable` is a body
that is not JSON (a 400), or JSON that cannot be given a member (a number, a
string, an array; `null` becomes an object), on which the handler panics
when it writes the model into it. The budget is
`Pool!Reserve`/`Pool!Deny`, and `ReadBudget` is `GET /status` or `/metrics`.
`log`, `heard` (what the local tier made of an attempt) and `afterCloud` (the
request came after an escalation of its conversation had reached `forward`, whether
or not the cloud's lookup succeeded) are history variables.

**`Status`** - `GET /status` beside those tasks. `ReadLedger` is one critical
section of `Orchestrator::status`, in the order of the code (`Order`): budget,
sticky map, history. `page` is the reply so far; when the history has been read
it goes out, and the endpoint may be asked again.

**`FrontDoor`** - both front doors over one `Cascade`, whose actions are used as
they are. `ChatArrive` reads the settings once and counts the mode;
`Passthrough`, `ChatCascade` and `ChatForward` are the three ways
`chat_completions` can go, `ChatRefused` and `PipelineRefused` its early returns,
`ChatReply` and `ReadAnswer` the two halves of `translate_response` (a stream is
handed on at once, a JSON body is awaited). `PutSettings` may come at any
moment. Messages are roles and text parts, so that what the translation does to
a conversation's first message, and the key `conversation_key` makes of it, can
be compared with the other door. `opening` is a history variable.

**`SettingsRegister`** - what the settings promise to `FrontDoor`: a register
that a PUT sets at once, and a restart sets to a value that was there before. A
write that fails over another's bytes may leave the file `torn` (`Persist`), and a
restart then takes any value at all. `FrontDoor` is one life of the process, which
starts with any choice, refused ones included.

**`ChunkedBytes`** - what the scanner and the translator both do with a stream.
An event is one line (`Line`) of byte symbols, one character (`W`) taking two
bytes; `Alphabet` is the characters the model's texts may be made of. `Decode` is
`from_utf8_lossy` of one chunk, and `Drained` the lines it ends and what is
pending behind them, `Feed` taking one symbol at a time. `Stands` says where a
reader is in a stream of events; the invariants of both readers are made of it.

**`SentinelScan`** - the scanner over every way to cut a stream into chunks.
`Push` is one `SseTextScanner::push`: decode, drain the complete lines, absorb
their events (`Absorbed`), judge. `ReadChunk` and `StreamEnds` are the loop of `local_attempt` around it,
`ReadJson` its branch for JSON answers.

**`ChatStream`** - the same for `SseTranslator`: `Push` writes OpenAI chunks
for the events of complete lines (`Absorbed`); `StreamEnds` is `finish` chained behind the
upstream's body, `StreamBreaks` the upstream's error passed through in its place.

**`RouteResolution`** - `resolve_route` and `parse_and_strip` over the turns of
a session, messages of one text or of any number of parts. Texts are sequences of
words and white space, and words may run together (`groq/llama-x` is `groq/llama`
and `-x`). So the difference between the token rebuilt with one space and the text
as typed is in the model, and so is `text.replace`, which removes every copy of the
token, in mid-word as well (`Without`).

**`ChatState`** - the settings in detail: `Receive` validates, `Apply` writes
memory under the lock, `Open` and `Write` are the two halves of `std::fs::write`,
after the lock was let go. `WriteFails` leaves any part of the text; `Crash` and
`Restart` may come between any two steps. The handler has no await, so a hang-up
does not stop it. What the texts are is a parameter: `Text[s]` is the text written
for a choice, `Layouts[s]` every text that reads as it (`load` parses whatever an
editor left), and texts share bytes as JSON texts do, so a part of one over the rest
of another may read as a third choice. `load` does not validate, so it may also be
one `put_settings` refuses. `torn` and `found` are history variables. The module
implements the register (`RegisterSpec`): `memory` is its value, and `EverApplied`
what a restart may bring back.

**`Panel`** - the chat card of the browser page over `ChatState`: `OpenPage`
loads the settings, `Save` sends both controls when one was changed, `Saved`
renders the reply, and `SaveFails` is the `catch` of `saveChatSettings`, which loads
them again (`LoadServed`, `Loads`, `LoadFails`). A fetch may fail at any moment: its
PUT is then still on the way (`wire`) and may arrive after the reload, or never
(`LostOnTheWay`), or it is in its handler, or was answered already. Fetches run on
connections of their own: the steps of two exchanges come in any order. The PUTs of
`ChatState` are the page's and another client's. `fresh` of an exchange and `stale`
are history: whether the settings have changed since the reply was written, the one
on its way and the one rendered last.

**`DocExport`** - the sidecar's threads: `PruneSnapshot`, `PruneSkip`,
`PruneUnlink` and `PruneDel` are the loop of `_prune_expired` (a copy of the
dict's items; each is passed over if it is fresh, else unlinked and its entry
deleted), `Render`/`Register`/`Stat` the rest of `convert`,
`Get`/`Exists`/`SendFile` the rest of `download`. `Restart` loses threads and
dict and keeps the files; `boot` is the process a thread began in.

## 3. What is checked

| run | instance | distinct states | shows |
|---|---|---|---|
| `cloud_budget` | 2 callers, cap 2, hour of 3 ticks, stall 1, 6 ticks | 237 000 | `WindowCap`, `BudgetNeverExceeded`, the inductive invariant `IInv`, `NothingStaleCounted` (action property), refinement of `BudgetPool` |
| `cascade_race` | 3 requests of one conversation, 1 permit, ring of 2, cloud with or without a key, one `/status` at a time | 704 000 | `DispatchDiscipline`, `StickyConversation`, `LedgersAgree`, `HistoryIsNewest`, `StatusNeverAhead` (action property) |
| `front_door` | 1 request at each door, 5 configurations, 3 choices and no chat section, fairness | 101 000 | `ServedUnderOneChoice`, `EscalationHasCause`, `AnswersObservedOnce`, `OneConversationOneKey`, `TierCountsAllButChatTargets`, and the liveness property `EveryCallEnds` |
| `chat_state` | 2 PUTs, of a page or one of another client, 6 choices whose texts share bytes, 1 crash | 987 000 | `LonePutSurvives`, `FailedPutIsApplied`, `PanelTellsTheTruth`, refinement of `SettingsRegister` |
| `sentinel_scan` | answers of up to 3 events, texts of up to 2 characters, any chunks | 9 300 | `NoFalseEscalation`, `SentinelIsFound`, `HeldOnlyWhileOpen`, `BytesUntouched` |
| `chat_stream` | answers of up to 6 events, any chunks | 3 300 | `TextOfCompleteLines`, `DoneOnce` |
| `route_resolution` | 2 turns, 13 user messages, 2 answers, any model field | 6 700 | `NothingElseStripped`, `FirstCommandGoverns`, `TurnsExtend` (the last two action properties) |
| `doc_export` | 3 requests, retention 2, 3 ticks, 1 restart | 816 000 | `LinksWorkUntilExpiry`, `NoFileLeaks`, `EntriesHaveFiles`, `ServedIsFresh` |

Each run but `cascade_race` also checks its type invariant (`TypeOK`, `DoorTypeOK` and
`PanelTypeOK`; `DoorTypeOK` includes that of `Cascade`).

**Why the bounds are enough.** The budget's clock runs for two whole windows
with a stall of one tick, so reservations out of order expire and are pruned in
every position of a full deque. In `Cascade` a request is affected by others
only through the sticky map, the pool and the history; one permit and two
requests give every grant/denial order, and the third lets one request see the
mark or the record of another between two steps of a third; a ring of two with
three records evicts. The configurations are both fail modes with everything in
place and each lookup that can fail where its failure changes what comes next.
In the scanner, a sentinel of two characters, a stream of up to three events and
unbounded chunks (a chunk may be as long as the longest stream) reach every
verdict with every place of the boundary; longer texts only repeat a state of
the automaton. At the two doors, one request each is enough for a chat request
and a message of one conversation to meet in the sticky map and the pool; that
the choice changes under a chat request needs no second one, as a PUT may come
between any two of its steps. The settings' texts are cut
where a part of one laid over another reads as a third, which `put_settings` refuses
(`casc` of `cascade` over `groq/m` reads as `casc/m`), and an editor may have left a
line break behind one. Two PUTs (`TwoPuts`) are enough for that, and for everything
two fetches of a page can do to each other: two saves overlap in every way, each with
the reload behind it, or one is disturbed by the other client's PUT. In
`RouteResolution` the second turn resends the first with a command before, behind or
in neither; the messages have commands in strings and parts, followed by words, run
together with them, and repeated in mid-sentence and in mid-word. In `DocExport` two threads prune one entry while a
third enters or serves one.

The inductive invariants of section 4 were checked with TLC on the same instances
before they were proved; `cloud_budget` still checks its own.

**Fairness.** Only `front_door` uses it: `DoorSpec` has `WF(Serve(r))` for each
request. `Serve` is what the runtime does with a task that can run (tokio polls
it) and the end of an exchange with an upstream or the passthrough endpoint,
which the client built in `src/src/lib.rs:24` forces by `request_timeout_secs`,
headers and body together. It is one fairness per task, not one per action: a
task is in one place at a time, and which way its exchange ends is never assumed.
There is none on arrivals (nobody has to send), on hang-ups or on PUTs.

**Deadlock.** `CloudBudget`, `Status`, `FrontDoor` and `RouteResolution` are
checked for it; it cannot occur there, as the gauge can always be read and the
client can always choose a model, so what says that no request is stuck is
`EveryCallEnds`. The other modules stop where their work is used up, bounded
requests or an answer read to its end, and say `CHECK_DEADLOCK FALSE`.

### Where code and documentation part

Four runs each check what the repository says of the program and find it violated:

| run | property | what happens |
|---|---|---|
| `concurrent_puts` | `AcceptedEditsPersist` | `ChatState::set` writes the file after it lets the lock go: two PUTs, both answered 200, are applied in one order and written in the other, or their bytes are laid over each other. A restart then brings back the older choice, or the defaults. |
| `split_event` | `SplitEventsReassemble` | `SseTranslator::push` decodes each chunk by itself: a character cut by a chunk boundary reaches the client as replacement characters. |
| `command_seen` | `UpstreamNeverSeesCommand` | A `/model` command typed with two spaces is obeyed and not found in the text; a second command of the resent session is not stripped at all. |
| `expired_download` | `DownloadsAreFoundOrNot` | Two threads prune the same expired export, the second `del` raises `KeyError`, and the download is answered 500 where the sidecar's README promises 404. |

Met while modelling, visible in the models, without a run of their own:

* `DispatchDiscipline` allows a sticky conversation the fallback: when the
  budget is used up it goes back to the local tier, although
  `src/docs/PRODUCT_BRIEF.md:85` says it stays with the stronger model.
* An unknown local provider escalates under `fail_mode = "cloud"`, although
  `src/src/lib.rs:58` says unknown providers fail with a 400 (`StartAttempt`).
* The local tier is counted before the lookup, so `bb_tier_requests_total` is a
  count of dispatches (`src/docs/DEVELOPER_GUIDE.md:280`) only while the
  provider is configured; and what the chat door forwards to a pinned target,
  or to the default provider without an orchestrator, is in no tier at all.
  Hence the conditions of `TierCountsAllButChatTargets`.
* `src/docs/DEVELOPER_GUIDE.md:132` says that errors of chat routes are always
  OpenAI-shaped. `PassthroughAnswer` hands an error of the endpoint on as it is
  (`verbatim`), and a body that is a JSON array, string, number or boolean panics in `passthrough`
  (`src/src/chat_proxy.rs:160`), as it does at the messages door
  (`src/src/proxy.rs:181`): the connection is closed without a reply.
* `src/docs/DEVELOPER_GUIDE.md:127` calls `PUT /chat/settings` the only mutating
  endpoint; `GET /status` and `GET /metrics` prune the budget's window
  (`ReadLedger`, `ReadBudget`), which no property can tell from not pruning.
* A target that put_settings accepts and the dropdown does not offer (a model
  that is not its provider's default, put by another client or found in the state
  file) leaves the card at `cascade`; the user's next toggle of the pipeline
  saves that in its place. Hence what `Shows` says of such a target.
* A card can be out of date with no other client about. The replies to two saves of
  the page may cross on their way, and a PUT whose fetch failed in the browser may be
  applied after the reload that followed (`src/src/panel.html:197`). Hence `~stale`
  in `PanelTellsTheTruth`, which is about the cards of which the last reply was
  overtaken by no change of the settings.
* After two writers met in the state file and one of them failed part of the way, a
  restart may come up with a choice nobody put, or one `put_settings` refuses:
  `load` takes whatever parses (`src/src/chat_settings.rs:38`). Hence `torn` in
  `SettingsRegister`.
* The comment `src/src/model_command.rs:135` says that any text behind the command is
  kept; `text.replace` takes further copies of the token out of that text, also from
  the middle of words. Hence `Spared` in `NothingElseStripped`.
* Nothing checks that the default provider of the configuration is in its table; if it
  is not, every request the field does not route elsewhere goes to an unknown provider
  and gets a 400. `RouteResolution` leaves it open (`TableAssumption`).
* The card is loaded once: after a failed load it is hidden until the page is
  opened again, while `/status` goes on being polled (`LoadFails`).
* White space of two bytes before the sentinel, cut by a chunk boundary, hides
  the sentinel; hence the `~split` of `SentinelIsFound`
  (`src/src/stream.rs:37` says detection is unaffected).
* `json_first_text` takes the first *text* block; a block of another kind before
  it rules the sentinel out in a stream only
  (`src/docs/DEVELOPER_GUIDE.md:111`).
* A crash between truncation and write loses a choice accepted long before;
  `LonePutSurvives` is therefore about the last PUT
  (`src/src/chat_settings.rs:4`).
* Exported files survive a restart of the container and are then nobody's;
  hence the last case of `NoFileLeaks`, which excepts the files of the processes
  before the running one (`src/docexport/README.md:161`).

## 4. What is proved

Each theorem is about the specification a run checks, for every value of its
constants: any number of callers, requests and PUTs, any budget and ring, any
choice, body, configuration and size of a text, any number of crashes, any
sentinel, answer and cut into chunks, any session, any retention.

| module | theorem | states |
|---|---|---|
| `CloudBudgetProofs` | `Invariance` | `Spec => []IInv` |
| | `TypeCorrect`, `BudgetIsACap`, `WindowIsCapped` | `[]TypeOK`, `[]BudgetNeverExceeded`, `[]WindowCap` |
| | `NothingStaleIsCounted` | `NothingStaleCounted` (an action property) |
| | `ImplementsPool` | `PoolSpec`: the deque implements the pool of permits |
| `CascadeProofs` | `CascadeInvariant`, `CascadeTyped`, `HeardAlways` | `Spec => []IInv`, `[]TypeOK`, `[]HeardInv` |
| | `Discipline`, `Causes`, `Stickiness` | `[]DispatchDiscipline`, `[]EscalationHasCause`, `[]StickyConversation` |
| | `Newest` | `[]HistoryIsNewest` |
| | `LedgersHold`, `ObservedOnce` | `[]LedgersAgree`, `[]AnswersObservedOnce` |
| | `StatusInvariant`, `NeverAhead` | `StatusSpec => []StatusIInv`, `StatusNeverAhead` (an action property) |
| | `DoorInvariant`, `DoorTyped` | `DoorSpec => []DoorIInv`, `[]DoorTypeOK` |
| | `OneChoice` | `[]ServedUnderOneChoice` |
| | `DoorLedgersHold`, `DoorObservedOnce`, `DoorCauses` | `[]LedgersAgree`, `[]AnswersObservedOnce`, `[]EscalationHasCause`, now with both doors at work |
| | `TiersAreCounted` | `[]TierCountsAllButChatTargets` |
| | `OneKey` | `[]OneConversationOneKey` |
| `SettingsProofs` | `StateInvariant`, `StateTyped` | `Spec => []IInv`, `[]TypeOK` |
| | `ImplementsRegister` | `RegisterSpec`: lock, file and crashes implement the register `FrontDoor` reads |
| | `LoneSurvives`, `FailedApplied` | `[]LonePutSurvives`, `[]FailedPutIsApplied` |
| | `PanelIsAClient`, `PanelImplementsRegister` | `PanelSpec => Spec`, and with it `RegisterSpec`, with the page in front |
| | `PanelInvariant`, `PanelTyped` | `PanelSpec => []PanelIInv`, `[]PanelTypeOK` |
| | `PanelTruthful`, `PanelLoneSurvives` | `[]PanelTellsTheTruth`, `[](LonePutSurvives /\ FailedPutIsApplied)` |
| `SentinelScanProofs` | `ScanInvariant`, `ScanTyped` | `Spec => []IInv`, `[]TypeOK` |
| | `EscalationIsMeant`, `SentinelNeverMissed` | `[]NoFalseEscalation`, `[]SentinelIsFound` |
| | `HeldWhileOpen`, `BytesVerbatim` | `[]HeldOnlyWhileOpen`, `[]BytesUntouched` |
| `ChatStreamProofs` | `StreamInvariant`, `StreamTyped` | `Spec => []IInv`, `[]TypeOK` |
| | `TextArrives`, `DoneOnceOnly` | `[]TextOfCompleteLines`, `[]DoneOnce` |
| `RouteProofs` | `RouteInvariant`, `NothingEmptySent` | `Spec => []IInv`, `[]TypeOK` |
| | `FirstGoverns`, `HistoryKept` | `FirstCommandGoverns`, `TurnsExtend` (action properties) |
| | `NothingLost` | `[]NothingElseStripped` |
| `DocExportProofs` | `ExportInvariant`, `ExportTyped` | `Spec => []IInv`, `[]TypeOK` |
| | `LinksWork`, `ServedFresh` | `[]LinksWorkUntilExpiry`, and `[]ServedIsFresh` if `Retention > 0` |
| | `EntriesFiled`, `NothingLeaks` | `[]EntriesHaveFiles`, `[]NoFileLeaks` |

### Assumptions

They are the named `ASSUME`s of the modules, and TLC evaluates them on every run:

* `CloudBudget`: `Cap`, `MaxStall` and `MaxTime` are naturals, `Hour` a positive
  one. `MaxTime` bounds the clock for TLC; as it is arbitrary, the theorems hold
  for every finite stretch of time.
* `Cascade`: `Cap` is a natural (`max_cloud_requests_per_hour` is unsigned),
  `HistoryCap` a positive one (a constant of the code, 500), configurations are
  of the shape of `Config`. `Requests` is finite: as it is arbitrary, this is
  every finite stretch of a process's life, and without it the ledgers, which
  count requests, would mean nothing.
* `ChatState`: the defaults are settings, accepted choices are settings; no sequence
  of bytes reads as two choices, and the text written for a choice reads as it
  (`LayoutAssumption`); a proper beginning of a text written reads as nothing, and
  what begins with a whole one reads as that choice or as nothing (`BraceAssumption`:
  the text is an object and ends with the brace that closes it); `NoPut` is no PUT.
  Nothing is assumed of a part of one text in front of a part of another.
* `FrontDoor`: chat requests are requests; choices and messages have the shape
  the code parses them to (`DoorAssumption`); `ConversationKeys` has the key of
  every body that gets through the translation (`KeyAssumption`: the constant is
  the set of what `conversation_key` returns, so it lacks nothing the door uses), and
  none of them is the mark of a request that has no key yet (`NoKeyAssumption`).
* `Panel`: the page's PUTs are PUTs of `ChatState`; a setting is the two controls, the
  page offers some of the targets there are, and `cascade` is among them
  (`PanelAssumption`).
* `ChunkedBytes`: characters are none of the other symbols of the wire
  (`AlphabetAssumption`). `SentinelScan` and `ChatStream`: answers are made of
  events of the form of `Event` (`StreamAssumption`), and a chunk may be longer than
  nothing (`ChunkAssumption`; `MaxChunk` is arbitrary).
* `SentinelScan`: the sentinel is not empty, begins with a character that
  `trim_start` keeps and has no U+FFFD in it (`SentinelAssumption`): the default is
  `<<ESCALATE>>`; one that begins with white space can never be found, and one with
  a replacement character in it could be produced by a cut.
* `RouteResolution`: `Prefix` cuts a qualified name to a bare one, names of providers
  are bare, and a bare name is neither white space nor `/model`; the default provider
  need not be configured. The messages the client sends and the answers it gets are not
  empty (`MessageAssumption`: the API takes no empty ones), and the word behind a
  leading `/model ` is spelt so that only its first symbol tells whether it has a slash
  in it (`Legible`; what other words are made of, and what they run together with, is
  left open).
* `DocExport`: `Retention`, `MaxTime` and `MaxRestarts` are naturals; the last two
  bound TLC and are arbitrary. `ServedFresh` asks for a retention of at least one
  tick: with `RETENTION_SECONDS=0` an export has expired when it is made, and one
  entered after a download has pruned is served by it all the same.

### The arguments

*Budget.* `WindowCap` (any `Cap + 1` consecutive grants span an hour, less one
stall) speaks of the history of grants, and the code decides by the deque. `IInv`
ties the two together: `DequeIsRecentGrants` (the deque is the recent end of the
history), `PrunedAreOld` (what has left it was granted at least an hour ago, less
the stall), `StampsAreRecent` (an instant in the deque is at most one stall older
than its grant, and grants are in the order of time) and `SamplesAreRecent` (so
is one a caller still holds). A new grant is then made with at most `Cap - 1`
entries left, so the grant `Cap` places before it has been pruned and is old.
The converse, that nothing stale is counted (`NothingStaleCounted`), uses that
pruning stops at an entry that is fresh *for the instant of the pruning caller*,
and that all later entries were granted no earlier than it.

*Cascade.* `DispatchDiscipline` says what a task may have sent, not where it is
when it sends; alone it does not survive `StartAttempt`, which would send a
second attempt from a place that had already sent one. `IInv` says for each place
what has been sent and answered (`PlaceOK`, `SentOK`), that the cause of an
escalation is there from the moment the task escalates (`CauseOK`), and what the
answer has left in the shared state (`MarkOK`, `StickyByGrant`). Stickiness needs
the order of the code: a task marks its conversation *before* anything reaches
the cloud, so whoever arrives after a cloud call of its conversation finds the
mark, and the map never loses one. That a sticky escalation is caused by *another*
request is `StickyByGrant`: only a grant marks, and the task that finds the mark
has not been granted yet. What the local tier said is not in `IInv`: `HeardInv`, proved
from it, says of each task that it goes by what it heard (`HeardOK`), and that what a
task forwards is never the attempt itself; with it `EscalationHasCause` holds in both
directions, that a grant has its cause and that an attempt handed on as the answer was one.

*Ledgers.* The totals, the counters and the budget are updated in critical
sections of their own, so they are never compared with each other but with sets
of tasks (`LoggedGrants`, `CountedGrants(t)`, ...), each step moving one task into
at most one set. `QuietMove` is a step no ledger takes note of; `TryReserve`,
`RecordGrant`/`RecordDenial` and `CountGrant`/`CountDenial` are the others. For
`AnswersObservedOnce` a step either leaves the exchanges alone (`Stays`), sends
(`Sends`) or hears an answer and counts it (`Hears`, lemma `Kinds`). The ring is a
sequence: appending to it and dropping its oldest entry keeps it the newest end
of the log (`RingKept`).

*`/status`.* A reply is read under three locks and is no snapshot. Each number is
within the grants there were when it was read, grants are never taken back
(`PageBehind`), and the history, read last, lacks only the grants still on their
way (`GrantsExplained`).

*Doors.* Each step at a door is a step of `Cascade` or one of the two ways a chat
request is sent in (`DoorStep`), and those two keep `IInv` as well. What is new is
where a chat request may be: nowhere in the pipeline before its handler has acted
on its choice or if it is passed through (`DoorPlaceOK`), and on the road of that
choice afterwards (`RoadOK`). The settings do not occur in either, which is why a
PUT at any moment disturbs neither. The tiers are counted along with the
dispatches (`Dispatches`), and the chat door's own forwards are the one kind of
dispatch that counts none.

*One key.* A request gets its key where it enters the pipeline and keeps it, so
`KeyedByOpening` says of every key in use that it is of the text its conversation
opened with. At the Anthropic door that is how the key is made. At the chat door the
key is made of a translation, a loop over the messages that turns those of users and
assistants and leaves the others out: as long as the first user message has not come up
no message in the result is a user's, and from there on it is the first one of the
result (`FirstUserTranslated`). It has one part by then, the joined text, and joining
one part gives that part (`OnePart`).

*Settings.* Concurrent writers leave mixtures of bytes in the file, and a restart
reads what is there. `ReadsAsApplied` says that a file that is not torn reads as
nothing, or as a choice that was applied. It is inductive because every write starts
at offset 0: a file that is not torn is empty, a part of one text, or one whole text
with others' bytes behind it (`WrittenReads`). A part of a text lacks its brace and
reads as nothing; a whole text with anything behind it reads as that choice or as
nothing, as nothing but white space may follow the brace. Only a write that fails over
what another writer has written since the truncation can make a third choice, and that
is what `torn` marks. The next truncation or whole write unmarks it.
`LonePutSurvives` needs that a PUT that runs alone owns file and memory as far as it
has got (`AloneOK`); it has no exception for torn files, as a PUT that runs alone
writes into a file it has truncated itself.

*Panel.* Every step of the page is a step of `ChatState` or leaves it alone, so
what is proved of the settings holds with the page in front (`PanelIsAClient`).
That the card tells the truth is about the order of fetches, of which nothing is known:
a save the page has given up may be applied at any later moment. What holds at every
moment is `FreshIsTrue`: a reply on its way that no change of the settings has
overtaken says what is in force (`RepliedFacts`, `OvertakenFacts`). The card that is
rendered from such a reply shows what is in force then, and until the next change.

*Sentinel scanner.* A stream is the encoding of its events, and a chunk may end
anywhere in it. `IInv` says that after any bytes the scan stands at one place of the
encoded answer (`Stands`): some number of events is complete and absorbed, and
`pending` is the beginning of the next one's line. `Push` first moves the place on,
one symbol at a time, and each symbol keeps `Stands` and the account of the lines
drained; then it absorbs those lines, and each line keeps `IInv`'s account of the text.
A chunk that ends inside a character spoils the text from there: `Garbled` says
that a spoiled text is *right up to its first replacement character*. That is
enough for `NoFalseEscalation`, because the sentinel has no such character in it:
a text that begins with it begins with it before the first cut.

*Chat stream.* The translator stands at one place of the encoded answer as well
(`ReadOK`; the last line may lack its newline, and the bytes to come are then those of
`rest` and the `missing` one), and the argument about `Stands` is the same
(`ChunkedBytesProofs`). `Translated` says that what was sent is what the first
`arrived` events come to, and that there is one `[DONE]` in it if `done_sent` is set
and none otherwise; `Stopped` that before the tail only a `message_stop` sets it.
Nothing is said of the text once a character has been cut.

*Routing.* A conversation only grows, by what the user types and by the answer to
what was sent, so the first command in it stays where it is and stays the first
(`FirstStays`); the route it chose is what the session was routed by from then on.
That stripping leaves no empty message (`StrippedFull`) is what lets the next turn be
a conversation again. That what was sent is sent again (`TurnsExtend`) needs to know
what the last turn sent (`SentResolved`, in `IInv`): resolving a longer conversation
finds the same first command and strips it the same way, or finds one in what is new and
leaves the rest as it was (`ResolveExtends`). For `NothingElseStripped`, what a text says
is what a loop picks of it (`Picked`), so the words of two texts joined are those of the one and of the
other (`WordsConcat`). White space cut off either end is no word (`TrimKeeps`), so what
remains of a text has the words that stand in no copy of its command
(`WithoutIs`, `RemainderKeeps`); a part or a message that is removed had none left
(`FlattenDrops`), and no other part is touched (`StrippedKeeps`, `ResolvedKeeps`).

*Sidecar.* The dict is not locked, so the invariant says what each thread may rely
on at each place (`ThreadOK`): its copy holds entries that were made, each id is
converted once and never again (`ConversionsOK`), and one whose entry is about to be
deleted had expired and has no file. What is said of links and files is said of the
running process (`boot`); a restart makes it true of the new one, which has converted
nothing yet. So an `unlink` on the strength of an old copy is
of an entry that is older still, and breaks no link that works. For `ServedIsFresh` it
says what a thread has yet to look at (`PruneOK`): whatever had expired when it came
in and is still in the dict is in the rest of its copy, so a download whose loop is
over finds none; and the loop ends early only by the `KeyError` that ends the request.

*Induction over data.* The library's induction theorems take an operator as a
parameter, which the provers cannot instantiate. `ChunkedBytesProofs` does what is
needed with *sets* in its place: the least number of a set (`LeastNumber`), induction
as "a set that has 0 and with each number the next has all" (`UpTo`), the existence of
functions defined by recursion (`Recursion`), and with them what recursive functions
compute (`FlattenSeq`, `Fed`, `Absorbed`). `CascadeProofs` and `RouteProofs` use these
lemmas through an `INSTANCE` of the module, for the loops `Translated` and `Picked`.

### Model-checked only

* *Liveness.* `EveryCallEnds`: the proof system does not reason about fairness
  or `ENABLED`.
* What the four violation runs refute.

## 5. What is not modelled

* The JSON an answer is translated to (`anthropic_to_openai`), sampling
  parameters, the rendering of `/metrics` and `/status`, log lines, headers and
  error bodies: conversions without state. Of `openai_to_anthropic` the roles,
  the text parts and the failures are modelled, not the other fields.
* The gauges: two scrapes of `/metrics` may set them in either order and each
  render the other's figures; no document promises more.
* `GET /v1/models`, `GET /health` and `GET /panel` are constants.
* The panel's polling of `/status` and its drawing: no state of its own.
* `src/docexport/openwebui_action.py`: a client that formats links and messages.
* Reading and defaulting `config.toml`: it runs once before the first request,
  and its outcome is `Configs`, `Cap`, `Default` and the initial settings. The
  contents of prompts and documents, pandoc, WeasyPrint, and the container set-up
  are outside.
* The digest of `conversation_key`: `FrontDoor` keeps the text in its place, so
  that digests do not collide is assumed.
* `sticky` only grows in the code, and here.
* An error event that an upstream sends inside a stream: the translator drops it
  (`src/src/openai_compat.rs:230`) and ends the stream with `[DONE]`; it is one of
  the events of type `other` in `ChatStream`.
* An empty sentinel in the configuration, which every text begins with.

## 6. Plan

Done, in this order: `BudgetPool`, `CloudBudget`, its proofs; `Cascade`;
`ChatState`; `SentinelScan`; `ChatStream`; `RouteResolution`; `DocExport`; then
`SettingsRegister` and the refinement, `FrontDoor`, `Status` and `Panel`.

Then the proofs: `CloudBudget`; the invariant of `Cascade` with its discipline,
causes and stickiness; its ledgers; `ChatState` and the refinement of
`SettingsRegister`; `StatusNeverAhead`; the invariant of `FrontDoor`, with
`ServedUnderOneChoice`, the ledgers and the tiers; `DocExport`; `Panel`;
`RouteResolution`; `SentinelScan`; and `ChatStream`, for which the argument about a
reader's place in a stream was moved to `ChunkedBytes`; and at last the two properties
that rest on loops over messages and texts, `OneConversationOneKey` and
`NothingElseStripped`, for which the models write those loops as the recursive
functions they are (`Translated`, `Picked`) instead of with `SelectSeq`, whose
definition the provers do not see into.

Every safety property a passing run checks is now a theorem as well. What is left is
liveness, which the proof system does not reason about.
