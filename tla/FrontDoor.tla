----------------------------- MODULE FrontDoor ------------------------------
(***************************************************************************)
(* The two front doors of the proxy over one cascade: POST /v1/messages    *)
(* (messages_proxy) and the OpenAI dialect of src/chat_proxy.rs, POST      *)
(* /v1/chat/completions, whose requests are translated by openai_compat    *)
(* and go where the chat settings say: past everything to the passthrough  *)
(* endpoint, into the cascade, or to a pinned provider.                    *)
(*                                                                         *)
(* The settings are the register of SettingsRegister, which ChatState      *)
(* implements; the cascade is Cascade, whose actions are used as they are. *)
(***************************************************************************)
EXTENDS Cascade, SequencesExt

CONSTANTS
    ChatRequests,   \* the Requests that come to the chat door; the others come
                    \* to the messages door
    ChatBodies,     \* bodies of the first
    MessageBodies,  \* messages arrays of the second
    ChatChoices,        \* ChatSettings a client may put, and the process start with
    NoChat          \* the settings of a proxy with no [chat] section

VARIABLES
    settings,   \* AppState.chat: the settings in force, NoChat if there are none
    chat,       \* chat[r]: the handler of chat request r
    modes,      \* Metrics.chat_requests_total
    opening     \* history variable: the first user message with which the
                \* conversation of r, now in the cascade, opened

doorVars == <<settings, chat, modes, opening>>

Register == INSTANCE SettingsRegister WITH
    Values <- ChatChoices, Acceptable <- ChatChoices,
    value <- settings, ever <- ChatChoices, torn <- FALSE

Targets == {"cascade", "named"}     \* a pinned target names a provider
Roles == {"system", "developer", "user", "assistant", "tool"}

\* What a body parses to: garbage is not JSON; a scalar is JSON that cannot be
\* given a member (an array, a string, a number, a boolean).  A null can: it
\* becomes an object, and is one without messages here.
Forms == {"object", "garbage", "scalar"}

ASSUME DoorAssumption ==
    /\ ChatRequests \subseteq Requests
    /\ ChatChoices \subseteq [pipeline : BOOLEAN, target : Targets]
    /\ NoChat \notin ChatChoices
    /\ \A b \in ChatBodies : b.form \in Forms
    /\ \A ms \in MessageBodies \cup {b.messages : b \in ChatBodies} :
        ms \in Seq([role : Roles, parts : Seq(Seq(STRING))])

DoorPlaces == {"idle", "read", "passthrough", "inside", "reading_answer", "done"}
Replies == {"none", "404", "400", "502", "verbatim", "stream", "json", "upstream_error",
            "panic", "cancelled"}

Blank == [form |-> "object", messages |-> <<>>]

-----------------------------------------------------------------------------
\* The translation, and the key of what it yields.  A message is a role and
\* the text parts of its content, in order; a string content is one part.  A
\* text is a sequence of words.

NL == "newline"

\* Parts joined with a line break.
Joined(parts) ==
    FlattenSeq([i \in DOMAIN parts |-> IF i = 1 THEN parts[i] ELSE <<NL>> \o parts[i]])

\* Mutant: the parts run on.
ContentRunOn(parts) == FlattenSeq(parts)

\* content_text flattens a chat message to one string.
ContentText(parts) == Joined(parts)

\* openai_to_anthropic fails on a message without text, on a role it does not
\* know, and when nothing is left beside the system prompt.
Translatable(ms) ==
    /\ \A i \in DOMAIN ms : ms[i].role # "tool" /\ ms[i].parts # <<>>
    /\ \E i \in DOMAIN ms : ms[i].role \in {"user", "assistant"}

\* A message of the other roles, flattened.
Turn(m) == [role |-> m.role, parts |-> <<ContentText(m.parts)>>]

\* The loop of openai_to_anthropic over the messages: it lifts system and
\* developer messages out into the system prompt, and flattens the others.
Translated(ms) ==
    LET turns[n \in 0..Len(ms)] ==
            IF n = 0 THEN <<>>
            ELSE IF ms[n].role \in {"user", "assistant"} THEN Append(turns[n - 1], Turn(ms[n]))
            ELSE turns[n - 1]
    IN  turns[Len(ms)]

\* The text parts of the first user message, <<>> if there are none.
FirstUser(ms) ==
    LET first == {i \in DOMAIN ms : /\ ms[i].role = "user"
                                   /\ \A j \in 1..(i - 1) : ms[j].role # "user"}
    IN  IF first = {} THEN <<>> ELSE ms[CHOOSE i \in first : TRUE].parts

\* conversation_key: a digest of them, which tells texts apart as the texts do.
ConversationKey(ms) ==
    IF FirstUser(ms) = <<>> THEN NoKey ELSE Joined(FirstUser(ms))

\* ConversationKeys has the keys of the bodies that reach the cascade.
ASSUME KeyAssumption ==
    \A b \in ChatBodies :
        b.form = "object" /\ Translatable(b.messages) =>
            ConversationKey(Translated(b.messages)) \in ConversationKeys

\* None is no digest.
ASSUME NoKeyAssumption ==
    \A ms \in MessageBodies \cup {b.messages : b \in ChatBodies} :
        FirstUser(ms) # <<>> => Joined(FirstUser(ms)) # NoKey

-----------------------------------------------------------------------------

DoorInit ==
    /\ Init
    /\ settings \in ChatChoices \cup {NoChat}
    /\ chat = [r \in ChatRequests |->
                [at |-> "idle", choice |-> NoChat, body |-> Blank, reply |-> "none"]]
    /\ modes = [pipeline |-> 0, passthrough |-> 0]
    /\ opening = [r \in Requests |-> <<>>]

AtDoor(r, place) == chat[r].at = place
DoorGoto(r, place) == chat' = [chat EXCEPT ![r].at = place, ![r].body = Blank]
DoorReply(r, reply) ==
    chat' = [chat EXCEPT ![r].at = "done", ![r].body = Blank, ![r].reply = reply]

Opens(r, ms) == opening' = [opening EXCEPT ![r] = FirstUser(ms)]

\* The messages door: what the default route sends into the cascade.
MessageArrive(r) ==
    /\ \E ms \in MessageBodies :
        /\ Arrive(r)
        /\ req'[r].key = ConversationKey(ms)
        /\ Opens(r, ms)
    /\ UNCHANGED <<settings, chat, modes>>

\* chat_completions without settings or with no JSON in the body.
ChatRefused(r) ==
    /\ AtDoor(r, "idle")
    /\ \/ settings = NoChat /\ DoorReply(r, "404")
       \/ /\ settings # NoChat
          /\ \E b \in ChatBodies : b.form = "garbage"
          /\ DoorReply(r, "400")
    /\ UNCHANGED <<vars, settings, modes, opening>>

\* The settings are read, once, under their lock, and the mode is counted.
ChatArrive(r) ==
    /\ AtDoor(r, "idle")
    /\ settings # NoChat
    /\ \E b \in ChatBodies :
        /\ b.form # "garbage"
        /\ chat' = [chat EXCEPT ![r] =
                    [at |-> "read", choice |-> settings, body |-> b, reply |-> "none"]]
    /\ modes' = IF settings.pipeline THEN [modes EXCEPT !.pipeline = @ + 1]
                ELSE [modes EXCEPT !.passthrough = @ + 1]
    /\ UNCHANGED <<vars, settings, opening>>

\* Pipeline off: the body goes to the endpoint with its model rewritten, which
\* panics when it cannot have one.
Passthrough(r) ==
    /\ AtDoor(r, "read")
    /\ ~chat[r].choice.pipeline
    /\ IF chat[r].body.form = "scalar" THEN DoorReply(r, "panic")
       ELSE DoorGoto(r, "passthrough")
    /\ UNCHANGED <<vars, settings, modes, opening>>

\* The endpoint cannot be reached, or whatever it says is handed on.
PassthroughAnswer(r) ==
    /\ AtDoor(r, "passthrough")
    /\ DoorReply(r, "502") \/ DoorReply(r, "verbatim")
    /\ UNCHANGED <<vars, settings, modes, opening>>

\* Mutant: the settings are read again when the target is needed.
TargetNow(r) == settings.target

\* The target in the settings that were read.
Target(r) == chat[r].choice.target

\* Pipeline on, and a body that translates.
InPipeline(r) ==
    /\ AtDoor(r, "read")
    /\ chat[r].choice.pipeline
    /\ chat[r].body.form = "object" /\ Translatable(chat[r].body.messages)

\* A body that does not translate, and a target of the state file that names a
\* provider the configuration does not have, are a 400.
PipelineRefused(r) ==
    /\ AtDoor(r, "read")
    /\ chat[r].choice.pipeline
    /\ \/ ~InPipeline(r)
       \/ Target(r) = "named" /\ cfg.state["named"] = "unknown"
    /\ DoorReply(r, "400")
    /\ UNCHANGED <<vars, settings, modes, opening>>

\* Target cascade: into the cascade, like a default route of the other door.
ChatCascade(r) ==
    /\ InPipeline(r)
    /\ Target(r) = "cascade"
    /\ cfg.orchestrator
    /\ Enter(r, ConversationKey(Translated(chat[r].body.messages)))
    /\ Opens(r, chat[r].body.messages)
    /\ DoorGoto(r, "inside")
    /\ UNCHANGED <<cfg, shared, metrics, heard, settings, modes>>

\* A pinned target, or the default provider when there is no orchestrator, is
\* forwarded to without a tier being counted.
ChatForward(r) ==
    /\ InPipeline(r)
    /\ IF Target(r) = "cascade" THEN ~cfg.orchestrator ELSE cfg.state["named"] # "unknown"
    /\ Forward(r, "named", "none")
    /\ DoorGoto(r, "inside")
    /\ UNCHANGED <<cfg, shared, metrics, heard, settings, modes, opening>>

\* translate_response: an answer is streamed on or read whole; anything else
\* becomes an OpenAI error.
ChatReply(r) ==
    /\ AtDoor(r, "inside")
    /\ At(r, "done")
    /\ IF req[r].result = "answer"
         THEN DoorReply(r, "stream") \/ DoorGoto(r, "reading_answer")
         ELSE DoorReply(r, "upstream_error")
    /\ UNCHANGED <<vars, settings, modes, opening>>

\* A JSON answer is read and translated; it may break off, or not be JSON.
ReadAnswer(r) ==
    /\ AtDoor(r, "reading_answer")
    /\ DoorReply(r, "json") \/ DoorReply(r, "502")
    /\ UNCHANGED <<vars, settings, modes, opening>>

\* The client hangs up at an await, inside the cascade or at the door.
ChatCancel(r) ==
    /\ \/ AtDoor(r, "inside") /\ Cancel(r)
       \/ chat[r].at \in {"passthrough", "reading_answer"} /\ UNCHANGED vars
    /\ DoorReply(r, "cancelled")
    /\ UNCHANGED <<settings, modes, opening>>

\* PUT /chat/settings, at any moment; its target names a provider there is.
PutSettings(s) ==
    /\ settings # NoChat
    /\ s.target = "named" => cfg.state["named"] # "unknown"
    /\ Register!Put(s)
    /\ UNCHANGED <<vars, chat, modes, opening>>

-----------------------------------------------------------------------------

ChatProgress(r) ==
    \/ Passthrough(r)
    \/ PassthroughAnswer(r)
    \/ PipelineRefused(r)
    \/ ChatCascade(r)
    \/ ChatForward(r)
    \/ ChatReply(r)
    \/ ReadAnswer(r)

CascadeProgress(r) == Progress(r) /\ UNCHANGED doorVars

\* One task serves a request, at its door and in the cascade.
Serve(r) == CascadeProgress(r) \/ (r \in ChatRequests /\ ChatProgress(r))

MessageDoor(r) ==
    \/ MessageArrive(r)
    \/ (ArriveExplicit(r) \/ ArriveUnusable(r) \/ Cancel(r)) /\ UNCHANGED doorVars

ChatDoor(r) == ChatRefused(r) \/ ChatArrive(r) \/ ChatCancel(r)

DoorNext ==
    \/ ReadBudget /\ UNCHANGED doorVars
    \/ \E s \in ChatChoices : PutSettings(s)
    \/ \E r \in Requests : Serve(r)
    \/ \E r \in Requests \ ChatRequests : MessageDoor(r)
    \/ \E r \in ChatRequests : ChatDoor(r)

\* A task is scheduled as long as it can run (tokio), and an exchange with an
\* upstream or the passthrough endpoint ends: the client of build_state gives
\* up after request_timeout_secs, headers and body together.  Nothing obliges a
\* client to send, or to hang up.
DoorSpec ==
    /\ DoorInit
    /\ [][DoorNext]_<<vars, doorVars>>
    /\ \A r \in Requests : WF_<<vars, doorVars>>(Serve(r))

-----------------------------------------------------------------------------

\* Every variable has the shape of the code's data, the cascade's included.
DoorTypeOK ==
    /\ TypeOK
    /\ settings \in ChatChoices \cup {NoChat}
    /\ chat \in [ChatRequests -> [at : DoorPlaces, choice : ChatChoices \cup {NoChat},
                                  body : ChatBodies \cup {Blank}, reply : Replies]]
    /\ modes \in [pipeline : Nat, passthrough : Nat]
    /\ opening \in [Requests -> Seq(Seq(STRING))]

\* What a chat request may have sent through the pipeline under choice c.
AllowedUnder(c, r) ==
    CASE c = NoChat \/ ~c.pipeline -> req[r].sent = <<>>
      [] c.pipeline /\ c.target = "cascade" /\ cfg.orchestrator ->
            Disciplined(r) /\ req[r].sent # <<Copy("named")>>
      [] OTHER -> req[r].sent \in {<<>>, <<Copy("named")>>} /\ answer[r] = "none"

\* The chat requests whose settings were read with the pipeline on, or off.
Chosen(on) == {r \in ChatRequests : chat[r].choice # NoChat /\ chat[r].choice.pipeline = on}

\* The counter of each mode is the number of requests that were to be served so.
ModesAgree ==
    /\ modes.pipeline = Cardinality(Chosen(TRUE))
    /\ modes.passthrough = Cardinality(Chosen(FALSE))

\* A chat request is served from first to last under the one choice that was in
\* force when it arrived, whatever is put meanwhile: passed through it touches
\* no tier; pinned it goes to its provider, is charged to no budget and never
\* reaches the cloud tier; and it is counted, once, in the mode of that choice.
ServedUnderOneChoice ==
    /\ \A r \in ChatRequests : AllowedUnder(chat[r].choice, r)
    /\ ModesAgree

\* Whichever door it comes through, whichever turn of it is sent and however
\* its content is cut into parts, a conversation has one key, and so one tier.
OneConversationOneKey ==
    \A q, r \in Requests :
        opening[q] = opening[r] /\ opening[r] # <<>> =>
            req[q].key = req[r].key /\ req[r].key # NoKey

TierOf == [local |-> "local", cloud |-> "cloud", named |-> "static"]

\* With its provider configured a tier's counter is the number of requests sent
\* to it: a denied fallback counts the local tier a second time, and what the
\* chat door forwards to a provider directly is in no tier.
TierCountsAllButChatTargets ==
    \A p \in Providers :
        cfg.state[p] = "ok" =>
            metrics.tiers[TierOf[p]] =
                Cardinality({x \in ExchangesWith(p) : p # "named" \/ x[1] \notin ChatRequests})

\* Every call that has arrived ends, at either door: with an answer or an
\* error, or because its client has gone.
EveryCallEnds ==
    \A r \in Requests :
        IF r \in ChatRequests
          THEN ~AtDoor(r, "idle") ~> AtDoor(r, "done")
          ELSE ~At(r, "idle") ~> At(r, "done")

-----------------------------------------------------------------------------
\* The inductive invariant behind ServedUnderOneChoice, beside IInv of Cascade:
\* where the cascade may have taken a chat request, by the choice that was read
\* for it and the place its handler is at.

\* Choice c sends a request into the cascade, or to a provider.
IntoCascade(c) == c.pipeline /\ c.target = "cascade" /\ cfg.orchestrator
ToProvider(c) == c.pipeline /\ ~(c.target = "cascade" /\ cfg.orchestrator)

\* A request without a choice, or passed through, is not in the pipeline, and
\* no other is there before its handler has acted on the choice.
DoorPlaceOK(r) ==
    /\ chat[r].at \in {"idle", "read", "passthrough"} => At(r, "idle")
    /\ AtDoor(r, "idle") => chat[r].choice = NoChat
    /\ AtDoor(r, "read") => chat[r].choice # NoChat
    /\ chat[r].choice # NoChat \/ At(r, "idle")
    /\ chat[r].choice # NoChat => chat[r].choice.pipeline \/ At(r, "idle")

\* Inside, it is on the road its choice names, and on no other.
RoadOK(r) ==
    chat[r].choice # NoChat =>
        /\ IntoCascade(chat[r].choice) => req[r].sent # <<Copy("named")>>
        /\ ToProvider(chat[r].choice) =>
              /\ req[r].at \in {"idle", "done"} \cup Forwarding
              /\ req[r].trigger = "none"
              /\ req[r].sent \in {<<>>, <<Copy("named")>>}

DoorIInv ==
    /\ IInv
    /\ DoorTypeOK
    /\ \A r \in ChatRequests : DoorPlaceOK(r) /\ RoadOK(r)
    /\ ModesAgree

\* And behind OneConversationOneKey: a request in the cascade has the key of
\* the text its conversation opened with.
KeyedByOpening ==
    \A r \in Requests :
        opening[r] # <<>> => req[r].key = Joined(opening[r]) /\ req[r].key # NoKey
=============================================================================
