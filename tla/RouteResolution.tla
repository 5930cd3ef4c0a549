-------------------------- MODULE RouteResolution ---------------------------
(***************************************************************************)
(* Where a request goes: resolve_route of src/proxy.rs and the legacy text *)
(* command of src/model_command.rs, over the turns of a session.  A client *)
(* sends its whole conversation every turn, as it was typed, so a command  *)
(* is found, obeyed and stripped anew each time.                           *)
(*                                                                         *)
(* A text is a sequence of symbols: "/model", " ", "tab" (any other white  *)
(* space) and words, with white space between them or run together:        *)
(* "p/mini" is <<"p/m", "ini">> and "src/model p/m" is                     *)
(* <<"src", "/model", " ", "p/m">>.  A word with a slash in it, both sides *)
(* non-empty, is one of Qualified; run together with what follows it, it   *)
(* still is one.  The symbols of a text are chosen so that none begins     *)
(* with another, and a string occurs in it where its symbols do.           *)
(***************************************************************************)
EXTENDS Integers, Sequences, SequencesExt

CONSTANTS
    Qualified,  \* words of the form provider/model
    Prefix,     \* Prefix[w]: what stands before the first slash of w
    Bare,       \* names without a slash, and ""
    Providers,  \* the provider table: names
    DefaultOf,  \* DefaultOf[p]: the provider's own model, or NoModel
    NoModel,
    Default,    \* [default] of the configuration; nothing requires it in the table
    Typed,      \* the messages a user may send
    Answers,    \* the texts an assistant may answer
    MaxTurns    \* bound on the turns of a session

White == {" ", "tab"}

ASSUME WordAssumption ==
    /\ Qualified \cap Bare = {} /\ Prefix \in [Qualified -> Bare]
    /\ Bare \cap (White \cup {"/model"}) = {}
ASSUME TableAssumption == Providers \subseteq Bare
ASSUME TurnAssumption == MaxTurns \in Nat

\* A message is its role and its parts: the texts of its blocks, or the one
\* text of a message whose content is a string.  The API takes no empty ones.
Texts == Seq(STRING) \ {<<>>}
Message == [role : {"user", "assistant"}, parts : Seq(Texts) \ {<<>>}]

VARIABLES
    session,    \* the client's messages
    field,      \* the client's model field
    route,      \* resolve_route's answer for the last request
    upstream    \* the messages it left in the payload

vars == <<session, field, route, upstream>>

RouteSource == {"Default", "Explicit"}

-----------------------------------------------------------------------------

TrimStart(text) ==
    LET blank == {n \in 0..Len(text) : \A i \in 1..n : text[i] \in White}
        n == CHOOSE n \in blank : \A m \in blank : m <= n
    IN  SubSeq(text, n + 1, Len(text))

Trim(text) == Reverse(TrimStart(Reverse(TrimStart(text))))

\* split_whitespace().next(): <<>> when there is none.
FirstToken(text) ==
    LET trimmed == TrimStart(text)
        black == {n \in 0..Len(trimmed) : \A i \in 1..n : trimmed[i] \notin White}
        n == CHOOSE n \in black : \A m \in black : m <= n
    IN  SubSeq(trimmed, 1, n)

\* The word behind a leading "/model " is made of the symbols it is spelt with:
\* nothing run together in it spells another provider/model.
Legible(text) ==
    LET trimmed == TrimStart(text)
        token == FirstToken(SubSeq(trimmed, 3, Len(trimmed)))
    IN  /\ \A i \in DOMAIN text : text[i] \in White \cup {"/model"} \cup Qualified \cup (Bare \ {""})
        /\ \A i \in 2..Len(token) :
            token[i] \in Bare \/ (token[i] \in Qualified /\ token[1] \in Qualified)

ASSUME MessageAssumption ==
    /\ \A m \in Typed : /\ m \in Message /\ m.role = "user"
                        /\ \A b \in DOMAIN m.parts : Legible(m.parts[b])
    /\ \A text \in Answers : text \in Texts /\ Legible(text)

\* The symbols of a text at some of its places, in their order.
Picked(text, places) ==
    LET after[n \in 0..Len(text)] ==
            IF n = 0 THEN <<>>
            ELSE IF n \in places THEN Append(after[n - 1], text[n]) ELSE after[n - 1]
    IN  after[Len(text)]

\* str::replace(token, ""): every occurrence goes.  Two cannot overlap, for
\* "/model" is in a token only at its start.
Without(text, token) ==
    LET starts == {j \in 1..(Len(text) + 1 - Len(token)) :
                     SubSeq(text, j, j + Len(token) - 1) = token}
        gone == UNION {j..(j + Len(token) - 1) : j \in starts}
    IN  Picked(text, DOMAIN text \ gone)

\* extract_command: the identifier, <<>> when the text is no command.
Identifier(text) ==
    LET trimmed == TrimStart(text)
        rest == SubSeq(trimmed, 3, Len(trimmed))
        token == FirstToken(rest)
    IN  IF /\ IsPrefix(<<"/model", " ">>, trimmed)
           /\ token # <<>> /\ token[1] \in Qualified
          THEN token ELSE <<>>

Remainder(text) == Trim(Without(text, <<"/model", " ">> \o Identifier(text)))

IsCommand(text) == Identifier(text) # <<>>

\* The commands that count: the places of those in user messages.
Commands(messages) ==
    UNION {{<<i, b>> : b \in {b \in DOMAIN messages[i].parts : IsCommand(messages[i].parts[b])}} :
             i \in {i \in DOMAIN messages : messages[i].role = "user"}}

\* Mutant: the conversation is read from its end.
LastOf(p, q) == p[1] > q[1] \/ (p[1] = q[1] /\ p[2] >= q[2])

\* Messages and their blocks are looked at in order.
FirstOf(p, q) == p[1] < q[1] \/ (p[1] = q[1] /\ p[2] <= q[2])

\* parse_and_strip's scan: the place of the first command, as a set of none
\* or one.
FirstCommand(messages) ==
    {p \in Commands(messages) : \A q \in Commands(messages) : FirstOf(p, q)}

\* Mutant: a block that is left empty stays.
PartsKeepingBlock(parts, b, left) == [parts EXCEPT ![b] = left]

\* The remainder stands for the text; an emptied block is removed.
PartsLeft(parts, b, left) ==
    IF left # <<>> THEN [parts EXCEPT ![b] = left] ELSE RemoveAt(parts, b)

\* Mutant: the message is removed with the command.
StrippedMessage(messages, i, b) == RemoveAt(messages, i)

\* apply_strip: a message of which nothing is left is removed, too.
Stripped(messages, i, b) ==
    LET parts == PartsLeft(messages[i].parts, b, Remainder(messages[i].parts[b]))
    IN  IF parts = <<>> THEN RemoveAt(messages, i)
        ELSE [messages EXCEPT ![i].parts = parts]

DefaultRoute(model) == [provider |-> Default, model |-> model, source |-> "Default"]
ExplicitRoute(p, model) == [provider |-> p, model |-> model, source |-> "Explicit"]

\* The model field alone: provider/model of the table, a bare name that has a
\* model, or a model of the default provider.  Models are what stands after
\* the first slash, kept here as the word it is part of.
FieldRoute(f) ==
    CASE f \in Qualified /\ Prefix[f] \in Providers -> ExplicitRoute(Prefix[f], <<f>>)
      [] f \in Providers /\ DefaultOf[f] # NoModel -> ExplicitRoute(f, <<DefaultOf[f]>>)
      [] OTHER -> DefaultRoute(<<f>>)

\* resolve_route: the first command, whose provider is not looked up here,
\* else the field.
Resolve(messages, f) ==
    IF FirstCommand(messages) = {}
      THEN [route |-> FieldRoute(f), messages |-> messages]
      ELSE LET place == CHOOSE p \in FirstCommand(messages) : TRUE
               id == Identifier(messages[place[1]].parts[place[2]])
           IN  [route |-> ExplicitRoute(Prefix[id[1]], id),
                messages |-> Stripped(messages, place[1], place[2])]

Init ==
    /\ session = <<>>
    /\ field \in Qualified \cup Bare
    /\ route = DefaultRoute(<<field>>)
    /\ upstream = <<>>

\* The client's own /model sets the field.
SelectModel ==
    /\ field' \in Qualified \cup Bare
    /\ UNCHANGED <<session, route, upstream>>

\* A turn: the conversation so far and a new message, resolved and answered.
Turn ==
    /\ Len(session) < 2 * MaxTurns
    /\ \E typed \in Typed, answer \in Answers :
        LET resolved == Resolve(Append(session, typed), field)
        IN  /\ route' = resolved.route
            /\ upstream' = resolved.messages
            /\ session' = session \o <<typed, [role |-> "assistant", parts |-> <<answer>>]>>
    /\ UNCHANGED field

Next == SelectModel \/ Turn

Spec == Init /\ [][Next]_vars

-----------------------------------------------------------------------------

Sent == IF session = <<>> THEN <<>> ELSE Front(session)

\* What is written in a text, a message and a conversation: everything but the
\* white space between.
Words(text) == Picked(text, {n \in DOMAIN text : text[n] \notin White})
WordsIn(parts) == FlattenSeq([b \in DOMAIN parts |-> Words(parts[b])])
WordsOf(messages) == FlattenSeq([i \in DOMAIN messages |-> WordsIn(messages[i].parts)])

\* The text opens with a command: "/model" at m behind white space only, then
\* " " and any more white space, then a word with a slash in it from k to n.
OpensWith(text, m, k, n) ==
    /\ m + 1 < k /\ k <= n
    /\ \A j \in 1..n : text[j] \in White <=> (j # m /\ j < k)
    /\ text[m] = "/model" /\ text[m + 1] = " " /\ text[k] \in Qualified
    /\ n = Len(text) \/ text[n + 1] \in White

\* The symbols of a text that are in no copy of a token.
Spared(text, token) ==
    Picked(text, {n \in DOMAIN text :
                    ~ \E j \in 1..(Len(text) + 1 - Len(token)) :
                        SubSeq(text, j, j + Len(token) - 1) = token /\ j <= n /\ n < j + Len(token)})

\* Every variable has the shape of the code's data: no message without a part
\* and no part left empty goes upstream.
TypeOK ==
    /\ field \in Qualified \cup Bare
    /\ route.source \in RouteSource
    /\ \A i \in DOMAIN upstream :
        upstream[i].parts # <<>> /\ \A b \in DOMAIN upstream[i].parts : upstream[i].parts[b] # <<>>

\* What is left of a conversation is all that was written in it, in its order,
\* or all but the copies of "/model id" in one part of a user's that opens with
\* that command.
OnlyCommandLost(messages, left) ==
    \/ WordsOf(left) = WordsOf(messages)
    \/ \E i \in DOMAIN messages : \E b \in DOMAIN messages[i].parts :
        LET text == messages[i].parts[b]
        IN  /\ messages[i].role = "user"
            /\ \E m, k, n \in DOMAIN text :
                /\ OpensWith(text, m, k, n)
                /\ WordsOf(left) =
                     WordsOf([messages EXCEPT ![i].parts[b] =
                                Spared(text, <<"/model", " ">> \o SubSeq(text, k, n))])

\* Stripping costs the conversation the command and nothing else.  The copies of
\* the command go wherever they stand in its part, in mid-sentence and in
\* mid-word, too; no other part, message or turn loses anything, a second
\* command included.
NothingElseStripped == OnlyCommandLost(Sent, upstream)

\* What a provider was sent in one turn it is sent again in the next, with what
\* came since behind it: the resent command is found and stripped the same way
\* whatever is typed, answered or selected later.
TurnsExtend == [][Turn => IsPrefix(upstream, upstream')]_vars

\* The first text command of a session governs every later turn of it: the
\* resent command decides again, over any later command and over the field,
\* and what an assistant wrote never routes anything.
FirstCommandGoverns ==
    [][Turn /\ (\E i \in DOMAIN session :
                 /\ session[i].role = "user"
                 /\ \E b \in DOMAIN session[i].parts : IsCommand(session[i].parts[b]))
        => route' = route]_vars

-----------------------------------------------------------------------------
\* The inductive invariant behind them.

\* The route a text command asks for.
CommandRoute(text) == ExplicitRoute(Prefix[Identifier(text)[1]], Identifier(text))

\* A session with a command in it is routed by its first one.
RoutedByFirst ==
    Commands(session) # {} =>
        \E p \in FirstCommand(session) : route = CommandRoute(session[p[1]].parts[p[2]])

\* What went upstream is what the last request was resolved to.
SentResolved == upstream = Resolve(Sent, field).messages

IInv ==
    /\ session \in Seq(Message)
    /\ TypeOK
    /\ RoutedByFirst
    /\ SentResolved

-----------------------------------------------------------------------------
\* What the documentation says of the command, and the code does not do.

\* src/model_command.rs:5: the command text is stripped so that the upstream
\* never sees it.
UpstreamNeverSeesCommand == Commands(upstream) = {}
=============================================================================
