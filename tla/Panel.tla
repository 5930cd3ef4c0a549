------------------------------- MODULE Panel --------------------------------
(***************************************************************************)
(* The chat card of src/panel.html, a browser page over the settings of    *)
(* ChatState: it loads them once when it is opened, sends both of its      *)
(* controls whenever one is changed, and shows what the reply says.        *)
(*                                                                         *)
(* The script is single-threaded, but its fetches are not: each saves or   *)
(* loads on a connection of its own, so that PUTs can reach the proxy, and *)
(* replies the page, in any order.  A fetch may fail at any moment, and    *)
(* the page goes on then while its PUT is on its way or being handled.     *)
(* Other clients PUT as well.                                              *)
(***************************************************************************)
EXTENDS ChatState

CONSTANTS
    PanelPuts,  \* the PUTs the page sends; those of other clients are the rest
    Opening,    \* the load that opens the page
    Offered     \* targets(): those that get_settings lists for the dropdown

\* A setting is two controls: the pipeline check box and the routing target.
Targets == {s.target : s \in Settings}

ASSUME PanelAssumption ==
    /\ PanelPuts \subseteq Puts /\ Opening \notin Puts
    /\ Settings \subseteq [pipeline : BOOLEAN, target : Targets]
    /\ "cascade" \in Offered /\ Offered \subseteq Targets

VARIABLES
    card,       \* the two controls as the page shows them, whether the target
                \* is locked (disabled), and whether the card is visible
    exchange,   \* exchange[x]: a save with the reload that may follow it, or
                \* the first load; data is the reply on its way, if there is
                \* one, and fresh whether nothing changed the settings since
    wire,       \* the page's PUTs on their way to the proxy
    stale       \* history variable: the settings have changed since the reply
                \* that was rendered last was written

panelVars == <<vars, card, exchange, wire, stale>>

Exchanges == PanelPuts \cup {Opening}
Stages == {"unused", "saving", "loading", "loaded", "done"}

AtStage(x, stage) == exchange[x].at = stage
Becomes(x, stage) ==
    exchange' = [exchange EXCEPT ![x] = [at |-> stage, data |-> Default, fresh |-> FALSE]]
Ended(x) == exchange[x].at \in {"unused", "done"}

\* The proxy replies to x, with what get_settings reads from memory.
Replied(x, stage) ==
    exchange' = [exchange EXCEPT ![x] = [at |-> stage, data |-> memory, fresh |-> TRUE]]

\* Replies on their way are out of date once the settings change.
Overtaken ==
    exchange' = [x \in Exchanges |->
        [exchange[x] EXCEPT !.fresh = exchange[x].fresh /\ memory' = memory]]

PanelInit ==
    /\ Init
    /\ card = [pipeline |-> FALSE, target |-> "cascade", locked |-> FALSE, visible |-> FALSE]
    /\ exchange = [x \in Exchanges |-> [at |-> "unused", data |-> Default, fresh |-> FALSE]]
    /\ wire = {}
    /\ stale = FALSE

-----------------------------------------------------------------------------

\* Mutant: the dropdown shows a target it does not have.
RenderedAnyway(s) ==
    [card EXCEPT !.pipeline = s.pipeline, !.target = s.target, !.locked = ~s.pipeline]

\* renderChatSettings: a target the list does not offer leaves the dropdown at
\* its first option, and the target can be changed only with the pipeline on.
Rendered(s) ==
    [card EXCEPT !.pipeline = s.pipeline,
                 !.target = IF s.target \in Offered THEN s.target ELSE "cascade",
                 !.locked = ~s.pipeline]

\* What the page would save.
Shown == [pipeline |-> card.pipeline, target |-> card.target]

\* The page is opened: loadChatSettings.
OpenPage(x) ==
    /\ x = Opening
    /\ AtStage(x, "unused")
    /\ Becomes(x, "loading")
    /\ UNCHANGED <<vars, card, wire, stale>>

\* The user changes one of the two controls: saveChatSettings sends both.
Save(p) ==
    /\ card.visible
    /\ AtStage(p, "unused")
    /\ \E s \in Settings :
        /\ \/ s = [Shown EXCEPT !.pipeline = ~@]
           \/ ~card.locked /\ s.target \in Offered \ {card.target}
              /\ s.pipeline = card.pipeline
        /\ card' = [card EXCEPT !.pipeline = s.pipeline, !.target = s.target]
        /\ wire' = wire \cup {[put |-> p, body |-> s]}
    /\ Becomes(p, "saving")
    /\ UNCHANGED <<vars, stale>>

\* A PUT reaches put_settings: the page's, whether or not the page still waits
\* for it, or another client's.
Arrives(p) ==
    /\ Receive(p)
    /\ IF p \in PanelPuts
         THEN \E m \in wire : /\ m.put = p /\ put'[p].new = m.body
                             /\ wire' = wire \ {m}
         ELSE UNCHANGED wire
    /\ UNCHANGED <<card, exchange, stale>>

\* A PUT of the page never gets there.
LostOnTheWay(m) ==
    /\ wire' = wire \ {m}
    /\ UNCHANGED <<vars, card, exchange, stale>>

\* Mutant: the reply says what was asked for.
RepliedAsAsked(p) ==
    exchange' = [exchange EXCEPT ![p] = [at |-> "saving", data |-> put[p].new, fresh |-> TRUE]]

\* put_settings ends in get_settings: what is in force by then.
RepliedAsRead(p) == Replied(p, "saving")

\* The rest of the handler; its reply goes to the page if it still waits.
Handled(p) ==
    /\ Handle(p) /\ ~At(p, "idle")
    /\ IF p \in PanelPuts /\ AtStage(p, "saving") /\ At(p, "reply")
         THEN RepliedAsRead(p) ELSE Overtaken
    /\ stale' = (stale \/ memory' # memory)
    /\ UNCHANGED <<card, wire>>

\* The 200 reaches the page, which renders what it says.
Saved(p) ==
    /\ AtStage(p, "saving")
    /\ At(p, "ok")
    /\ card' = Rendered(exchange[p].data)
    /\ stale' = ~exchange[p].fresh
    /\ Becomes(p, "done")
    /\ UNCHANGED <<vars, wire>>

\* An error status, or a fetch that fails, whatever has become of the PUT: it
\* may be on its way, lost, in the handler, or answered.  The catch of
\* saveChatSettings loads the settings again.
SaveFails(p) ==
    /\ AtStage(p, "saving")
    /\ Becomes(p, "loading")
    /\ UNCHANGED <<vars, card, wire, stale>>

\* get_settings answers a load ...
LoadServed(x) ==
    /\ AtStage(x, "loading")
    /\ up
    /\ Replied(x, "loaded")
    /\ UNCHANGED <<vars, card, wire, stale>>

\* ... whose reply reaches the page ...
Loads(x) ==
    /\ AtStage(x, "loaded")
    /\ card' = [Rendered(exchange[x].data) EXCEPT !.visible = TRUE]
    /\ stale' = ~exchange[x].fresh
    /\ Becomes(x, "done")
    /\ UNCHANGED <<vars, wire>>

\* ... or the load fails, and the card is hidden, until another succeeds.
LoadFails(x) ==
    /\ AtStage(x, "loading")
    /\ card' = [card EXCEPT !.visible = FALSE]
    /\ Becomes(x, "done")
    /\ UNCHANGED <<vars, wire, stale>>

\* The process dies and starts again, and may come up with other settings.
Fault ==
    /\ Crash \/ Restart
    /\ Overtaken
    /\ stale' = (stale \/ memory' # memory)
    /\ UNCHANGED <<card, wire>>

PanelNext ==
    \/ Fault
    \/ \E p \in Puts : Arrives(p) \/ Handled(p)
    \/ \E m \in wire : LostOnTheWay(m)
    \/ \E p \in PanelPuts : Save(p) \/ Saved(p) \/ SaveFails(p)
    \/ \E x \in Exchanges : OpenPage(x) \/ LoadServed(x) \/ Loads(x) \/ LoadFails(x)

PanelSpec == PanelInit /\ [][PanelNext]_panelVars

-----------------------------------------------------------------------------

\* Every variable has the shape of the code's data, the page's included.
PanelTypeOK ==
    /\ TypeOK
    /\ card \in [pipeline : BOOLEAN, target : Offered, locked : BOOLEAN, visible : BOOLEAN]
    /\ exchange \in [Exchanges -> [at : Stages, data : Settings, fresh : BOOLEAN]]
    /\ wire \subseteq [put : PanelPuts, body : Settings]
    /\ stale \in BOOLEAN

\* The card shows s; in the place of a target that the dropdown does not offer
\* it shows the cascade.
Shows(s) ==
    /\ card.pipeline = s.pipeline /\ card.locked = ~s.pipeline
    /\ card.target = IF s.target \in Offered THEN s.target ELSE "cascade"

\* A page that has finished what it was doing shows the settings in force, in
\* whatever order its saves and reloads were served and answered, failed or were
\* lost, unless the settings have changed since the reply that it rendered last
\* was written: by another client's PUT, by a restart, or by a PUT of its own,
\* which a later reply may overtake on the way and which may be applied after
\* the page has given it up and loaded the settings again.
PanelTellsTheTruth ==
    (\A x \in Exchanges : Ended(x)) /\ up /\ card.visible /\ ~stale => Shows(memory)

-----------------------------------------------------------------------------
\* The inductive invariant behind it, beside that of the settings.

\* A reply that nothing has overtaken says what is in force.
FreshIsTrue == \A x \in Exchanges : exchange[x].fresh => exchange[x].data = memory

PanelIInv ==
    /\ IInv
    /\ PanelTypeOK
    /\ FreshIsTrue
    /\ (\A x \in Exchanges : Ended(x)) /\ card.visible /\ ~stale => Shows(memory)
=============================================================================
