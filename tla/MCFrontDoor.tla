---------------------------- MODULE MCFrontDoor -----------------------------
(* A small instance of FrontDoor, and of the Cascade it extends, for TLC. *)
EXTENDS FrontDoor

Config(orchestrator, mode, local, cloud, named) ==
    [orchestrator |-> orchestrator, failMode |-> mode,
     state |-> [local |-> local, cloud |-> cloud, named |-> named]]

\* Both fail modes, each lookup that can fail in a place where its failure
\* changes what happens next, and no orchestrator.
MCConfigs ==
    {Config(TRUE, "error", "ok", "ok", "nokey"),
     Config(TRUE, "cloud", "ok", "nokey", "ok"),
     Config(TRUE, "error", "nokey", "ok", "ok"),
     Config(TRUE, "cloud", "unknown", "ok", "unknown"),
     Config(FALSE, "error", "ok", "ok", "ok")}

Message(role, parts) == [role |-> role, parts |-> parts]
Body(form, messages) == [form |-> form, messages |-> messages]

\* One conversation, which opens with a message of two parts.
First == Message("user", <<<<"fix">>, <<"this">>>>)
Instructions == Message("system", <<<<"be", "brief">>>>)

MCMessageBodies == {<<First>>, <<Message("user", <<>>)>>}

\* Two turns of it, with a system prompt; a role of a tool; and bodies that are
\* not chat requests at all.
MCChatBodies ==
    {Body("object", <<Instructions, First>>),
     Body("object", <<Instructions, First, Message("assistant", <<<<"done">>>>),
                      Message("user", <<<<"thanks">>>>)>>),
     Body("object", <<First, Message("tool", <<<<"result">>>>)>>),
     Body("garbage", <<>>), Body("scalar", <<>>)}

\* The text of that message, with its line break and without.
MCConversationKeys == {<<"fix", NL, "this">>, <<"fix", "this">>, NoKey}

\* Pipeline off, the cascade, and a pinned target.
MCChatChoices ==
    {[pipeline |-> FALSE, target |-> "cascade"], [pipeline |-> TRUE, target |-> "cascade"],
     [pipeline |-> TRUE, target |-> "named"]}
=============================================================================
