---------------------------- MODULE MCChatState -----------------------------
(* Small instances of ChatState for TLC. *)
EXTENDS ChatState, TLC

CONSTANTS cascade, pinned, unknown

\* Texts begin alike; that of a pinned target is longer than the cascade's.
MCBytes == {"{", "casc", "groq", "gone", "/m", "}", "newline"}
MCText ==
    (cascade :> <<"{", "casc", "}">>) @@ (pinned :> <<"{", "groq", "/m", "}">>)
        @@ (unknown :> <<"{", "gone", "/m", "}">>)
MCLayouts == [s \in DOMAIN MCText |-> {MCText[s], MCText[s] \o <<"newline">>}]
=============================================================================
