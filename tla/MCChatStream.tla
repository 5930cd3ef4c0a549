---------------------------- MODULE MCChatStream ----------------------------
(* Answers in the order of the Anthropic protocol, complete or not, with     *)
(* texts of up to two characters, one of which takes two bytes.              *)
EXTENDS ChatStream

Chars == {"a", "b", "W"}

Typed(type, chars) == [kind |-> type, text |-> chars]

Texts == {<<"a">>, <<"W">>, <<"a", "W">>, <<"W", "b">>}
Opening == <<Typed("message_start", <<>>)>>
Starts == {Typed("content_block_start", t) : t \in {<<>>, <<"a">>}}
Deltas == {Typed("content_block_delta", t) : t \in Texts}
Closing == {<<>>, <<Typed("message_delta", <<>>)>>,
            <<Typed("message_delta", <<>>), Typed("message_stop", <<>>)>>,
            <<Typed("message_stop", <<>>), Typed("other", <<>>), Typed("message_stop", <<>>)>>}

MCStreams ==
    {<<>>, Opening, <<Typed("other", <<"a">>)>>}
      \cup {Opening \o <<s, d>> \o c : s \in Starts, d \in Deltas, c \in Closing}
      \cup {<<d, e>> : d, e \in Deltas}
=============================================================================
