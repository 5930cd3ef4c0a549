--------------------------- MODULE MCSentinelScan ---------------------------
(* Small answers for TLC: every answer of up to two events with texts of up *)
(* to two characters, and every answer of three events with shorter texts.  *)
EXTENDS SentinelScan

MCSentinel == <<"s", "e">>

Chars == {"s", "e", "w", "W"}

TextEvent(t) == [kind |-> "text", text |-> t]
NoText == {[kind |-> "block", text |-> <<>>], [kind |-> "other", text |-> <<>>]}

ShortEvents == NoText \cup {TextEvent(<<c>>) : c \in Chars}
Events == ShortEvents \cup {TextEvent(<<>>)} \cup {TextEvent(<<c, d>>) : c, d \in Chars}

MCStreams ==
    {<<>>} \cup {<<a>> : a \in Events} \cup {<<a, b>> : a, b \in Events}
      \cup {<<a, b, c>> : a, b, c \in ShortEvents}

Blocks == {[kind |-> "block", text |-> <<>>], TextEvent(MCSentinel),
           TextEvent(<<"e">>), TextEvent(<<"w", "s", "e", "e">>)}

MCBodies == {<<>>} \cup {<<a>> : a \in Blocks} \cup {<<a, b>> : a, b \in Blocks}
=============================================================================
