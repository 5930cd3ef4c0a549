------------------------------ MODULE MCPanel -------------------------------
(* Small instances of Panel, and of the ChatState it extends, for TLC. *)
EXTENDS Panel, TLC, FiniteSets

\* Two targets that the dropdown offers, and one that put_settings refuses.
Choice(pipeline, target) == [pipeline |-> pipeline, target |-> target]
MCSettings == {Choice(pipeline, target) : pipeline \in BOOLEAN,
                                          target \in {"cascade", "groq/m", "casc/m"}}
MCOffered == {"cascade", "groq/m"}
MCValid == {s \in MCSettings : s.target \in MCOffered}
MCDefault == Choice(TRUE, "cascade")

\* Texts are cut behind the fourth letter of the target: that of the refused one
\* begins like the cascade's and ends like the other's.  An editor leaves a line
\* break behind one of them.
MCBytes == {"true casc", "true groq", "false casc", "false groq", "ade}", "/m}", "newline"}
MCText == [s \in MCSettings |->
    <<CASE s.pipeline /\ s.target = "groq/m" -> "true groq"
        [] s.pipeline /\ s.target # "groq/m" -> "true casc"
        [] ~s.pipeline /\ s.target = "groq/m" -> "false groq"
        [] OTHER -> "false casc",
      IF s.target = "cascade" THEN "ade}" ELSE "/m}">>]
MCLayouts == [s \in MCSettings |->
    {MCText[s]} \cup (IF s = MCDefault THEN {MCText[s] \o <<"newline">>} ELSE {})]

\* No property tells two saves of the page apart.
MCSymmetry == Permutations(PanelPuts)

\* Bound: two of the PUTs are sent, both of them the page's or one of them the
\* other client's.
Used == {p \in Puts : ~At(p, "idle")} \cup {p \in PanelPuts : ~AtStage(p, "unused")}
TwoPuts == Cardinality(Used) <= 2
=============================================================================
