-------------------------- MODULE MCRouteResolution -------------------------
(* Two configured providers, p with a model of its own and the default q     *)
(* without; x is not configured.                                             *)
EXTENDS RouteResolution

MCQualified == {"p/m", "x/m"}
MCBare == {"p", "q", "x", "word", ""}
MCPrefix == [w \in MCQualified |-> IF w = "p/m" THEN "p" ELSE "x"]
MCProviders == {"p", "q"}
MCDefaultOf == [n \in MCProviders |-> IF n = "p" THEN "own" ELSE "NoModel"]

Word == <<"word">>
Command == <<"/model", " ", "p/m">>
CommandAndWord == <<"tab", "/model", " ", "x/m", "tab", "word">>
Spaced == <<"/model", " ", " ", "p/m">>     \* not what is stripped
Unqualified == <<"/model", " ", "word">>
NotLeading == <<"word", " ", "/model", " ", "p/m">>
\* The word the command asks for runs on, and its copy in a word is stripped, too.
RunOn == Command \o <<"word", " ">> \o Command \o <<"word", "/model", " ", "p/m", "word", "word">>
Mentioned == Command \o <<" ", "word">> \o Command \o <<"tab", "x/m">>
Repeated == Command \o <<" ", "word", " ">> \o Command

MCTyped == {[role |-> "user", parts |-> parts] : parts \in
    {<<t>> : t \in {Word, Command, CommandAndWord, Spaced, Unqualified, NotLeading, Repeated, RunOn, Mentioned}}
      \cup {<<Word, Command>>, <<Command, CommandAndWord>>, <<NotLeading, Spaced>>,
            <<CommandAndWord, Command>>}}

MCAnswers == {Word, <<"/model", " ", "x/m">>}
=============================================================================
