-------------------------- MODULE SettingsRegister --------------------------
(***************************************************************************)
(* What ChatState of src/chat_settings.rs promises the rest of the proxy,  *)
(* without its file and its handlers: a register that a request reads once *)
(* and a PUT sets at once.  A restart may bring back any value that was    *)
(* there before (the file of an earlier PUT, the configured defaults), and *)
(* nothing else unless the file is torn, when it takes what it finds.      *)
(* ChatState implements this; FrontDoor reads it.                          *)
(***************************************************************************)
CONSTANTS
    Values,     \* every ChatSettings the register may hold
    Acceptable  \* those put_settings accepts

VARIABLES
    value,      \* the settings in force
    ever,       \* what a restart may bring back: the defaults, what the state
                \* file held at first, and every choice that was put
    torn        \* the state file is a mixture of what two PUTs wrote

vars == <<value, ever, torn>>

Init ==
    /\ ever \subseteq Values
    /\ value \in ever
    /\ torn = FALSE

\* A PUT is in force as soon as it is applied, whether or not it is persisted.
Put(s) ==
    /\ s \in Acceptable
    /\ value' = s
    /\ ever' = ever \cup {s}
    /\ torn' = torn

\* The state file is written behind the register's back; one of several writes
\* may fail and leave it torn.
Persist ==
    /\ torn' \in BOOLEAN
    /\ UNCHANGED <<value, ever>>

\* The process starts again.
Recover ==
    /\ value' \in ever \cup {v \in Values : torn}
    /\ UNCHANGED <<ever, torn>>

Next == Recover \/ Persist \/ \E s \in Values : Put(s)

Spec == Init /\ [][Next]_vars
=============================================================================
