------------------------------ MODULE ChatState -----------------------------
(***************************************************************************)
(* The runtime chat settings of src/chat_settings.rs and their handler     *)
(* put_settings in src/chat_proxy.rs: a value behind an RwLock and a JSON  *)
(* file, written by any number of PUT handlers at once and read back when  *)
(* the process starts.                                                     *)
(*                                                                         *)
(* set() updates memory under the lock, lets the lock go, and then calls   *)
(* std::fs::write, which opens the file with truncation and writes the     *)
(* text from offset 0 of its own descriptor.  These are separate steps     *)
(* here, and the process may die between any two of them.  The handler has *)
(* no await, so a client that hangs up does not stop it.                   *)
(***************************************************************************)
EXTENDS Naturals, Sequences, SequencesExt

CONSTANTS
    Puts,       \* PUT /chat/settings requests, each sent at most once
    Settings,   \* the ChatSettings a client may send
    Valid,      \* those whose model_override is "cascade" or names a provider
    Default,    \* the [chat] section of config.toml
    Bytes,      \* what a file is made of
    Text,       \* Text[s]: what serde_json::to_string_pretty makes of s
    Layouts,    \* Layouts[s]: every text that serde_json::from_str reads as s,
                \* white space where JSON allows it
    MaxCrashes  \* bound on the number of crashes

\* Settings has everything a text may be read as: whatever is a choice in form,
\* whether or not put_settings would accept it.
ASSUME SettingsAssumption == Valid \subseteq Settings /\ Default \in Settings
ASSUME LayoutAssumption ==
    /\ Text \in [Settings -> Seq(Bytes)] /\ Layouts \in [Settings -> SUBSET Seq(Bytes)]
    /\ \A s \in Settings : Text[s] \in Layouts[s]
    /\ \A s, t \in Settings : Layouts[s] \cap Layouts[t] # {} => s = t
\* An object ends with the brace that closes it: a part of its text is none, and
\* what comes after is white space, or the whole is none either.
ASSUME BraceAssumption ==
    \A s, t \in Settings : \A layout \in Layouts[t] :
        /\ layout # <<>>
        /\ IsPrefix(layout, Text[s]) => layout = Text[s]
        /\ IsPrefix(Text[s], layout) => t = s
ASSUME CrashAssumption == MaxCrashes \in Nat

VARIABLES
    up,         \* the process runs
    memory,     \* ChatState.settings
    file,       \* the bytes of state_file
    torn,       \* history variable: the file holds a part of a text and, behind
                \* it, the bytes of another
    found,      \* history variable: the settings the first start came up with
    put,        \* put[p]: the handler of request p
    latest,     \* history variable: the request that came when no other ran,
                \* and after which no other came; NoPut if there is none
    crashes

vars == <<up, memory, file, torn, found, put, latest, crashes>>

NoPut == "none"
ASSUME PutsAssumption == NoPut \notin Puts

Running == {"apply", "open", "write", "reply"}
Places == Running \cup {"idle", "ok", "rejected", "failed", "dropped", "lost"}

\* write_all from offset 0 over what the file holds: what is longer stays.
Overwrite(old, text) ==
    text \o SubSeq(old, Len(text) + 1, Len(old))

\* serde_json::from_str, of whatever the bytes in the file amount to: those of
\* two texts, one laid over the other, may read as a choice that nobody put.
Parses(bytes) == \E s \in Settings : bytes \in Layouts[s]
Parsed(bytes) == CHOOSE s \in Settings : bytes \in Layouts[s]

At(p, place) == put[p].at = place
Goto(p, place) == put' = [put EXCEPT ![p].at = place]

\* ChatState::load: the file wins when it parses, unvalidated; the defaults
\* otherwise.  An empty file stands for an absent one (neither parses).
Loaded == IF Parses(file) THEN Parsed(file) ELSE Default

\* The first start: no file yet, or one that an earlier run or an editor left.
Init ==
    /\ up = TRUE
    /\ file \in {<<>>} \cup UNION {Layouts[s] : s \in Settings}
    /\ torn = FALSE
    /\ memory = Loaded
    /\ found = memory
    /\ put = [p \in Puts |-> [at |-> "idle", new |-> Default]]
    /\ latest = NoPut
    /\ crashes = 0

\* Mutant: the routing target is not checked.
AcceptsAll(s) == TRUE

\* put_settings knows the target: "cascade", or a model of a known provider.
Accepts(s) == s \in Valid

\* put_settings parses and validates; an unknown target is a 400.
Receive(p) ==
    /\ up
    /\ At(p, "idle")
    /\ \E s \in Settings :
        /\ put' = [put EXCEPT ![p] =
                    [at |-> IF Accepts(s) THEN "apply" ELSE "rejected", new |-> s]]
        /\ latest' = IF ~Accepts(s) THEN latest
                     ELSE IF \E q \in Puts : put[q].at \in Running THEN NoPut ELSE p
    /\ UNCHANGED <<up, memory, file, torn, found, crashes>>

\* set(): the value goes in under the write lock.
Apply(p) ==
    /\ At(p, "apply")
    /\ memory' = put[p].new
    /\ Goto(p, "open")
    /\ UNCHANGED <<up, file, torn, found, latest, crashes>>

\* Mutant: the file is opened without truncation.
Kept(bytes) == bytes

\* std::fs::write opens with truncation.
Truncated(bytes) == <<>>

\* std::fs::write opens and truncates the file ...
Open(p) ==
    /\ At(p, "open")
    /\ file' = Truncated(file)
    /\ torn' = FALSE
    /\ Goto(p, "write")
    /\ UNCHANGED <<up, memory, found, latest, crashes>>

\* Mutant: the settings go back to what the file says.
RolledBack == Loaded

\* What is in force after a write that failed: "the in-memory update happens
\* even if the write fails".
AfterError == memory

\* ... or cannot: the old file stays and the reply is a 500.
OpenFails(p) ==
    /\ At(p, "open")
    /\ memory' = AfterError
    /\ Goto(p, "failed")
    /\ UNCHANGED <<up, file, torn, found, latest, crashes>>

\* The whole text reaches the file ...
Write(p) ==
    /\ At(p, "write")
    /\ file' = Overwrite(file, Text[put[p].new])
    /\ torn' = FALSE
    /\ Goto(p, "reply")
    /\ UNCHANGED <<up, memory, found, latest, crashes>>

\* ... or a part of it does before an error (a full disk, a quota): over what
\* others have written since the file was opened, if they have.
WriteFails(p) ==
    /\ At(p, "write")
    /\ \E n \in 0..(Len(Text[put[p].new]) - 1) :
        /\ file' = Overwrite(file, SubSeq(Text[put[p].new], 1, n))
        /\ torn' = IF n = 0 THEN torn ELSE n < Len(file)
    /\ memory' = AfterError
    /\ Goto(p, "failed")
    /\ UNCHANGED <<up, found, latest, crashes>>

\* 200, with what get_settings reads from memory by then.
Reply(p) ==
    /\ At(p, "reply")
    /\ Goto(p, "ok")
    /\ UNCHANGED <<up, memory, file, torn, found, latest, crashes>>

\* Where a handler is found once the process is dead.
AfterCrash(place) ==
    CASE place = "apply" -> "dropped"
      [] place \in Running \ {"apply"} -> "lost"
      [] OTHER -> place

\* The process dies: the handlers with it, the file as it is.
Crash ==
    /\ up
    /\ crashes < MaxCrashes
    /\ crashes' = crashes + 1
    /\ up' = FALSE
    /\ put' = [p \in Puts |-> [put[p] EXCEPT !.at = AfterCrash(@)]]
    /\ UNCHANGED <<memory, file, torn, found, latest>>

Restart ==
    /\ ~up
    /\ up' = TRUE
    /\ memory' = Loaded
    /\ UNCHANGED <<file, torn, found, put, latest, crashes>>

Handle(p) ==
    \/ Receive(p)
    \/ Apply(p)
    \/ Open(p)
    \/ OpenFails(p)
    \/ Write(p)
    \/ WriteFails(p)
    \/ Reply(p)

Next ==
    \/ Crash
    \/ Restart
    \/ \E p \in Puts : Handle(p)

Spec == Init /\ [][Next]_vars

-----------------------------------------------------------------------------

\* Every variable has the shape of the code's data.
TypeOK ==
    /\ up \in BOOLEAN
    /\ memory \in Settings
    /\ file \in Seq(Bytes)
    /\ torn \in BOOLEAN
    /\ found \in Settings
    /\ put \in [Puts -> [at : Places, new : Settings]]
    /\ latest \in Puts \cup {NoPut}
    /\ crashes \in 0..MaxCrashes

\* The choices that have been in force, or may come back at a restart.
EverApplied ==
    {Default, found}
        \cup {put[p].new : p \in {q \in Puts : put[q].at \notin {"idle", "rejected", "apply", "dropped"}}}

Register == INSTANCE SettingsRegister WITH
    Values <- Settings, Acceptable <- Valid, value <- memory, ever <- EverApplied

\* Whatever the interleaving of writers, write errors and crashes, the settings
\* behave like one register: they change when a choice that was accepted is
\* applied, and a restart comes up with the defaults, what the first start
\* found, or a whole choice applied before.  One case is beyond that: after a
\* write that failed over what another writer had written, and until the file is
\* opened or written whole again, a restart takes whatever the mixture reads as,
\* be it a choice that nobody put or one that was refused.
RegisterSpec == Register!Spec

\* A PUT that ran alone and was answered 200, with none after it, is on disk:
\* it is in force now, and after any crash and restart that follows.
LonePutSurvives ==
    \A p \in Puts :
        latest = p /\ At(p, "ok") =>
            file = Text[put[p].new] /\ (up => memory = put[p].new)

\* A PUT that ran alone and was answered 500, "settings applied but not
\* persisted", is indeed in force as long as the process lives.
FailedPutIsApplied ==
    \A p \in Puts :
        latest = p /\ At(p, "failed") /\ crashes = 0 => memory = put[p].new

-----------------------------------------------------------------------------
\* What the documentation says of the settings, and the code does not do.

\* docs/USER_GUIDE.md:215: panel edits persist and survive restarts.  With
\* every handler done and every one of them answered 200, the file holds the
\* settings in force.
AcceptedEditsPersist ==
    (\A p \in Puts : put[p].at \in {"idle", "ok", "rejected"}) /\ up
        /\ (\E p \in Puts : At(p, "ok"))
    => file = Text[memory]

-----------------------------------------------------------------------------
\* The inductive invariant behind the register and the two promises to a PUT
\* that runs alone.

\* A handler that runs does so in a live process, with a choice that was
\* accepted.
HandlersOK ==
    \A p \in Puts : put[p].at \in Running => up /\ put[p].new \in Valid

\* A file that is not torn is empty, a part of one text, or one whole text with
\* others' bytes behind it, however the writers interleave: it reads as nothing,
\* or as a choice that was applied.
ReadsAsApplied == ~torn /\ Parses(file) => Parsed(file) \in EverApplied

\* The request that runs alone, or was the last to: nobody else is running, and
\* memory and file are its own, as far as it has got.
AloneOK(p) ==
    /\ \A q \in Puts \ {p} : put[q].at \notin Running
    /\ put[p].at \in {"open", "write", "reply"} => memory = put[p].new
    /\ At(p, "write") => file = <<>>
    /\ put[p].at \in {"reply", "ok"} => file = Text[put[p].new]
    /\ At(p, "ok") /\ up => memory = put[p].new
    /\ At(p, "failed") /\ crashes = 0 => memory = put[p].new

IInv ==
    /\ TypeOK
    /\ HandlersOK
    /\ ReadsAsApplied
    /\ crashes = 0 => up
    /\ \A p \in Puts : latest = p => AloneOK(p)
=============================================================================
