------------------------------ MODULE DocExport -----------------------------
(***************************************************************************)
(* The export sidecar, docexport/app.py: convert renders a file and enters *)
(* it in _EXPORTS, download serves it, and each begins by pruning what is  *)
(* past the retention window.                                              *)
(*                                                                         *)
(* Both handlers are plain `def`s, so the server runs them in a pool of    *)
(* threads: a thread can be overtaken between any two operations on the    *)
(* dict or the disk, each of which is atomic.  The dict lives in memory,   *)
(* the files in the container, which a restart keeps.                      *)
(***************************************************************************)
EXTENDS Integers, Sequences, SequencesExt

CONSTANTS
    Requests,   \* requests, each handled once; a convert's file_id is itself
    Retention,  \* RETENTION_SECONDS, in ticks
    MaxTime,    \* bound on the clock
    MaxRestarts \* bound on restarts of the container

ASSUME RetentionAssumption == Retention \in Nat
ASSUME BoundAssumption == MaxTime \in Nat /\ MaxRestarts \in Nat

VARIABLES
    clock,      \* time.time(); taken to be monotonic
    exports,    \* _EXPORTS in insertion order: ids and their created_at
    files,      \* ids whose file is in EXPORT_DIR
    req,        \* req[r]: the thread handling request r; left is what its
                \* loop has still to look at, boot the process it began in
    converted,  \* history: ids whose conversion was entered, and when
    restarts

vars == <<clock, exports, files, req, converted, restarts>>

Export == [id : Requests, created_at : 0..MaxTime]

\* entered: the loop of _prune_expired not begun; loop: at its condition; del:
\* in its body; render, register, stat: convert; get, exists, send: download.
Places == {"idle", "entered", "loop", "del", "render", "register", "stat",
           "get", "exists", "send", "done"}

Answers == {"none", "200", "400", "404", "413", "failed", "500", "reset"}

Thread == [at : Places, op : {"convert", "download"}, id : Requests,
           now : 0..MaxTime, left : Seq(Export), answer : Answers, boot : 0..MaxRestarts]

Init ==
    /\ clock = 0
    /\ exports = <<>>
    /\ files = {}
    /\ req = [r \in Requests |-> [at |-> "idle", op |-> "convert", id |-> r, now |-> 0,
                                  left |-> <<>>, answer |-> "none", boot |-> 0]]
    /\ converted = {}
    /\ restarts = 0

-----------------------------------------------------------------------------

At(r, place) == req[r].at = place
Goto(r, place) == req' = [req EXCEPT ![r].at = place]
Respond(r, status) == req' = [req EXCEPT ![r].at = "done", ![r].answer = status]

Registered(id) == \E i \in DOMAIN exports : exports[i].id = id
Running(r) == req[r].at \notin {"idle", "done"}

\* Where the handler goes on when _prune_expired returns.
AfterPrune(r) == IF req[r].op = "convert" THEN "render" ELSE "get"

\* The loop goes on with what is left, or is over.
Loop(r, left) ==
    req' = [req EXCEPT ![r].at = IF left = <<>> THEN AfterPrune(r) ELSE "loop",
                       ![r].left = left]

\* Mutant: the age is compared with >.
ExpiredLate(e, now) == now - e.created_at > Retention

Expired(e, now) == now - e.created_at >= Retention

\* Mutant: the file is not removed, the entry is.
UnlinkedNot(id) == files

\* unlink(missing_ok=True).
Unlinked(id) == files \ {id}

\* Mutant: the entry stays in the dict.
DeletedNot(id) == exports

\* del _EXPORTS[file_id].
Deleted(id) == RemoveAt(exports, CHOOSE i \in DOMAIN exports : exports[i].id = id)

\* Mutant: created_at is the time the conversion was asked for.
StampRequest(r) == req[r].now

\* Mutant: the time of expiry is entered where the prune expects the creation.
StampExpiry(r) == clock + Retention

\* created_at is the time the file was finished at.
Stamp(r) == clock

\* convert answers an unfit body before anything else ...
Reject(r) ==
    /\ At(r, "idle")
    /\ \E status \in {"400", "413"} : Respond(r, status)
    /\ UNCHANGED <<clock, exports, files, converted, restarts>>

\* ... and then, like download from the start, reads the clock to prune.
Enter(r) ==
    /\ At(r, "idle")
    /\ \E op \in {"convert", "download"}, id \in Requests :
        /\ op = "convert" => id = r
        /\ req' = [req EXCEPT ![r].at = "entered", ![r].op = op, ![r].id = id,
                              ![r].now = clock, ![r].boot = restarts]
    /\ UNCHANGED <<clock, exports, files, converted, restarts>>

\* list(_EXPORTS.items()): a copy of the dict.
PruneSnapshot(r) ==
    /\ At(r, "entered")
    /\ Loop(r, exports)
    /\ UNCHANGED <<clock, exports, files, converted, restarts>>

\* An entry that is not old enough is passed over.
PruneSkip(r) ==
    /\ At(r, "loop")
    /\ ~Expired(Head(req[r].left), req[r].now)
    /\ Loop(r, Tail(req[r].left))
    /\ UNCHANGED <<clock, exports, files, converted, restarts>>

\* unlink(missing_ok=True): whoever comes second finds no file and goes on ...
PruneUnlink(r) ==
    /\ At(r, "loop")
    /\ Expired(Head(req[r].left), req[r].now)
    /\ files' = Unlinked(Head(req[r].left).id)
    /\ Goto(r, "del")
    /\ UNCHANGED <<clock, exports, converted, restarts>>

\* ... but `del` of an entry someone else removed raises KeyError, a 500.
PruneDel(r) ==
    LET id == Head(req[r].left).id
    IN  /\ At(r, "del")
        /\ IF Registered(id)
             THEN Loop(r, Tail(req[r].left)) /\ exports' = Deleted(id)
             ELSE Respond(r, "500") /\ UNCHANGED exports
        /\ UNCHANGED <<clock, files, converted, restarts>>

\* pandoc, and WeasyPrint for a PDF, write the file ...
Render(r) ==
    /\ At(r, "render")
    /\ files' = files \cup {r}
    /\ Goto(r, "register")
    /\ UNCHANGED <<clock, exports, converted, restarts>>

\* ... or fail (500, 502, 504), perhaps with a part of the file written.
RenderFails(r) ==
    /\ At(r, "render")
    /\ \E part \in {{}, {r}} : files' = files \cup part
    /\ Respond(r, "failed")
    /\ UNCHANGED <<clock, exports, converted, restarts>>

\* The file is entered in the dict.
Register(r) ==
    /\ At(r, "register")
    /\ exports' = Append(exports, [id |-> r, created_at |-> Stamp(r)])
    /\ converted' = converted \cup {[id |-> r, created_at |-> clock]}
    /\ Goto(r, "stat")
    /\ UNCHANGED <<clock, files, restarts>>

\* destination.stat() for the reply's size: the entry can be pruned by then.
Stat(r) ==
    /\ At(r, "stat")
    /\ Respond(r, IF r \in files THEN "200" ELSE "500")
    /\ UNCHANGED <<clock, exports, files, converted, restarts>>

Get(r) ==
    /\ At(r, "get")
    /\ IF Registered(req[r].id) THEN Goto(r, "exists") ELSE Respond(r, "404")
    /\ UNCHANGED <<clock, exports, files, converted, restarts>>

Exists(r) ==
    /\ At(r, "exists")
    /\ IF req[r].id \in files THEN Goto(r, "send") ELSE Respond(r, "404")
    /\ UNCHANGED <<clock, exports, files, converted, restarts>>

\* FileResponse looks for the file again when the response is sent, and
\* raises when it has gone.
SendFile(r) ==
    /\ At(r, "send")
    /\ Respond(r, IF req[r].id \in files THEN "200" ELSE "500")
    /\ UNCHANGED <<clock, exports, files, converted, restarts>>

\* The container restarts: threads and dict are gone, the files stay.
Restart ==
    /\ restarts < MaxRestarts
    /\ restarts' = restarts + 1
    /\ exports' = <<>>
    /\ req' = [r \in Requests |-> IF Running(r)
                                    THEN [req[r] EXCEPT !.at = "done", !.answer = "reset"]
                                    ELSE req[r]]
    /\ UNCHANGED <<clock, files, converted>>

Tick ==
    /\ clock < MaxTime
    /\ clock' = clock + 1
    /\ UNCHANGED <<exports, files, req, converted, restarts>>

Handle(r) ==
    \/ Reject(r)
    \/ Enter(r)
    \/ PruneSnapshot(r)
    \/ PruneSkip(r)
    \/ PruneUnlink(r)
    \/ PruneDel(r)
    \/ Render(r)
    \/ RenderFails(r)
    \/ Register(r)
    \/ Stat(r)
    \/ Get(r)
    \/ Exists(r)
    \/ SendFile(r)

Next == Tick \/ Restart \/ \E r \in Requests : Handle(r)

Spec == Init /\ [][Next]_vars

-----------------------------------------------------------------------------

CreatedAt(id) == (CHOOSE c \in converted : c.id = id).created_at

Deleting(id) == \E r \in Requests : At(r, "del") /\ Head(req[r].left).id = id

\* Every variable has the shape of the code's data, and the keys of the dict
\* are distinct.
TypeOK ==
    /\ clock \in 0..MaxTime
    /\ exports \in Seq(Export)
    /\ \A i, j \in DOMAIN exports : exports[i].id = exports[j].id => i = j
    /\ files \subseteq Requests
    /\ req \in [Requests -> Thread]
    /\ converted \subseteq Export
    /\ restarts \in 0..MaxRestarts

\* Until the process restarts, the link a conversion of it returned works for the
\* whole retention window: no prune of any thread, whatever it read and when,
\* removes the entry or the file of an export that is not old enough.
LinksWorkUntilExpiry ==
    \A c \in converted :
        req[c.id].boot = restarts /\ clock - c.created_at < Retention =>
            Registered(c.id) /\ c.id \in files

\* A file that no entry names belongs to a conversion under way, to one that
\* failed half-way, or to a process of before a restart, whose files nobody
\* removes: threads of one process that prune the same entries, and the KeyError
\* that ends one of them, leave none.
NoFileLeaks ==
    \A id \in files :
        \/ Registered(id)
        \/ At(id, "register")
        \/ req[id].answer = "failed"
        \/ req[id].boot < restarts

\* An entry without its file is about to go: a thread is between the unlink
\* and the del of it.
EntriesHaveFiles ==
    \A i \in DOMAIN exports : exports[i].id \in files \/ Deleting(exports[i].id)

\* A download is never answered with an export that had expired when the
\* request came in, although the pruning it relies on runs in many threads
\* and a thread that loses the race for an entry stops pruning.
ServedIsFresh ==
    \A r \in Requests :
        req[r].op = "download" /\ (At(r, "send") \/ req[r].answer = "200") =>
            req[r].now - CreatedAt(req[r].id) < Retention

-----------------------------------------------------------------------------
\* What docexport/README.md says, and the code does not do.

\* README.md:125: an unknown or expired file is a 404.
DownloadsAreFoundOrNot ==
    \A r \in Requests :
        At(r, "done") /\ req[r].op = "download" /\ restarts = 0 =>
            req[r].answer \in {"none", "200", "400", "404", "413"}

-----------------------------------------------------------------------------
\* The inductive invariant behind them: which thread answers for each entry and
\* each file.

\* An id is converted once, by its own thread, which does not come back to it.
ConversionsOK ==
    /\ \A c, d \in converted : c.id = d.id => c = d
    /\ \A c \in converted :
        /\ req[c.id].op = "convert"
        /\ req[c.id].at \in {"stat", "done"}
        /\ c.created_at <= clock
    /\ \A i \in DOMAIN exports : exports[i] \in converted

\* A thread is at a place of its own handler, with a copy of entries that were
\* made; between the unlink and the del it has an expired one without a file.
ThreadOK(r) ==
    /\ req[r].now <= clock
    /\ req[r].answer # "none" => At(r, "done")
    /\ \A i \in DOMAIN req[r].left : req[r].left[i] \in converted
    /\ req[r].at \in {"render", "register", "stat"} => req[r].op = "convert"
    /\ req[r].at \in {"get", "exists", "send"} => req[r].op = "download"
    /\ req[r].at \in {"loop", "del"} => req[r].left # <<>>
    /\ At(r, "del") =>
        Expired(Head(req[r].left), req[r].now) /\ Head(req[r].left).id \notin files
    /\ At(r, "register") => r \in files
    /\ At(r, "idle") => r \notin files
    /\ req[r].boot <= restarts

\* What had expired when a thread came in, and is still in the dict, it has
\* still to look at; a download that has looked at everything finds nothing
\* that had, and keeps what it found.
PruneOK(r) ==
    /\ req[r].at \in {"loop", "del"} =>
        \A i \in DOMAIN exports :
            Expired(exports[i], req[r].now) =>
                \E k \in DOMAIN req[r].left : req[r].left[k] = exports[i]
    /\ At(r, "get") => \A i \in DOMAIN exports : ~Expired(exports[i], req[r].now)
    /\ req[r].op = "download" /\ (req[r].at \in {"exists", "send"} \/ req[r].answer = "200") =>
        \E c \in converted : c.id = req[r].id /\ ~Expired(c, req[r].now)

\* With a window of no time at all an entry has expired when it is made: PruneOK
\* is about the others.
IInv ==
    /\ TypeOK
    /\ ConversionsOK
    /\ \A r \in Requests : ThreadOK(r) /\ (Retention > 0 => PruneOK(r))
    /\ LinksWorkUntilExpiry
    /\ EntriesHaveFiles
    /\ NoFileLeaks
=============================================================================
