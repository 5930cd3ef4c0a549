---------------------------- MODULE CloudBudget -----------------------------
(***************************************************************************)
(* The sliding hourly budget of src/orchestrator.rs.                       *)
(*                                                                         *)
(* A call reads the clock BEFORE it takes the cloud_calls mutex            *)
(* (try_reserve_cloud_call evaluates Instant::now() as the argument of     *)
(* try_reserve_cloud_call_at), so two tasks can take the lock in the other *)
(* order than the one they read the clock in, and the deque of instants is *)
(* not sorted.  Sample is the clock read; Grant, Deny and Report are what  *)
(* happens under the lock, each with the whole prune_window loop in it.    *)
(***************************************************************************)
EXTENDS Integers, Sequences

CONSTANTS
    Callers,    \* tasks that may be inside a budget call at the same time
    Cap,        \* max_cloud_requests_per_hour, a u32
    Hour,       \* the window of prune_window, in ticks
    MaxStall,   \* bound: ticks a task may pass between clock read and lock
    MaxTime     \* bound on the clock, so that TLC terminates

ASSUME CapAssumption == Cap \in Nat
ASSUME HourAssumption == Hour \in Nat \ {0}
ASSUME StallAssumption == MaxStall \in Nat
ASSUME TimeAssumption == MaxTime \in Nat

VARIABLES
    clock,      \* the monotonic clock behind Instant::now()
    pc,         \* pc[c]: where caller c is
    now,        \* now[c]: the instant c holds, 0 when it holds none
    calls,      \* cloud_calls: the reservations still counted, oldest first
    granted     \* history: every grant, its stamp and the time it was made at

vars == <<clock, pc, now, calls, granted>>

Time == 0..MaxTime
Waiting == {"reserve", "report"}    \* holds an instant, wants the lock
Returned == {"granted", "denied", "reported"}
Grants == [stamp : Time, at : Time]

Init ==
    /\ clock = 0
    /\ pc = [c \in Callers |-> "idle"]
    /\ now = [c \in Callers |-> 0]
    /\ calls = <<>>
    /\ granted = <<>>

-----------------------------------------------------------------------------

\* Instant::duration_since saturates at zero when t is later than n.
DurationSince(n, t) == IF t <= n THEN n - t ELSE 0

\* Mutant: a window one tick short.
ExpiredEarly(n, t) == DurationSince(n, t) >= Hour - 1

Expired(n, t) == DurationSince(n, t) >= Hour

\* Mutant: one `if` where the code has a `while`.
PruneAtMostOne(k, n) ==
    IF calls # <<>> /\ Expired(n, calls[1]) THEN k = 1 ELSE k = 0

\* prune_window pops the front while the front has expired: it stops after
\* k pops when the first k have expired and there is no next or it has not.
PruneStopsAt(k, n) ==
    /\ \A i \in 1..k : Expired(n, calls[i])
    /\ k < Len(calls) => ~Expired(n, calls[k + 1])

\* Mutant: pop_back for pop_front.
KeptOldest(k) == SubSeq(calls, 1, Len(calls) - k)

\* What is left of the deque after k pops.
Kept(k) == SubSeq(calls, k + 1, Len(calls))

\* Instant::now(), on the way into try_reserve_cloud_call or budget_used.
Sample(c) ==
    /\ pc[c] = "idle"
    /\ \E op \in Waiting : pc' = [pc EXCEPT ![c] = op]
    /\ now' = [now EXCEPT ![c] = clock]
    /\ UNCHANGED <<clock, calls, granted>>

\* Mutant: <= for < in the room test.
GrantOneTooMany(c) ==
    /\ pc[c] = "reserve"
    /\ \E k \in 0..Len(calls) :
        /\ PruneStopsAt(k, now[c])
        /\ Len(Kept(k)) <= Cap
        /\ calls' = Append(Kept(k), now[c])
    /\ granted' = Append(granted, [stamp |-> now[c], at |-> clock])
    /\ pc' = [pc EXCEPT ![c] = "granted"]
    /\ UNCHANGED <<clock, now>>

\* Mutant: the instant of expiry is pushed where the reading code expects
\* the instant of the call.
GrantPushingExpiry(c) ==
    /\ pc[c] = "reserve"
    /\ \E k \in 0..Len(calls) :
        /\ PruneStopsAt(k, now[c])
        /\ Len(Kept(k)) < Cap
        /\ calls' = Append(Kept(k), now[c] + Hour)
    /\ granted' = Append(granted, [stamp |-> now[c], at |-> clock])
    /\ pc' = [pc EXCEPT ![c] = "granted"]
    /\ UNCHANGED <<clock, now>>

\* Under the lock: prune, find room, push the instant the caller came with.
Grant(c) ==
    /\ pc[c] = "reserve"
    /\ \E k \in 0..Len(calls) :
        /\ PruneStopsAt(k, now[c])
        /\ Len(Kept(k)) < Cap
        /\ calls' = Append(Kept(k), now[c])
    /\ granted' = Append(granted, [stamp |-> now[c], at |-> clock])
    /\ pc' = [pc EXCEPT ![c] = "granted"]
    /\ UNCHANGED <<clock, now>>

\* Mutant: the room test comes before the pruning.
DenyBeforePrune(c) ==
    /\ pc[c] = "reserve"
    /\ Len(calls) >= Cap
    /\ \E k \in 0..Len(calls) :
        /\ PruneStopsAt(k, now[c])
        /\ calls' = Kept(k)
    /\ pc' = [pc EXCEPT ![c] = "denied"]
    /\ UNCHANGED <<clock, now, granted>>

\* Under the lock: prune, find none, leave the pruned deque.
Deny(c) ==
    /\ pc[c] = "reserve"
    /\ \E k \in 0..Len(calls) :
        /\ PruneStopsAt(k, now[c])
        /\ Len(Kept(k)) >= Cap
        /\ calls' = Kept(k)
    /\ pc' = [pc EXCEPT ![c] = "denied"]
    /\ UNCHANGED <<clock, now, granted>>

\* budget_used_at: prune and return the length.
Report(c) ==
    /\ pc[c] = "report"
    /\ \E k \in 0..Len(calls) :
        /\ PruneStopsAt(k, now[c])
        /\ calls' = Kept(k)
    /\ pc' = [pc EXCEPT ![c] = "reported"]
    /\ UNCHANGED <<clock, now, granted>>

\* The call returns to its caller.
Return(c) ==
    /\ pc[c] \in Returned
    /\ pc' = [pc EXCEPT ![c] = "idle"]
    /\ now' = [now EXCEPT ![c] = 0]
    /\ UNCHANGED <<clock, calls, granted>>

\* Time passes; no caller waits for the lock longer than MaxStall.
Tick ==
    /\ clock < MaxTime
    /\ \A c \in Callers : pc[c] \in Waiting => clock < now[c] + MaxStall
    /\ clock' = clock + 1
    /\ UNCHANGED <<pc, now, calls, granted>>

Next ==
    \/ Tick
    \/ \E c \in Callers :
        Sample(c) \/ Grant(c) \/ Deny(c) \/ Report(c) \/ Return(c)

Spec == Init /\ [][Next]_vars

-----------------------------------------------------------------------------

\* Every variable has the shape of the code's data: no instant is later than
\* the bound, and a caller is in one of the places a budget call has.
TypeOK ==
    /\ clock \in Time
    /\ pc \in [Callers -> {"idle"} \cup Waiting \cup Returned]
    /\ now \in [Callers -> Time]
    /\ calls \in Seq(Time)
    /\ granted \in Seq(Grants)

\* The deque never holds more than max_cloud_requests_per_hour reservations,
\* in whatever order the tasks reach the lock: remaining, computed by status()
\* as max - used, never has to saturate.
BudgetNeverExceeded == Len(calls) <= Cap

\* The promise of the budget: Cap + 1 grants in a row are never made within
\* less than an hour, but for the time one task may pass between its clock
\* read and the lock.  With MaxStall = 0 the bound is the exact hour.
WindowCap ==
    \A i \in 1..Len(granted) :
        i + Cap <= Len(granted) =>
            granted[i + Cap].at >= granted[i].at + Hour - MaxStall

\* How many grants of the history have left the deque.
Popped == Len(granted) - Len(calls)

\* The deque is the recent end of the history of grants: pruning drops old
\* reservations from the front and loses or reorders none of the others.
DequeIsRecentGrants ==
    /\ Len(calls) <= Len(granted)
    /\ \A i \in 1..Len(calls) : calls[i] = granted[Popped + i].stamp

\* A grant is stamped when it was asked for, at most MaxStall before it was
\* made, and grants are recorded in the order they were made.
StampsAreRecent ==
    /\ \A i \in 1..Len(granted) :
        /\ granted[i].stamp <= granted[i].at
        /\ granted[i].at <= granted[i].stamp + MaxStall
        /\ granted[i].at <= clock
    /\ \A i, j \in 1..Len(granted) : i <= j => granted[i].at <= granted[j].at

\* An instant a caller still has to use is at most MaxStall old.
SamplesAreRecent ==
    \A c \in Callers :
        pc[c] \in Waiting => now[c] <= clock /\ clock <= now[c] + MaxStall

\* Only a reservation made at least an hour ago (but for MaxStall) is pruned.
PrunedAreOld ==
    \A i \in 1..Popped : granted[i].at + Hour - MaxStall <= clock

\* The inductive invariant: what WindowCap needs to be preserved.
IInv ==
    /\ TypeOK
    /\ BudgetNeverExceeded
    /\ DequeIsRecentGrants
    /\ StampsAreRecent
    /\ SamplesAreRecent
    /\ PrunedAreOld
    /\ WindowCap

\* c took the lock in this step and was answered without a grant.
AnsweredWithoutGrant(c) ==
    pc[c] \in Waiting /\ pc'[c] \in {"denied", "reported"}

\* A denial, and the figure /status and /metrics show, count no reservation
\* older than an hour plus MaxStall: every reservation left in the deque when
\* such a call ends was made that recently, although the deque is unsorted
\* and the loop stops at the first fresh entry.
NothingStaleCounted ==
    [][\A c \in Callers :
        AnsweredWithoutGrant(c) =>
            \A i \in (Popped' + 1)..Len(granted') :
                clock' < granted'[i].at + Hour + MaxStall]_vars

\* The answers as BudgetPool has them.
Answer == [c \in Callers |-> IF pc[c] \in {"granted", "denied"} THEN pc[c] ELSE "none"]

Pool == INSTANCE BudgetPool WITH used <- Len(calls), answer <- Answer

\* The deque of instants implements the pool of Cap permits: whatever the
\* interleaving, callers see grants only below Cap and denials only at Cap.
PoolSpec == Pool!Spec
=============================================================================
