----------------------------- MODULE BudgetPool -----------------------------
(***************************************************************************)
(* What Orchestrator::try_reserve_cloud_call and budget_used promise the   *)
(* rest of the proxy, without saying how time is kept: a pool of Cap       *)
(* permits, of which used are out.  A permit is never handed back by the   *)
(* request it was granted to; it comes back when it has aged out, and the  *)
(* program notices that only inside a call.  CloudBudget implements this   *)
(* with a deque of instants; Cascade is built on this and nothing more.    *)
(***************************************************************************)
EXTENDS Naturals

CONSTANTS
    Callers,    \* the tasks that ask for a permit
    Cap         \* max_cloud_requests_per_hour, a u32

VARIABLES
    used,       \* permits the pool counts as out
    answer      \* answer[c]: what the last request of c returned

vars == <<used, answer>>

Answers == {"none", "granted", "denied"}

Init ==
    /\ used = 0
    /\ answer = [c \in Callers |-> "none"]

\* A call lets the aged permits go (used - kept of them), then takes one if
\* that leaves room: the answer is true and one more is out.
Reserve(c) ==
    \E kept \in 0..used :
        /\ kept < Cap
        /\ used' = kept + 1
        /\ answer' = [answer EXCEPT ![c] = "granted"]

\* With every permit still out the call takes nothing and answers false.
Deny(c) ==
    /\ used = Cap
    /\ answer' = [answer EXCEPT ![c] = "denied"]
    /\ UNCHANGED used

\* Reading the gauge ages permits as well, and hands out none.
Refresh ==
    /\ used' \in 0..used
    /\ UNCHANGED answer

\* The caller has read its answer and goes on.
Return(c) ==
    /\ answer' = [answer EXCEPT ![c] = "none"]
    /\ UNCHANGED used

Next ==
    \/ Refresh
    \/ \E c \in Callers : Reserve(c) \/ Deny(c) \/ Return(c)

Spec == Init /\ [][Next]_vars
=============================================================================
