------------------------------- MODULE Status --------------------------------
(***************************************************************************)
(* GET /status beside the tasks of the cascade: Orchestrator::status reads *)
(* the budget, the sticky map and the history one lock at a time, so that  *)
(* escalations go on between the parts of one reply.                       *)
(***************************************************************************)
EXTENDS Cascade

VARIABLE page   \* the reply being put together: the locks still to take, and
                \* the numbers read so far

statusVars == <<vars, page>>

Ledgers == {"budget", "sticky", "history"}

\* Mutant: the history is read before the numbers it explains.
HistoryFirst == <<"history", "budget", "sticky">>

\* The order in which status() takes the locks.
Order == <<"budget", "sticky", "history">>

BlankPage == [left |-> Order, seen |-> [l \in Ledgers |-> 0]]

StatusInit == Init /\ page = BlankPage

\* What one critical section reads: budget_used prunes and then counts;
\* the rest of the reply comes out of the history with the third number.
Reading(l) ==
    CASE l = "budget" -> used'
      [] l = "sticky" -> Cardinality(sticky)
      [] l = "history" -> history.total_escalations

\* The numbers so far, once the next lock has been taken.
Numbers == [page.seen EXCEPT ![Head(page.left)] = Reading(Head(page.left))]

\* The next critical section; after the last one the reply is sent.
ReadLedger(l) ==
    /\ l = Head(page.left)
    /\ IF l = "budget" THEN Pool!Refresh ELSE UNCHANGED <<used, answer>>
    /\ page' = IF Len(page.left) = 1 THEN BlankPage
               ELSE [left |-> Tail(page.left), seen |-> Numbers]
    /\ UNCHANGED <<cfg, req, sticky, history, metrics, heard, log>>

StatusNext ==
    \/ Next /\ UNCHANGED page
    \/ \E l \in Ledgers : ReadLedger(l)

StatusSpec == StatusInit /\ [][StatusNext]_statusVars

-----------------------------------------------------------------------------

\* Escalations that were granted and are not in the history yet.
Unrecorded == {r \in Requests : Granted(r) /\ (At(r, "reserved") \/ At(r, "record"))}

\* A reply of /status is not a snapshot, but its parts err on one side only:
\* it never shows more of the budget spent, or more conversations pinned to
\* the cloud, than the escalations it lists and those that are on their way
\* into the list when it is sent.
StatusNeverAhead ==
    [][page' = BlankPage /\ page # BlankPage =>
        LET explained == Numbers["history"] + Cardinality(Unrecorded)
        IN  Numbers["budget"] <= explained /\ Numbers["sticky"] <= explained]_statusVars

-----------------------------------------------------------------------------
\* The inductive invariant behind it, beside IInv and LedgersAgree of Cascade:
\* what has been read so far stays within the grants there are by now, because
\* a grant is never taken back and each of the two numbers was within the
\* grants of its own moment.
Pages == [left : {Order, <<"sticky", "history">>, <<"history">>}, seen : [Ledgers -> Nat]]

PageBehind ==
    /\ page \in Pages
    /\ page.left # Order => page.seen["budget"] <= Cardinality(GrantedRequests)
    /\ page.left = <<"history">> => page.seen["sticky"] <= Cardinality(GrantedRequests)

StatusIInv == IInv /\ LedgersAgree /\ PageBehind
=============================================================================
