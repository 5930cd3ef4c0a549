------------------------------ MODULE MCStatus ------------------------------
(* Small instances of Status, and of the Cascade it extends, for TLC. *)
EXTENDS Status, TLC

\* The interleavings alone are the question: the local tier is configured and
\* the cloud may not be, a failed attempt ends its request, and so does a named
\* route.
MCRaceConfig ==
    {[orchestrator |-> TRUE, failMode |-> "error",
      state |-> [local |-> "ok", cloud |-> cloud, named |-> "unknown"]] :
        cloud \in {"ok", "nokey"}}

\* No property tells two requests apart.
MCSymmetry == Permutations(Requests)
=============================================================================
