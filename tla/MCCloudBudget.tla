--------------------------- MODULE MCCloudBudget ----------------------------
(* A small instance of CloudBudget for TLC. *)
EXTENDS CloudBudget, TLC

\* Callers run the same code and no property tells them apart.
CallerSymmetry == Permutations(Callers)
=============================================================================
