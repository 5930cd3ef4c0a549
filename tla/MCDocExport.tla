---------------------------- MODULE MCDocExport -----------------------------
EXTENDS DocExport, TLC

MCSymmetry == Permutations(Requests)
=============================================================================
