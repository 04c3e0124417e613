----------------------------- MODULE MCFreeSpace -----------------------------
(* Three threads, one list with a reserve of two.                          *)
EXTENDS FreeSpace, TLC

CONSTANTS t1, t2, t3

MCThreads == {t1, t2, t3}
Symmetry == Permutations(MCThreads)
==============================================================================
