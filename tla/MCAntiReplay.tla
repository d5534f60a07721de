---------------------------- MODULE MCAntiReplay ----------------------------
(* Two goroutines, a window of two counters, two network objects: enough for *)
(* frames of both objects in flight at once and for every position of a      *)
(* counter relative to the window.                                           *)
EXTENDS AntiReplay, TLC

CONSTANTS t1, t2

MCThreads == {t1, t2}
Symmetry == Permutations(MCThreads)
=============================================================================
