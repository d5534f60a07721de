----------------------------- MODULE MCNetCache -----------------------------
(* Two Saves at once and one address more than the list holds. *)
EXTENDS NetCache, TLC

CONSTANTS a1, a2, a3, loop, final

MCAddrs == {a1, a2, a3}
MCSavers == {loop, final}
Symmetry == Permutations(MCAddrs) \cup Permutations(MCSavers)
=============================================================================
