------------------------------- MODULE MCMesh -------------------------------
(* One node moves twice, the last time perhaps to where only the relay       *)
(* reaches it, the other once; the list of candidates is full after one move.*)
EXTENDS Mesh

CONSTANTS n1, n2

MCNodes == {n1, n2}
MCNarrow == {n1}
MCMaxMove == [n \in MCNodes |-> IF n = n1 THEN 2 ELSE 1]
=============================================================================
