----------------------------- MODULE MCEndpoints -----------------------------
(* Two lives of a node and a router that may give two addresses. *)
EXTENDS Endpoints

CONSTANTS p1, p2

MCPortExts == {p1, p2}
=============================================================================
