------------------------------ MODULE MCReflex ------------------------------
(* Two STUN servers; the router moves the node once. *)
EXTENDS Reflex

CONSTANTS s1, s2

MCServers == {s1, s2}
=============================================================================
