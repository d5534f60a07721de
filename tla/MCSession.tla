------------------------------ MODULE MCSession ------------------------------
(* One network with signalling servers and two that share the DHT node. *)
EXTENDS Session

CONSTANTS sig, dht1, dht2

MCTags == {sig, dht1, dht2}
MCDHTTags == {dht1, dht2}
=============================================================================
