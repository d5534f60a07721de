---------------------------- MODULE MCPathHealth ----------------------------
(* A network found through signalling, which may use the relay, and one      *)
(* found through the DHT, which may not.                                     *)
EXTENDS PathHealth

CONSTANTS lan, dht

MCNets == {lan, dht}
MCRelayNets == {lan}
MCSignalNets == {lan}
=============================================================================
