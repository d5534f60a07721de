------------------------------ MODULE Discovery ------------------------------
(***************************************************************************)
(* How the nodes of one network find each other: registerLoop of every     *)
(* node (internal/app/session.go) asks all signalling servers in rounds,   *)
(* joins their answers into one list, and Engine.SyncPeers (internal/peer) *)
(* takes in who is listed and forgets who has been missing for too long.   *)
(*                                                                         *)
(* One server of the pool is followed in full, by what Presence promises   *)
(* of it; the others fail or answer anything.  Nodes hear nothing of each  *)
(* other but these lists, the case in which forgetting is up to them.      *)
(* Clocks are in ticks, and no two rounds of a node start within one.      *)
(***************************************************************************)
EXTENDS Presence, FiniteSets

CONSTANTS
    Slow,           \* registerSlow: the longest pause between rounds
    Round,          \* the longest round, in which a server did not answer at all
    PeerForget,     \* peerForget
    MaxMissed       \* rounds in a row that fail to register a node

ASSUME PaceAssumption == {Slow, Round, PeerForget, MaxMissed} \subseteq Nat /\ Slow > 0

VARIABLES
    at,             \* where each node's loop is
    clock,          \* ticks it has been there
    missed,         \* rounds in a row in which the node was not registered
    known,          \* per node: n.peers, the peers its engine knows
    absent          \* per node and peer: ticks since absentSince, None for the zero time

vars == <<presenceVars, at, clock, missed, known, absent>>

None == PeerForget + 1
Passed(d) == IF d < PeerForget THEN d + 1 ELSE d    \* None stays

TypeOK ==
    /\ PresenceTypeOK
    /\ at \in [Peers -> {"pausing", "asking", "served"}]
    /\ clock \in [Peers -> 0..(IF Slow > Round THEN Slow ELSE Round)]
    /\ missed \in [Peers -> 0..MaxMissed]
    /\ known \in [Peers -> SUBSET Peers] /\ \A n \in Peers : n \notin known[n]
    /\ absent \in [Peers -> [Peers -> 0..None]]

DInit ==
    /\ Init
    /\ at = [n \in Peers |-> "pausing"]
    /\ clock = [n \in Peers |-> Slow]           \* the first round comes at once
    /\ missed = [n \in Peers |-> 0]
    /\ known = [n \in Peers |-> {}]
    /\ absent = [n \in Peers |-> [m \in Peers |-> None]]

(* A fault may begin when nothing is left of the one before. *)
Settled ==
    /\ Live = Peers
    /\ \A n \in Peers : missed[n] = 0 /\ \A m \in Peers : absent[n][m] = None

-----------------------------------------------------------------------------
Ask(n) ==
    /\ at[n] = "pausing" /\ clock[n] > 0
    /\ at' = [at EXCEPT ![n] = "asking"] /\ clock' = [clock EXCEPT ![n] = 0]
    /\ told' = [told EXCEPT ![n] = {}]
    /\ UNCHANGED <<durable, age, missed, known, absent>>

(* The followed server takes the registration; only a fault loses its answer. *)
Served(n) ==
    /\ at[n] = "asking"
    /\ Accept(n)
    /\ told'[n] = {} => Settled
    /\ at' = [at EXCEPT ![n] = "served"]
    /\ missed' = [missed EXCEPT ![n] = 0]
    /\ UNCHANGED <<clock, known, absent>>

Missed(n) ==
    /\ at[n] = "asking"
    /\ missed[n] < MaxMissed /\ (missed[n] = 0 => Settled)
    /\ at' = [at EXCEPT ![n] = "served"]
    /\ missed' = [missed EXCEPT ![n] = @ + 1]
    /\ UNCHANGED <<presenceVars, clock, known, absent>>

(* Slip: an answer replaces the answers of the servers before it. *)
LastAnswer(n, other) == UNION (IF other = {} THEN told[n] ELSE other)

Merged(n, other) == UNION (told[n] \cup other)

Others(n, list) == list \ {n}

(* Slip: who is missing from one list is forgotten at once, as it once was. *)
SyncAtOnce(n, all) ==
    /\ known' = [known EXCEPT ![n] = Others(n, all)]
    /\ UNCHANGED absent

Sync(n, all) ==
    LET list == Others(n, all)
        missing == known[n] \ list
        expired == {m \in missing : absent[n][m] # None /\ absent[n][m] >= PeerForget}
    IN /\ known' = [known EXCEPT ![n] = (@ \cup list) \ expired]
       /\ absent' = [absent EXCEPT ![n] = [m \in Peers |->
              IF m \notin missing \ expired THEN None
              ELSE IF absent[n][m] = None THEN 0 ELSE absent[n][m]]]

(* All requests of the round are over.  Nobody answered: nothing is done. *)
EndRound(n) ==
    /\ at[n] = "served"
    /\ \E other \in {{}} \cup {{s} : s \in SUBSET Peers} :
        IF told[n] \cup other = {}
        THEN UNCHANGED <<known, absent>>
        ELSE Sync(n, Merged(n, other))
    /\ at' = [at EXCEPT ![n] = "pausing"] /\ clock' = [clock EXCEPT ![n] = 0]
    /\ UNCHANGED <<presenceVars, missed>>

(* The followed server restarts without its memory. *)
Restarted ==
    /\ Settled
    /\ Forget
    /\ UNCHANGED <<at, clock, missed, known, absent>>

(* The followed server answers at once or not at all; what a round waits for *)
(* is the servers that do not answer.                                        *)
TimePasses ==
    /\ \A n \in Peers : at[n] # "asking"
    /\ \A n \in Peers : clock[n] < IF at[n] = "pausing" THEN Slow ELSE Round
    /\ Tick
    /\ clock' = [n \in Peers |-> clock[n] + 1]
    /\ absent' = [n \in Peers |-> [m \in Peers |-> Passed(absent[n][m])]]
    /\ UNCHANGED <<at, missed, known>>

Loop(n) == Ask(n) \/ Served(n) \/ Missed(n) \/ EndRound(n)

DNext ==
    \/ \E n \in Peers : Loop(n)
    \/ Restarted \/ TimePasses

DSpec == DInit /\ [][DNext]_vars

(* Time passes and loops run: no request outlives its ten seconds. *)
FairSpec == DSpec /\ WF_vars(TimePasses) /\ \A n \in Peers : WF_vars(Loop(n))

-----------------------------------------------------------------------------
(* One fault at a time does not part nodes that go on registering at the     *)
(* slowest pace: not a round that failed, not an answer that was lost, not a *)
(* restart that emptied the server, whatever the rest of the pool says.  It  *)
(* is PeerForget, over TTL and pace, that makes this hold.                   *)
NobodyIsForgotten == [][\A n \in Peers : known[n] \subseteq known'[n]]_vars

(* Of two nodes at one server the later to register is told of the earlier,  *)
(* so at least one of them comes to know the other.                          *)
SomebodyFindsOut ==
    \A n, m \in Peers : n # m => <>(m \in known[n] \/ n \in known[m])
=============================================================================
