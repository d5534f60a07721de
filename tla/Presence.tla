------------------------------- MODULE Presence -------------------------------
(***************************************************************************)
(* What a signalling server promises to the nodes of one network: whoever  *)
(* registers is told who else has registered within TTL, a registration    *)
(* counts from the moment it is taken, and a node whose registration still *)
(* counts is never turned away.  A server that keeps its state in memory   *)
(* may forget everybody at once; a durable one never does.                 *)
(* SignalServer implements this for each network, Discovery is built on it. *)
(***************************************************************************)
EXTENDS Naturals

CONSTANTS
    Peers,
    TTL             \* peerTTL, in ticks

ASSUME TTLAssumption == TTL \in Nat

VARIABLES
    durable,        \* the server keeps its state over restarts
    age,            \* per node: ticks since its last registration, TTL + 1 if it does not count
    told            \* per node: the last answer that reached it, or nothing

presenceVars == <<durable, age, told>>

Ages == 0..(TTL + 1)
Over == TTL + 1
Older(a) == IF a > TTL THEN a ELSE a + 1
Live == {p \in Peers : age[p] <= TTL}

(* An inbox: empty, or with one answer, the set of the other nodes. *)
Inboxes == {{}} \cup {{others} : others \in SUBSET Peers}

PresenceTypeOK ==
    /\ durable \in BOOLEAN
    /\ age \in [Peers -> Ages]
    /\ told \in [Peers -> Inboxes]

Init ==
    /\ durable \in BOOLEAN
    /\ age = [p \in Peers |-> Over]
    /\ told = [p \in Peers |-> {}]

(* An answer may be lost on its way after the registration was taken. *)
Tell(p, others) == told' \in {told, [told EXCEPT ![p] = {others}]}

Accept(p) ==
    /\ age' = [age EXCEPT ![p] = 0]
    /\ Tell(p, Live \ {p})
    /\ UNCHANGED durable

Refuse(p) ==
    /\ p \notin Live
    /\ Tell(p, {})
    /\ UNCHANGED <<durable, age>>

Tick ==
    /\ age' = [p \in Peers |-> Older(age[p])]
    /\ UNCHANGED <<durable, told>>

Forget ==
    /\ ~durable
    /\ age' = [p \in Peers |-> Over]
    /\ UNCHANGED <<durable, told>>

Next ==
    \/ \E p \in Peers : Accept(p) \/ Refuse(p)
    \/ Tick \/ Forget

Spec == Init /\ [][Next]_presenceVars
=============================================================================
