-------------------------------- MODULE Mesh --------------------------------
(***************************************************************************)
(* Two engines keep a path to each other (internal/peer/engine.go), with   *)
(* the relay (cmd/lanmesh-relay) and a signalling server between them,     *)
(* while their routers move them to other addresses.  A router lets in     *)
(* only what comes from an address the node has sent to from its present   *)
(* one.  A node may end at an address where nothing but the relay gets     *)
(* through.  Frames are lost and overtake each other.                      *)
(*                                                                         *)
(* The age of path.lastRecv is kept as one of three: below staleProbe,     *)
(* below peerTimeout, above.  The timers of maintenance (ping, gossip,     *)
(* binding) are left to the loss of what they send: a tick sends all there *)
(* may be to send, and any part of it is lost.                             *)
(***************************************************************************)
EXTENDS Integers, FiniteSets, SequencesExt

CONSTANTS
    Nodes,
    Narrow,         \* nodes whose last address may be cut off but for the relay
    MaxMove,        \* bound: addresses of each node after its first
    MaxCands,       \* maxCandidates
    MaxFrame        \* bound: frames on the way

ASSUME MeshAssumption ==
    /\ IsFiniteSet(Nodes) /\ Cardinality(Nodes) = 2 /\ Narrow \subseteq Nodes
    /\ MaxMove \in [Nodes -> Nat]
    /\ MaxCands \in Nat \ {0} /\ MaxFrame \in Nat \ {0}

VARIABLES
    place,          \* per node: its address, numbered in the order it has them
    cut,            \* the nodes whose last address is cut off
    hole,           \* per node: the addresses of the peer its router lets in
    endpoints,      \* per node: path.endpoints
    active,         \* per node: path.active
    heard,          \* per node: how long ago path.lastRecv was
    bound,          \* per node: where relay and signalling server have it
    frames          \* frames on the way

pathVars == <<endpoints, active, heard>>
vars == <<place, cut, hole, pathVars, bound, frames>>

Peer(n) == CHOOSE m \in Nodes : m # n
Places(n) == 0..MaxMove[n]
None == -1
Frames ==
    UNION {[to : {n}, via : {"direct"}, from : Places(Peer(n)), at : Places(n),
            kind : {"ping", "punch", "addr"}, cand : Places(Peer(n))]
           \cup [to : {n}, via : {"relay"}, from : {None}, at : {None},
                 kind : {"addr"}, cand : Places(Peer(n))] : n \in Nodes}

TypeOK ==
    /\ cut \subseteq Narrow
    /\ \A n \in Nodes :
        /\ place[n] \in Places(n) /\ bound[n] \in 0..place[n]
        /\ hole[n] \subseteq 0..place[Peer(n)]
        /\ Len(endpoints[n]) <= MaxCands
        /\ \A i \in 1..Len(endpoints[n]) : endpoints[n][i] \in 0..place[Peer(n)]
        /\ IsInjective(endpoints[n])
        /\ active[n] \in {None} \cup 0..place[Peer(n)]
        /\ heard[n] \in {"fresh", "suspect", "old"}
        /\ heard[n] # "old" => active[n] # None
    /\ frames \subseteq Frames /\ Cardinality(frames) <= MaxFrame

(* The server has named each to the other, and relayGrace is over. *)
Init ==
    /\ place = [n \in Nodes |-> 0] /\ cut \in SUBSET Narrow
    /\ hole = [n \in Nodes |-> {}]
    /\ endpoints = [n \in Nodes |-> <<0>>]
    /\ active = [n \in Nodes |-> None] /\ heard = [n \in Nodes |-> "old"]
    /\ bound = [n \in Nodes |-> 0]
    /\ frames = {}

CutOff(n) == n \in cut /\ place[n] = MaxMove[n] /\ MaxMove[n] > 0

-----------------------------------------------------------------------------
(* Candidates: mergeEndpoints for a server's answer, mergeCandidates for what *)
(* a peer says and for the address it is heard from                           *)

(* Slip: what a peer says makes the list as long as it likes. *)
MergeUncapped(old, a) == IF a \in ToSet(old) THEN old ELSE Append(old, a)

MergeCandidate(old, a) ==
    IF a \in ToSet(old) \/ Len(old) >= MaxCands THEN old ELSE Append(old, a)

(* The list is built anew from all there are, in their order. *)
Merged(all) ==
    LET merged[i \in 0..Len(all)] ==
            IF i = 0 THEN <<>> ELSE MergeCandidate(merged[i - 1], all[i])
    IN  merged[Len(all)]

(* Slip: what the server says is added where there is room. *)
MergeAfter(new, old) == Merged(old \o new)

MergeEndpoints(new, old) == Merged(new \o old)

-----------------------------------------------------------------------------
(* The routers, the servers, and time *)

Move(n) ==
    /\ place[n] < MaxMove[n]
    /\ place' = [place EXCEPT ![n] = @ + 1]
    /\ hole' = [hole EXCEPT ![n] = {}]
    /\ frames' = {f \in frames : f.to # n \/ f.via = "relay"}
    /\ UNCHANGED <<cut, pathVars, bound>>

(* sendRelayBind and bind of the relay; its answer and the registration that *)
(* follows are Reflex and Discovery.                                         *)
Bind(n) ==
    /\ bound[n] # place[n]
    /\ bound' = [bound EXCEPT ![n] = place[n]]
    /\ UNCHANGED <<place, cut, hole, pathVars, frames>>

(* SyncPeers with an answer that names the peer. *)
Sync(n) ==
    /\ endpoints' = [endpoints EXCEPT ![n] = MergeEndpoints(<<bound[Peer(n)]>>, @)]
    /\ UNCHANGED <<place, cut, hole, active, heard, bound, frames>>

Silence(n) ==
    /\ heard[n] # "old"
    /\ heard' = [heard EXCEPT ![n] = IF @ = "fresh" THEN "suspect" ELSE "old"]
    /\ UNCHANGED <<place, cut, hole, endpoints, active, bound, frames>>

-----------------------------------------------------------------------------
(* maintenance *)

(* Slip: a path once confirmed stays so. *)
ConfirmedForEver(n) == active[n] # None

(* directAddr, and the same test in maintenance *)
Confirmed(n) == heard[n] # "old"

Tried(n) == IF heard[n] # "fresh" THEN ToSet(endpoints[n]) ELSE {}

Direct(n, at, kind) ==
    [to |-> Peer(n), via |-> "direct", from |-> place[n], at |-> at,
     kind |-> kind, cand |-> IF kind = "addr" THEN bound[n] ELSE 0]

ThroughRelay(n) ==
    [to |-> Peer(n), via |-> "relay", from |-> None, at |-> None,
     kind |-> "addr", cand |-> bound[n]]

(* What is sent to an address the peer has left is lost. *)
Sent(old, new) ==
    /\ \E some \in SUBSET {f \in new : f.via = "relay" \/ f.at = place[f.to]} :
        frames' = old \cup some
    /\ Cardinality(frames') <= MaxFrame

Tick(n) ==
    /\ LET pinged == IF Confirmed(n) THEN {active[n]} ELSE {}
           new == {Direct(n, a, "ping") : a \in pinged}
                  \cup {Direct(n, a, "addr") : a \in pinged}
                  \cup {Direct(n, a, "punch") : a \in Tried(n)}
                  \cup (IF Confirmed(n) THEN {} ELSE {ThroughRelay(n)})
       IN /\ Sent(frames, new)
          /\ hole' = [hole EXCEPT ![n] = @ \cup pinged \cup Tried(n)]
    /\ UNCHANGED <<place, cut, pathVars, bound>>

-----------------------------------------------------------------------------
(* netToTun *)

LetIn(f) ==
    /\ f.at = place[f.to] /\ f.from \in hole[f.to]
    /\ ~CutOff(f.to) /\ ~(CutOff(Peer(f.to)) /\ f.from = place[Peer(f.to)])

Arrive(f) ==
    /\ f \in frames /\ f.via = "direct"
    /\ LET n == f.to
           pong == IF f.kind = "ping" THEN {Direct(n, f.from, "punch")} ELSE {}
           known == MergeCandidate(endpoints[n], f.from)
       IN IF LetIn(f)
          THEN /\ active' = [active EXCEPT ![n] = f.from]
               /\ heard' = [heard EXCEPT ![n] = "fresh"]
               /\ endpoints' = [endpoints EXCEPT ![n] =
                    IF f.kind = "addr" THEN MergeCandidate(known, f.cand) ELSE known]
               /\ Sent(frames \ {f}, pong)
          ELSE frames' = frames \ {f} /\ UNCHANGED pathVars
    /\ UNCHANGED <<place, cut, hole, bound>>

(* lookup: the relay hands on to where it has the peer, be it there or not. *)
LookedUp(n) == bound[n] = place[n]

ArriveByRelay(f) ==
    /\ f \in frames /\ f.via = "relay"
    /\ frames' = frames \ {f}
    /\ endpoints' = IF LookedUp(f.to)
                    THEN [endpoints EXCEPT ![f.to] = MergeCandidate(@, f.cand)]
                    ELSE endpoints
    /\ UNCHANGED <<place, cut, hole, active, heard, bound>>

-----------------------------------------------------------------------------
Next ==
    \/ \E n \in Nodes : Move(n) \/ Bind(n) \/ Sync(n) \/ Silence(n) \/ Tick(n)
    \/ \E f \in frames : Arrive(f) \/ ArriveByRelay(f)

Spec == Init /\ [][Next]_vars

(* The timers of both nodes go on, the servers answer in the end, and of what *)
(* is sent directly again and again to where the peer is something gets there.*)
Fairness ==
    \A n \in Nodes :
        /\ WF_vars(Bind(n)) /\ WF_vars(Sync(n)) /\ WF_vars(Silence(n))
        /\ SF_vars(Tick(n) /\ \E f \in frames' \ frames : f.via = "direct")
        /\ SF_vars(\E f \in frames : f.to = n /\ (Arrive(f) \/ ArriveByRelay(f)))

FairSpec == Spec /\ Fairness

-----------------------------------------------------------------------------
(* Whatever both have moved, and however full the lists of candidates are of *)
(* addresses that are dead: two nodes whose routers let them hear each other *)
(* directly again and again, each at the address the other has now.          *)
Hears(n) ==
    \/ active[n] = place[Peer(n)] /\ heard[n] = "fresh"
    \/ \E m \in Nodes : CutOff(m)

PathHeals == \A n \in Nodes : []<>Hears(n)

(* sendFrame: the way data takes ends where the peer is, again and again,    *)
(* also when it has moved to where only the relay reaches it.                *)
Delivers(n) ==
    LET m == Peer(n) IN
    IF Confirmed(n) THEN active[n] = place[m] /\ ~CutOff(m) /\ ~CutOff(n) /\ place[n] \in hole[m]
    ELSE LookedUp(m)

DataArrives == \A n \in Nodes : []<>Delivers(n)
=============================================================================
