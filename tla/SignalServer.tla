---------------------------- MODULE SignalServer ----------------------------
(***************************************************************************)
(* A signalling server: the registry of who is in which network.  The      *)
(* repository has three programs for it with one protocol.  lanmesh-signal *)
(* (Go) and its Deno port keep one registry in memory, with caps on        *)
(* networks and on nodes in a network, and lose it with the process.  The  *)
(* Cloudflare worker has one object per network, which the platform drops  *)
(* from memory when it likes; it writes every registration to its storage  *)
(* and reads it back before it answers again.                              *)
(***************************************************************************)
EXTENDS Naturals, FiniteSets

CONSTANTS
    Tags,           \* networks
    Peers,          \* nodes
    TTL,            \* peerTTL, in ticks
    MaxNets, MaxPeersPerNet,
    Nobody          \* not a node

ASSUME ServerAssumption ==
    /\ IsFiniteSet(Tags) /\ Tags # {}
    /\ IsFiniteSet(Peers) /\ Nobody \notin Peers
    /\ TTL \in Nat /\ MaxNets \in Nat \ {0} /\ MaxPeersPerNet \in Nat \ {0}

VARIABLES
    durable,        \* the worker, not one of the programs that keep all in memory
    nets,           \* networks with a record in memory (the worker: with an object)
    table,          \* per network and node: ticks since it registered
    hasLogs,        \* networks with lines of diagnostics (not the worker)
    disk,           \* the worker's storage
    asking,         \* the worker: the node whose registration is being stored
    told            \* per node: the last answer in network Watched that reached it

vars == <<durable, nets, table, hasLogs, disk, asking, told>>

Ages == 0..(TTL + 1)        \* TTL + 1: no longer counts, but still in the table
Absent == TTL + 2
Older(a) == IF a > TTL THEN a ELSE a + 1
Empty == [p \in Peers |-> Absent]
Known(tab) == {p \in Peers : tab[p] # Absent}
Dead(tab) == {p \in Peers : tab[p] = TTL + 1}
Purged(tab) == [p \in Peers |-> IF tab[p] > TTL THEN Absent ELSE tab[p]]

Inboxes == {{}} \cup {{others} : others \in SUBSET Peers}

(* Networks are alike, so the answers of one of them are followed; and the *)
(* objects of the worker know nothing of each other, so it has only that one. *)
Watched == CHOOSE t \in Tags : TRUE

TypeOK ==
    /\ durable \in BOOLEAN
    /\ nets \subseteq Tags /\ hasLogs \subseteq nets
    /\ table \in [Tags -> [Peers -> Ages \cup {Absent}]]
    /\ disk \in [Tags -> [Peers -> Ages \cup {Absent}]]
    /\ asking \in Peers \cup {Nobody}
    /\ told \in [Peers -> Inboxes]
    /\ ~durable => /\ Cardinality(nets) <= MaxNets
                   /\ \A t \in Tags : Cardinality(Known(table[t])) <= MaxPeersPerNet

Init ==
    /\ durable \in BOOLEAN
    /\ nets = {} /\ hasLogs = {}
    /\ table = [t \in Tags |-> Empty] /\ disk = [t \in Tags |-> Empty]
    /\ asking = Nobody
    /\ told = [p \in Peers |-> {}]

(* The node gets the answer, or it is lost or late. *)
Answer(t, p, others) ==
    told' \in {told} \cup IF t = Watched THEN {[told EXCEPT ![p] = {others}]} ELSE {}

-----------------------------------------------------------------------------
(* lanmesh-signal and the Deno port: every request under one lock. *)

(* Slip: the cap is one too high. *)
FullTooLate(t) == t \notin nets /\ Cardinality(nets) > MaxNets

Full(t) == t \notin nets /\ Cardinality(nets) >= MaxNets
Crowded(t, p) == /\ p \notin Known(table[t])
                 /\ Cardinality(Known(table[t])) >= MaxPeersPerNet

(* Refused, the node gets an empty list from lanmesh-signal and an error, *)
(* which is no answer, from the Deno port.                                *)
Register(t, p) ==
    /\ ~durable
    /\ IF Full(t) \/ Crowded(t, p)
       THEN Answer(t, p, {}) /\ UNCHANGED <<nets, table>>
       ELSE LET known == Purged([table[t] EXCEPT ![p] = 0]) IN
            /\ nets' = nets \cup {t}
            /\ table' = [table EXCEPT ![t] = known]
            /\ Answer(t, p, Known(known) \ {p})
    /\ UNCHANGED <<durable, hasLogs, disk, asking>>

AddLog(t) ==
    /\ ~durable /\ ~Full(t)
    /\ nets' = nets \cup {t} /\ hasLogs' = hasLogs \cup {t}
    /\ UNCHANGED <<durable, table, disk, asking, told>>

(* Reading the diagnostics drops what is older than logTTL. *)
DumpLogs(t) ==
    /\ ~durable /\ t \in hasLogs
    /\ hasLogs' = hasLogs \ {t}
    /\ UNCHANGED <<durable, nets, table, disk, asking, told>>

(* Slip: dead nodes are left in the tables. *)
SweepNetsOnly ==
    /\ ~durable
    /\ hasLogs' \in SUBSET hasLogs
    /\ nets' = {t \in nets : Known(table[t]) # {} \/ t \in hasLogs'}
    /\ UNCHANGED <<durable, table, disk, asking, told>>

Sweep ==
    /\ ~durable
    /\ table' = [t \in Tags |-> Purged(table[t])]
    /\ hasLogs' \in SUBSET hasLogs
    /\ nets' = {t \in nets : Known(table'[t]) # {} \/ t \in hasLogs'}
    /\ UNCHANGED <<durable, disk, asking, told>>

Restart ==
    /\ ~durable
    /\ nets' = {} /\ hasLogs' = {} /\ table' = [t \in Tags |-> Empty]
    /\ UNCHANGED <<durable, disk, asking, told>>

-----------------------------------------------------------------------------
(* The worker: an object takes no other request while it waits for its      *)
(* storage, and no answer leaves before what was written is safe.           *)

(* Slip: an object that was dropped starts empty, as it once did. *)
WakeEmpty(t) ==
    /\ durable /\ t \notin nets
    /\ nets' = nets \cup {t} /\ UNCHANGED table
    /\ UNCHANGED <<durable, hasLogs, disk, asking, told>>

Wake(t) ==
    /\ durable /\ t \notin nets
    /\ nets' = nets \cup {t} /\ table' = [table EXCEPT ![t] = disk[t]]
    /\ UNCHANGED <<durable, hasLogs, disk, asking, told>>

WorkerTakes(t, p) ==
    /\ durable /\ t \in nets /\ asking = Nobody
    /\ table' = [table EXCEPT ![t][p] = 0]
    /\ asking' = p
    /\ UNCHANGED <<durable, nets, hasLogs, disk, told>>

WorkerAnswers(t) ==
    /\ durable /\ asking # Nobody
    /\ LET known == Purged(table[t]) IN
        /\ table' = [table EXCEPT ![t] = known]
        /\ disk' = [disk EXCEPT ![t] = Purged([@ EXCEPT ![asking] = 0])]
        /\ Answer(t, asking, Known(known) \ {asking})
    /\ asking' = Nobody
    /\ UNCHANGED <<durable, nets, hasLogs>>

(* The object goes, in the middle of a request too: what it was writing is  *)
(* safe or is not.                                                          *)
Evict(t) ==
    /\ durable /\ t \in nets
    /\ nets' = nets \ {t} /\ table' = [table EXCEPT ![t] = Empty]
    /\ disk' \in {disk} \cup IF asking = Nobody THEN {}
                             ELSE {[disk EXCEPT ![t][asking] = 0]}
    /\ asking' = Nobody
    /\ UNCHANGED <<durable, hasLogs, told>>

-----------------------------------------------------------------------------
(* TTL is long beside the time a request takes. *)
Tick ==
    /\ asking = Nobody
    /\ table' = [t \in Tags |-> [p \in Peers |-> Older(table[t][p])]]
    /\ disk' = [t \in Tags |-> [p \in Peers |-> Older(disk[t][p])]]
    /\ UNCHANGED <<durable, nets, hasLogs, asking, told>>

Worker(t) ==
    Wake(t) \/ WorkerAnswers(t) \/ Evict(t) \/ \E p \in Peers : WorkerTakes(t, p)

Next ==
    \/ \E t \in Tags : AddLog(t) \/ DumpLogs(t) \/ \E p \in Peers : Register(t, p)
    \/ Sweep \/ Restart
    \/ Worker(Watched)
    \/ Tick

Spec == Init /\ [][Next]_vars

(* The ticker of main sweeps again and again while the process lives. *)
FairSpec == Spec /\ WF_vars(Sweep)

-----------------------------------------------------------------------------
(* A network's part of the registry keeps what Presence promises, under   *)
(* the caps, through sweeps and restarts, and for the worker through the     *)
(* loss of its object at any moment: no registration that was answered is    *)
(* lost with it.  What counts for the worker is what its storage holds.      *)
Seen == [p \in Peers |-> LET a == (IF durable THEN disk ELSE table)[Watched][p]
                         IN IF a = Absent THEN TTL + 1 ELSE a]

Promise == INSTANCE Presence WITH age <- Seen

KeepsPresence == Promise!Spec

(* The caps count nodes that are gone until somebody of the network registers *)
(* or the sweep comes: a network full of them turns a living node away.  That *)
(* state passes: a dead node does not keep its place in a table, nor an empty *)
(* network its place in the registry.                                         *)
PlacesComeBack ==
    /\ \A t \in Tags : \A p \in Peers :
           (~durable /\ p \in Dead(table[t])) ~> (p \notin Dead(table[t]))
    /\ \A t \in Tags :
           LET unused == ~durable /\ t \in nets /\ Known(table[t]) = {} /\ t \notin hasLogs
           IN unused ~> ~unused
=============================================================================
