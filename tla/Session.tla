------------------------------- MODULE Session -------------------------------
(***************************************************************************)
(* The life of a node and of its networks (internal/app/session.go).       *)
(*                                                                         *)
(* Entering and leaving networks are operations serialised by opMu: the    *)
(* first network brings the node up, the last one takes it down, and the   *)
(* networks found through the DHT share one discoverer by counting.  Every *)
(* entry builds a new netSession, numbered here in that order, and starts  *)
(* a discovery loop that nobody waits for: the loop of a network that was  *)
(* left lives on until it looks at its stop channel, beside the loop of    *)
(* the same network entered again.  Its rounds last up to ten seconds and  *)
(* read the session's fields before and after.                             *)
(***************************************************************************)
EXTENDS Integers, Sequences, FiniteSets

CONSTANTS
    Tags,           \* networks
    DHTTags,        \* those that are found through the DHT
    MaxObj,         \* bound: netSessions ever built
    MaxNode,        \* bound: engines ever made
    MaxDHT          \* bound: discoverers ever made

ASSUME TagsAssumption == IsFiniteSet(Tags) /\ DHTTags \subseteq Tags
ASSUME BoundsAssumption == {MaxObj, MaxNode, MaxDHT} \subseteq Nat \ {0}

VARIABLES
    nets,           \* s.nets: the netSession of each network, 0 for none
    tagOf,          \* the networks of the netSessions built so far
    stopped,        \* netSessions with a closed stop channel
    engine, nodes,  \* s.engine, 0 for nil (s.up is its being there); engines made
    tables,         \* per engine: the networks it serves
    dht, dhtRefs,   \* s.dht, 0 for nil, and s.dhtRefs
    dhts,           \* discoverers made
    op,             \* the operation that holds opMu
    loop            \* per netSession: its discovery loop

netVars == <<nets, tagOf, stopped>>
nodeVars == <<engine, nodes>>
dhtVars == <<dht, dhtRefs, dhts>>
opVars == <<netVars, nodeVars, tables, dhtVars, op>>
vars == <<opVars, loop>>

Objs == 1..MaxObj
Engines == 1..MaxNode
Stages == {"none", "start", "asking", "answered", "waiting", "done"}
Loops == [at : Stages, dht : 0..MaxDHT]
NoLoop == [at |-> "none", dht |-> 0]
Ended == [NoLoop EXCEPT !.at = "done"]

(* ending: the operation takes the node down if it fails, or when it is over *)
Ops == [at : {"idle", "bringUp", "acquire", "create", "enter", "fail",
              "leave", "leaveEngine", "release"},
        tags : SUBSET Tags, ending : BOOLEAN, left : SUBSET Objs]
Idle == [at |-> "idle", tags |-> {}, ending |-> FALSE, left |-> {}]

Joined == {t \in Tags : nets[t] # 0}
OnDHT(k) == tagOf[k] \in DHTTags

TypeOK ==
    /\ nets \in [Tags -> 0..MaxObj]
    /\ tagOf \in Seq(Tags) /\ Len(tagOf) <= MaxObj
    /\ stopped \subseteq DOMAIN tagOf
    /\ nodes \in 0..MaxNode /\ engine \in 0..nodes
    /\ tables \in [Engines -> SUBSET Tags]
    /\ dhts \in 0..MaxDHT /\ dht \in 0..dhts /\ dhtRefs \in 0..MaxObj
    /\ op \in Ops
    /\ loop \in [Objs -> Loops]

Init ==
    /\ nets = [t \in Tags |-> 0] /\ tagOf = <<>> /\ stopped = {}
    /\ engine = 0 /\ nodes = 0
    /\ tables = [e \in Engines |-> {}]
    /\ dht = 0 /\ dhtRefs = 0 /\ dhts = 0
    /\ op = Idle
    /\ loop = [k \in Objs |-> NoLoop]

OpAt(stage) == op.at = stage
LoopAt(k, stages) == loop[k].at \in stages

-----------------------------------------------------------------------------
(* Entering a network: AddNetworkMode, under opMu.  crypto.NewSealer fails   *)
(* only on a key of a wrong length, which it is never given.                 *)

AfterNode(t) == IF t \in DHTTags THEN "acquire" ELSE "create"

AddNetwork(t) ==
    /\ OpAt("idle") /\ nets[t] = 0 /\ Len(tagOf) < MaxObj
    /\ engine = 0 => nodes < MaxNode
    /\ op' = [Idle EXCEPT !.at = IF engine = 0 THEN "bringUp" ELSE AfterNode(t),
                          !.tags = {t}, !.ending = engine = 0]
    /\ UNCHANGED <<netVars, nodeVars, tables, dhtVars, loop>>

BringUpNode ==
    /\ OpAt("bringUp")
    /\ \/ /\ nodes' = nodes + 1 /\ engine' = nodes'
          /\ \E t \in op.tags : op' = [op EXCEPT !.at = AfterNode(t)]
       \/ /\ op' = Idle            \* no port, no adapter
          /\ UNCHANGED nodeVars
    /\ UNCHANGED <<netVars, tables, dhtVars, loop>>

(* Slip: the network that brings the discoverer up is not counted. *)
AcquireUncounted ==
    /\ OpAt("acquire")
    /\ \/ /\ dht # 0 /\ dhtRefs' = dhtRefs + 1 /\ UNCHANGED <<dht, dhts>>
          /\ op' = [op EXCEPT !.at = "create"]
       \/ /\ dht = 0 /\ dhts < MaxDHT
          /\ dhts' = dhts + 1 /\ dht' = dhts' /\ dhtRefs' = 0
          /\ op' = [op EXCEPT !.at = "create"]
       \/ /\ dht = 0 /\ op' = [op EXCEPT !.at = "fail"] /\ UNCHANGED dhtVars
    /\ UNCHANGED <<netVars, nodeVars, tables, loop>>

AcquireDHT ==
    /\ OpAt("acquire")
    /\ \/ /\ dht # 0 /\ dhtRefs' = dhtRefs + 1 /\ UNCHANGED <<dht, dhts>>
          /\ op' = [op EXCEPT !.at = "create"]
       \/ /\ dht = 0 /\ dhts < MaxDHT
          /\ dhts' = dhts + 1 /\ dht' = dhts' /\ dhtRefs' = 1
          /\ op' = [op EXCEPT !.at = "create"]
       \/ /\ dht = 0 /\ op' = [op EXCEPT !.at = "fail"] /\ UNCHANGED dhtVars
    /\ UNCHANGED <<netVars, nodeVars, tables, loop>>

(* Slip: a failed entry leaves the node it brought up. *)
FailKeepingNode ==
    /\ OpAt("fail")
    /\ op' = Idle
    /\ UNCHANGED <<netVars, nodeVars, tables, dhtVars, loop>>

FailedEntry ==
    /\ OpAt("fail")
    /\ engine' = IF op.ending THEN 0 ELSE engine
    /\ op' = Idle
    /\ UNCHANGED <<netVars, nodes, tables, dhtVars, loop>>

(* engine.AddNetworkRelay keeps the table of a network it already serves. *)
CreateInEngine ==
    /\ OpAt("create")
    /\ \E t \in op.tags :
        /\ tagOf' = Append(tagOf, t)
        /\ tables' = [tables EXCEPT ![engine] = @ \cup {t}]
    /\ op' = [op EXCEPT !.at = "enter"]
    /\ UNCHANGED <<nets, stopped, nodeVars, dhtVars, loop>>

Enter ==
    /\ OpAt("enter")
    /\ \E t \in op.tags :
        /\ nets' = [nets EXCEPT ![t] = Len(tagOf)]
        /\ loop' = [loop EXCEPT ![Len(tagOf)].at = "start"]
    /\ op' = Idle
    /\ UNCHANGED <<tagOf, stopped, nodeVars, tables, dhtVars>>

-----------------------------------------------------------------------------
(* Leaving networks: RemoveNetwork for one, Stop for all. *)

RemoveNetwork(t) ==
    /\ OpAt("idle") /\ nets[t] # 0
    /\ nets' = [nets EXCEPT ![t] = 0]
    /\ op' = [Idle EXCEPT !.at = "leave", !.left = {nets[t]}, !.ending = Joined = {t}]
    /\ UNCHANGED <<tagOf, stopped, nodeVars, tables, dhtVars, loop>>

Stop ==
    /\ OpAt("idle")
    /\ nets' = [t \in Tags |-> 0]
    /\ op' = [Idle EXCEPT !.at = "leave", !.left = {nets[t] : t \in Joined}, !.ending = TRUE]
    /\ UNCHANGED <<tagOf, stopped, nodeVars, tables, dhtVars, loop>>

CloseStop(k) ==
    /\ OpAt("leave") /\ k \in op.left
    /\ stopped' = stopped \cup {k}
    /\ op' = [op EXCEPT !.at = "leaveEngine"]
    /\ UNCHANGED <<nets, tagOf, nodeVars, tables, dhtVars, loop>>

AfterLeaving(k) == [op EXCEPT !.at = "leave", !.left = @ \ {k}]

LeaveEngine(k) ==
    /\ OpAt("leaveEngine") /\ k \in op.left \cap stopped
    /\ tables' = IF engine = 0 THEN tables ELSE [tables EXCEPT ![engine] = @ \ {tagOf[k]}]
    /\ op' = IF OnDHT(k) THEN [op EXCEPT !.at = "release"] ELSE AfterLeaving(k)
    /\ UNCHANGED <<netVars, nodeVars, dhtVars, loop>>

(* Slip: the first network to leave closes the discoverer of the others. *)
ReleaseAtOnce(k) ==
    /\ OpAt("release") /\ k \in op.left \cap stopped
    /\ dht' = 0 /\ dhtRefs' = 0
    /\ op' = AfterLeaving(k)
    /\ UNCHANGED <<netVars, nodeVars, tables, dhts, loop>>

(* The discoverer is closed after s.mu is given up; a round on a closed one *)
(* ends in an error, and its loop is stopped.                               *)
ReleaseDHT(k) ==
    /\ OpAt("release") /\ k \in op.left \cap stopped
    /\ CASE dht = 0     -> UNCHANGED <<dht, dhtRefs>>
         [] dhtRefs > 1 -> dhtRefs' = dhtRefs - 1 /\ UNCHANGED dht
         [] OTHER       -> dht' = 0 /\ dhtRefs' = 0
    /\ op' = AfterLeaving(k)
    /\ UNCHANGED <<netVars, nodeVars, tables, dhts, loop>>

TearDownNode ==
    /\ OpAt("leave") /\ op.left = {}
    /\ engine' = IF op.ending THEN 0 ELSE engine
    /\ op' = Idle
    /\ UNCHANGED <<netVars, nodes, tables, dhtVars, loop>>

-----------------------------------------------------------------------------
(* The discovery loop of a netSession: registerLoop and dhtLoop.  What an     *)
(* answer does to the engine's table is the subject of PeerTable, PathHealth  *)
(* and Discovery.                                                             *)

Start(k) ==
    /\ LoopAt(k, {"start"})
    /\ loop' = [loop EXCEPT ![k] =
           CASE ~OnDHT(k) -> [@ EXCEPT !.at = "asking"]
             [] OnDHT(k) /\ dht = 0 -> Ended
             [] OTHER -> [@ EXCEPT !.at = "asking", !.dht = dht]]
    /\ UNCHANGED opVars

(* The servers, or the DHT, have answered or the round has timed out. *)
Answer(k) ==
    /\ LoopAt(k, {"asking"})
    /\ loop' = [loop EXCEPT ![k].at = "answered"]
    /\ UNCHANGED opVars

(* Slip: a loop looks at its stop channel only while it waits. *)
CheckNothing(k) ==
    /\ LoopAt(k, {"answered"})
    /\ loop' = [loop EXCEPT ![k].at = "waiting"]
    /\ UNCHANGED opVars

CheckStop(k) ==
    /\ LoopAt(k, {"answered"})
    /\ loop' = [loop EXCEPT ![k] =
           IF k \in stopped THEN Ended ELSE [@ EXCEPT !.at = "waiting"]]
    /\ UNCHANGED opVars

(* select: with the stop channel closed and the time out, either is taken. *)
Wait(k) ==
    /\ LoopAt(k, {"waiting"})
    /\ \/ k \in stopped /\ loop' = [loop EXCEPT ![k] = Ended]
       \/ loop' = [loop EXCEPT ![k].at = "asking"]
    /\ UNCHANGED opVars

-----------------------------------------------------------------------------
Operation ==
    \/ BringUpNode \/ AcquireDHT \/ FailedEntry \/ CreateInEngine \/ Enter
    \/ \E k \in Objs : CloseStop(k) \/ LeaveEngine(k) \/ ReleaseDHT(k)
    \/ TearDownNode

Loop(k) ==
    Start(k) \/ Answer(k) \/ CheckStop(k) \/ Wait(k)

Next ==
    \/ \E t \in Tags : AddNetwork(t) \/ RemoveNetwork(t)
    \/ Stop
    \/ Operation \/ \E k \in Objs : Loop(k)

(* opMu is held only over calls that return, and goroutines run. *)
Fairness ==
    /\ WF_vars(Operation)
    /\ \A k \in Objs : WF_vars(Loop(k))

Spec == Init /\ [][Next]_vars
FairSpec == Spec /\ Fairness

-----------------------------------------------------------------------------
(* s.dhtRefs is the number of networks entered in a DHT mode, whatever       *)
(* entries failed on the way and in whatever order networks were left, and   *)
(* the discoverer is there exactly while one of them is.                     *)
DHTCounted ==
    op = Idle => /\ dhtRefs = Cardinality(Joined \cap DHTTags)
                 /\ dht # 0 <=> Joined \cap DHTTags # {}

(* Between operations the node is up exactly while it is in a network (a     *)
(* failed entry leaves no node behind, the last exit takes it down), its     *)
(* engine serves these networks and no other, and engines of nodes taken     *)
(* down serve none.                                                          *)
NodeServesNets ==
    op = Idle => /\ engine # 0 <=> Joined # {}
                 /\ \A e \in Engines : tables[e] = IF e = engine THEN Joined ELSE {}

(* A network the node is in has a discovery loop that goes on, and through   *)
(* the DHT it searches with the discoverer that is open.                     *)
JoinedIsServed ==
    \A t \in Joined : LET l == loop[nets[t]] IN
        /\ l.at \notin {"none", "done"}
        /\ t \in DHTTags => dht # 0 /\ (l.at # "start" => l.dht = dht)

(* The loop of a network that was left ends, although nobody waits for it. *)
LeftLoopsEnd ==
    \A k \in Objs :
        (loop[k].at # "none" /\ nets[tagOf[k]] # k) ~> loop[k].at = "done"

=============================================================================
