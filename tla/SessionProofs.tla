---------------------------- MODULE SessionProofs ----------------------------
(***************************************************************************)
(* Proofs about Session for any networks and bounds.  The properties speak *)
(* of what holds between operations; the invariant says the same of every  *)
(* stage of an operation: which networks the discoverer is counted for     *)
(* (Counted), which the engine serves (Served), and what an operation may  *)
(* rely on when it goes on (Entering, Leaving).                            *)
(***************************************************************************)
EXTENDS Session, FiniteSetTheorems, SequenceTheorems, TLAPS

EntryStages == {"bringUp", "acquire", "create", "enter", "fail"}
LeaveStages == {"leave", "leaveEngine", "release"}

TagsOf(ks) == {tagOf[k] : k \in ks}

(* The DHT networks that hold the discoverer: those entered, the one that is *)
(* being entered once it has got it, those being left until they give it up. *)
Counted ==
    DHTTags \cap (Joined \cup (IF op.at \in {"create", "enter"} THEN op.tags ELSE {})
                         \cup TagsOf(op.left))

(* The networks in the table of the engine. *)
Served ==
    Joined \cup (IF op.at = "enter" THEN op.tags ELSE {})
           \cup TagsOf(IF op.at = "release" THEN op.left \ stopped ELSE op.left)

(* Every network entered has a netSession of its own that is not stopped. *)
NetsInv ==
    \A t \in Joined : nets[t] \in DOMAIN tagOf \ stopped /\ tagOf[nets[t]] = t

Entering ==
    op.at \in EntryStages =>
        /\ op.left = {}
        /\ \E t \in Tags : op.tags = {t} /\ nets[t] = 0
        /\ op.ending <=> Joined = {}
        /\ op.at = "bringUp" <=> engine = 0
        /\ op.at = "bringUp" => nodes < MaxNode /\ Joined = {}
        /\ op.at \in {"bringUp", "acquire", "create"} => Len(tagOf) < MaxObj
        /\ op.at = "acquire" => op.tags \subseteq DHTTags
        /\ op.at = "enter" => /\ Len(tagOf) \in DOMAIN tagOf \ stopped
                              /\ op.tags = {tagOf[Len(tagOf)]}

(* One netSession at a time is between its stop and the end of its part. *)
Leaving ==
    op.at \in LeaveStages =>
        /\ op.ending <=> Joined = {}
        /\ op.left # {} \/ Joined # {} => engine # 0
        /\ op.left \subseteq DOMAIN tagOf
        /\ \A k \in op.left : nets[tagOf[k]] = 0
        /\ \A k, m \in op.left : tagOf[k] = tagOf[m] => k = m
        /\ op.at = "leave" => op.left \cap stopped = {}
        /\ op.at # "leave" => \E k \in op.left : op.left \cap stopped = {k}
        /\ op.at = "release" => \A k \in op.left \cap stopped : OnDHT(k)

Resting ==
    op.at = "idle" => op = Idle /\ (engine # 0 <=> Joined # {})

CountInv == dhtRefs = Cardinality(Counted) /\ (dht # 0 <=> Counted # {})

TableInv == \A e \in Engines : tables[e] = IF e = engine THEN Served ELSE {}

OpInv == Entering /\ Leaving /\ Resting

SessionInv == TypeOK /\ NetsInv /\ OpInv /\ CountInv /\ TableInv /\ JoinedIsServed

(* The netSessions built so far are numbered from one. *)
LEMMA Indices ==
  ASSUME TypeOK
  PROVE  /\ Len(tagOf) \in Nat /\ Len(tagOf) <= MaxObj
         /\ DOMAIN tagOf = 1..Len(tagOf) /\ DOMAIN tagOf \subseteq Objs
         /\ \A k \in DOMAIN tagOf : tagOf[k] \in Tags
  BY BoundsAssumption DEF TypeOK, Objs

(* Networks are finitely many, so those counted are too. *)
LEMMA CountedFinite ==
  IsFiniteSet(Counted) /\ IsFiniteSet(Counted')
<1>1. IsFiniteSet(DHTTags)
  BY TagsAssumption, FS_Subset
<1>2. Counted \subseteq DHTTags /\ Counted' \subseteq DHTTags
  BY DEF Counted
<1> QED BY <1>1, <1>2, FS_Subset

(* Networks that hold the discoverer each have a netSession, so that their   *)
(* count stays within the bound while another one is entered.                *)
LEMMA CountedBound ==
  ASSUME SessionInv, op.at = "acquire"
  PROVE  Cardinality(Counted) < MaxObj
<1> DEFINE n == Len(tagOf)
           Known == TagsOf(DOMAIN tagOf)
<1>1. n \in Nat /\ DOMAIN tagOf = 1..n /\ n < MaxObj /\ tagOf = [k \in 1..n |-> tagOf[k]]
  BY Indices DEF SessionInv, OpInv, Entering, EntryStages, TypeOK
<1>2. Counted \subseteq Known
  BY DEF SessionInv, OpInv, Entering, EntryStages, NetsInv, Counted, TagsOf
<1>3. tagOf \in Surjection(1..n, Known)
  BY <1>1 DEF Surjection, TagsOf
<1>4. Cardinality(Known) <= n
  BY <1>1, <1>3, FS_SurjCardinalityBound DEF ExistsSurjection
<1>5. IsFiniteSet(Known)
  BY <1>1, <1>3, FS_NatSurjection DEF ExistsSurjection
<1>6. Cardinality(Counted) <= Cardinality(Known)
  BY <1>2, <1>5, FS_Subset
<1>7. Cardinality(Counted) \in Nat /\ Cardinality(Known) \in Nat
  BY <1>5, CountedFinite, FS_CardinalityType
<1>8. MaxObj \in Nat
  BY BoundsAssumption
<1> QED BY <1>1, <1>4, <1>6, <1>7, <1>8

-----------------------------------------------------------------------------
(* Steps that change neither counts nor tables *)

(* Who holds the discoverer is as before, and so is its count. *)
LEMMA SameCount ==
  ASSUME CountInv, Counted' = Counted, UNCHANGED <<dht, dhtRefs>>
  PROVE  CountInv'
  BY DEF CountInv

(* What the engine must serve is as before, and so are the tables. *)
LEMMA SameTables ==
  ASSUME TableInv, Served' = Served, UNCHANGED <<engine, tables>>
  PROVE  TableInv'
  BY DEF TableInv

(* Nothing happens to those that stay in their networks. *)
LEMMA StillServed ==
  ASSUME NetsInv, JoinedIsServed, Joined' \subseteq Joined,
         \A t \in Joined' : nets'[t] = nets[t], UNCHANGED <<loop, dht>>
  PROVE  JoinedIsServed'
  BY DEF JoinedIsServed

(* Networks that stay keep their netSessions. *)
LEMMA StillNets ==
  ASSUME NetsInv, Joined' \subseteq Joined,
         \A t \in Joined' : nets'[t] = nets[t], UNCHANGED <<tagOf, stopped>>
  PROVE  NetsInv'
  BY DEF NetsInv

-----------------------------------------------------------------------------
(* Entering *)

(* A tag that is free is to be entered. *)
LEMMA AddNetworkKeeps ==
  ASSUME SessionInv, NEW t \in Tags, AddNetwork(t)
  PROVE  SessionInv'
<1>1. /\ op = Idle /\ nets[t] = 0 /\ Len(tagOf) < MaxObj
      /\ engine = 0 => nodes < MaxNode
      /\ engine # 0 <=> Joined # {}
      /\ UNCHANGED <<netVars, nodeVars, tables, dhtVars, loop>>
  BY DEF AddNetwork, OpAt, SessionInv, OpInv, Resting
<1>2. /\ op' \in Ops /\ op'.tags = {t} /\ op'.left = {} /\ (op'.ending <=> engine = 0)
      /\ op'.at = IF engine = 0 THEN "bringUp" ELSE AfterNode(t)
  BY DEF AddNetwork, Idle, Ops, AfterNode
<1>3. Joined' = Joined
  BY <1>1 DEF Joined, netVars
<1>4. TypeOK'
  BY <1>1, <1>2 DEF SessionInv, TypeOK, netVars, nodeVars, dhtVars
<1>5. OpInv'
  BY <1>1, <1>2, <1>3 DEF OpInv, Entering, Leaving, Resting, EntryStages, LeaveStages,
                          AfterNode, netVars, nodeVars
<1>6. Counted' = Counted /\ Served' = Served
  BY <1>1, <1>2, <1>3 DEF Counted, Served, TagsOf, AfterNode, Idle, netVars
<1>7. NetsInv' /\ JoinedIsServed'
  BY <1>1, <1>3, StillNets, StillServed DEF SessionInv, netVars, dhtVars
<1>8. CountInv' /\ TableInv'
  BY <1>1, <1>6, SameCount, SameTables DEF SessionInv, nodeVars, dhtVars
<1> QED BY <1>4, <1>5, <1>7, <1>8 DEF SessionInv

(* The engine that is made serves nothing yet, and no engine does otherwise. *)
LEMMA BringUpNodeKeeps ==
  ASSUME SessionInv, BringUpNode
  PROVE  SessionInv'
<1>1. /\ op.at = "bringUp" /\ op.left = {} /\ engine = 0 /\ nodes < MaxNode /\ Joined = {}
      /\ Len(tagOf) < MaxObj /\ op \in Ops /\ op.ending
      /\ UNCHANGED <<netVars, tables, dhtVars, loop>>
  BY DEF BringUpNode, OpAt, SessionInv, OpInv, Entering, EntryStages, TypeOK
<1>2. PICK t \in Tags : op.tags = {t} /\ nets[t] = 0
  BY <1>1 DEF SessionInv, OpInv, Entering, EntryStages
<1>3. Joined' = {}
  BY <1>1 DEF Joined, netVars
<1>4. Served = {} /\ Counted = {}
  BY <1>1 DEF Served, Counted, TagsOf
<1>5. \A e \in Engines : tables[e] = {}
  BY <1>1, <1>4 DEF SessionInv, TableInv
<1>6. CASE nodes' = nodes + 1 /\ engine' = nodes' /\ op' = [op EXCEPT !.at = AfterNode(t)]
  <2>1. /\ op' \in Ops /\ op'.tags = {t} /\ op'.left = {} /\ op'.ending
        /\ op'.at = AfterNode(t)
    BY <1>1, <1>2, <1>6 DEF Ops, AfterNode
  <2>2. engine' \in Nat /\ engine' # 0 /\ nodes' \in 0..MaxNode
    BY <1>1, <1>6, BoundsAssumption DEF SessionInv, TypeOK
  <2>3. TypeOK'
    BY <1>1, <1>6, <2>1, <2>2 DEF SessionInv, TypeOK, netVars, dhtVars
  <2>4. OpInv'
    BY <1>1, <1>2, <1>3, <2>1, <2>2 DEF OpInv, Entering, Leaving, Resting, EntryStages, LeaveStages,
                                  AfterNode, netVars
  <2>5. Served' = {} /\ Counted' = {}
    BY <1>1, <1>2, <1>3, <2>1 DEF Served, Counted, TagsOf, AfterNode
  <2>6. TableInv'
    BY <1>1, <1>5, <2>5 DEF TableInv
  <2> QED BY <1>1, <1>3, <1>4, <2>3, <2>4, <2>5, <2>6, SameCount, StillNets, StillServed
          DEF SessionInv, netVars, dhtVars
<1>7. CASE op' = Idle /\ UNCHANGED nodeVars
  <2>1. op' \in Ops /\ op'.at = "idle" /\ op'.left = {} /\ op'.tags = {}
    BY <1>7 DEF Ops, Idle
  <2>2. TypeOK'
    BY <1>1, <1>7, <2>1 DEF SessionInv, TypeOK, netVars, nodeVars, dhtVars
  <2>3. OpInv'
    BY <1>1, <1>3, <1>7, <2>1 DEF OpInv, Entering, Leaving, Resting, EntryStages, LeaveStages, nodeVars
  <2>4. Served' = {} /\ Counted' = {}
    BY <1>3, <2>1 DEF Served, Counted, TagsOf
  <2> QED BY <1>1, <1>3, <1>4, <1>7, <2>2, <2>3, <2>4, SameCount, SameTables, StillNets, StillServed
          DEF SessionInv, netVars, nodeVars, dhtVars
<1> QED BY <1>2, <1>6, <1>7 DEF BringUpNode

(* The network holds the discoverer from here on: it was not among those     *)
(* counted before, and there was a discoverer only if some were.             *)
LEMMA AcquireDHTKeeps ==
  ASSUME SessionInv, AcquireDHT
  PROVE  SessionInv'
<1>1. /\ op.at = "acquire" /\ op.left = {} /\ op.tags \subseteq DHTTags /\ engine # 0
      /\ Len(tagOf) < MaxObj /\ op \in Ops /\ (op.ending <=> Joined = {})
      /\ UNCHANGED <<netVars, nodeVars, tables, loop>>
  BY DEF AcquireDHT, OpAt, SessionInv, OpInv, Entering, EntryStages, TypeOK
<1>2. PICK t \in Tags : op.tags = {t} /\ nets[t] = 0
  BY <1>1 DEF SessionInv, OpInv, Entering, EntryStages
<1>3. Joined' = Joined
  BY <1>1 DEF Joined, netVars
<1>4. op'.at \in {"create", "fail"} /\ op' = [op EXCEPT !.at = op'.at]
  BY <1>1 DEF AcquireDHT, Ops
<1>5. op' \in Ops /\ op'.tags = {t} /\ op'.left = {} /\ op'.ending = op.ending
  BY <1>1, <1>2, <1>4 DEF Ops
<1>6. OpInv'
  BY <1>1, <1>2, <1>3, <1>4, <1>5 DEF OpInv, Entering, Leaving, Resting, EntryStages, LeaveStages,
                                      netVars, nodeVars
<1>7. Served' = Served
  BY <1>1, <1>3, <1>4, <1>5 DEF Served, TagsOf, netVars
<1>8. NetsInv' /\ TableInv'
  BY <1>1, <1>3, <1>7, StillNets, SameTables DEF SessionInv, netVars, nodeVars
<1>9. Cardinality(Counted) < MaxObj /\ Cardinality(Counted) \in Nat /\ IsFiniteSet(Counted)
  BY <1>1, CountedBound, CountedFinite, FS_CardinalityType
<1>10. CASE op'.at = "create"
  <2>1. t \notin Counted /\ Counted' = Counted \cup {t}
    BY <1>1, <1>2, <1>3, <1>5, <1>10 DEF Counted, TagsOf, Joined, netVars
  <2>2. Cardinality(Counted') = Cardinality(Counted) + 1
    BY <1>9, <2>1, FS_AddElement
  <2>3. dhtRefs = Cardinality(Counted) /\ (dht # 0 <=> Counted # {})
    BY DEF SessionInv, CountInv
  <2>4. \/ dht # 0 /\ dhtRefs' = dhtRefs + 1 /\ UNCHANGED <<dht, dhts>>
        \/ dht = 0 /\ dhts < MaxDHT /\ dhts' = dhts + 1 /\ dht' = dhts' /\ dhtRefs' = 1
    BY <1>1, <1>10 DEF AcquireDHT, Ops
  <2>5. Counted = {} => Cardinality(Counted) = 0
    BY FS_EmptySet
  <2>6. dhts \in Nat
    BY DEF SessionInv, TypeOK
  <2>7. CountInv'
    BY <1>9, <2>1, <2>2, <2>3, <2>4, <2>5, <2>6 DEF CountInv
  <2>8. dhtRefs' \in 0..MaxObj
    BY <1>9, <2>3, <2>4, BoundsAssumption
  <2>9. TypeOK'
    BY <1>1, <1>5, <2>4, <2>6, <2>8, BoundsAssumption DEF SessionInv, TypeOK, netVars, nodeVars
  <2>10. JoinedIsServed'
    <3>1. \A u \in Joined : u \in DHTTags => dht # 0
      BY DEF SessionInv, JoinedIsServed
    <3>2. dht' # 0 /\ (dht # 0 => dht' = dht)
      BY <2>4, <2>6
    <3>3. UNCHANGED <<nets, loop>>
      BY <1>1 DEF netVars
    <3> QED BY <1>3, <3>1, <3>2, <3>3 DEF SessionInv, JoinedIsServed
  <2> QED BY <1>6, <1>8, <2>7, <2>9, <2>10 DEF SessionInv
<1>11. CASE op'.at = "fail"
  <2>1. UNCHANGED dhtVars
    BY <1>1, <1>11 DEF AcquireDHT, Ops
  <2>2. Counted' = Counted
    BY <1>1, <1>3, <1>5, <1>11 DEF Counted, TagsOf, netVars
  <2>3. TypeOK'
    BY <1>1, <1>5, <2>1 DEF SessionInv, TypeOK, netVars, nodeVars, dhtVars
  <2> QED BY <1>1, <1>3, <1>6, <1>8, <2>1, <2>2, <2>3, SameCount, StillServed
          DEF SessionInv, netVars, dhtVars
<1> QED BY <1>4, <1>10, <1>11

(* An entry that failed leaves nothing counted or served behind. *)
LEMMA FailedEntryKeeps ==
  ASSUME SessionInv, FailedEntry
  PROVE  SessionInv'
<1>1. /\ op.at = "fail" /\ op.left = {} /\ engine # 0 /\ (op.ending <=> Joined = {}) /\ op \in Ops
      /\ engine' = IF op.ending THEN 0 ELSE engine
      /\ UNCHANGED <<netVars, nodes, tables, dhtVars, loop>>
  BY DEF FailedEntry, OpAt, SessionInv, OpInv, Entering, EntryStages, TypeOK
<1>2. op' = Idle /\ op' \in Ops /\ op'.at = "idle" /\ op'.left = {} /\ op'.tags = {}
  BY DEF FailedEntry, Idle, Ops
<1>3. Joined' = Joined
  BY <1>1 DEF Joined, netVars
<1>4. Served = Joined /\ Served' = Joined /\ Counted' = Counted
  BY <1>1, <1>2, <1>3 DEF Served, Counted, TagsOf, netVars
<1>5. TypeOK'
  BY <1>1, <1>2 DEF SessionInv, TypeOK, netVars, dhtVars
<1>6. OpInv'
  BY <1>1, <1>2, <1>3 DEF OpInv, Entering, Leaving, Resting, EntryStages, LeaveStages
<1>7. TableInv'
  BY <1>1, <1>4 DEF SessionInv, TableInv
<1> QED BY <1>1, <1>3, <1>4, <1>5, <1>6, <1>7, SameCount, StillNets, StillServed
        DEF SessionInv, netVars, dhtVars

(* The new netSession is the last one built, and nobody can have stopped it. *)
LEMMA CreateInEngineKeeps ==
  ASSUME SessionInv, CreateInEngine
  PROVE  SessionInv'
<1>1. /\ op.at = "create" /\ op.left = {} /\ engine # 0 /\ (op.ending <=> Joined = {}) /\ op \in Ops
      /\ Len(tagOf) < MaxObj
      /\ op' = [op EXCEPT !.at = "enter"]
      /\ UNCHANGED <<nets, stopped, nodeVars, dhtVars, loop>>
  BY DEF CreateInEngine, OpAt, SessionInv, OpInv, Entering, EntryStages, TypeOK
<1>2. PICK t \in Tags : op.tags = {t} /\ nets[t] = 0
  BY <1>1 DEF SessionInv, OpInv, Entering, EntryStages
<1>3. /\ tagOf' = Append(tagOf, t)
      /\ tables' = [tables EXCEPT ![engine] = @ \cup {t}]
  BY <1>2 DEF CreateInEngine
<1>4. op' \in Ops /\ op'.at = "enter" /\ op'.tags = {t} /\ op'.left = {} /\ op'.ending = op.ending
  BY <1>1, <1>2 DEF Ops
<1>5. Joined' = Joined
  BY <1>1 DEF Joined
<1>6. /\ tagOf' \in Seq(Tags) /\ Len(tagOf') = Len(tagOf) + 1
      /\ DOMAIN tagOf' = DOMAIN tagOf \cup {Len(tagOf')}
      /\ tagOf'[Len(tagOf')] = t /\ \A k \in DOMAIN tagOf : tagOf'[k] = tagOf[k]
      /\ Len(tagOf') \notin DOMAIN tagOf
  <2>1. tagOf \in Seq(Tags)
    BY DEF SessionInv, TypeOK
  <2> QED BY <1>3, <2>1, AppendProperties, Indices DEF SessionInv
<1>7. stopped \subseteq DOMAIN tagOf /\ engine \in Engines /\ tables \in [Engines -> SUBSET Tags]
  BY <1>1, BoundsAssumption DEF SessionInv, TypeOK, Engines
<1>8. TypeOK'
  <2>1. Len(tagOf') <= MaxObj
    BY <1>1, <1>6, BoundsAssumption, Indices DEF SessionInv
  <2>2. tables' \in [Engines -> SUBSET Tags]
    BY <1>3, <1>7
  <2> QED BY <1>1, <1>4, <1>6, <1>7, <2>1, <2>2 DEF SessionInv, TypeOK, nodeVars, dhtVars
<1>9. OpInv'
  BY <1>1, <1>2, <1>4, <1>5, <1>6, <1>7 DEF OpInv, Entering, Leaving, Resting, EntryStages, LeaveStages, nodeVars
<1>10. NetsInv'
  BY <1>1, <1>5, <1>6 DEF SessionInv, NetsInv
<1>11. Counted' = Counted /\ Served' = Served \cup {t}
  BY <1>1, <1>2, <1>4, <1>5 DEF Counted, Served, TagsOf
<1>12. TableInv'
  BY <1>1, <1>3, <1>7, <1>11 DEF SessionInv, TableInv, nodeVars
<1> QED BY <1>1, <1>5, <1>8, <1>9, <1>10, <1>11, <1>12, SameCount, StillServed
        DEF SessionInv, dhtVars

(* The network is counted and served before it is in s.nets. *)
LEMMA EnterKeeps ==
  ASSUME SessionInv, Enter
  PROVE  SessionInv'
<1> DEFINE k == Len(tagOf)
<1>1. /\ op.at = "enter" /\ op.left = {} /\ engine # 0 /\ op \in Ops
      /\ k \in DOMAIN tagOf \ stopped /\ op.tags = {tagOf[k]}
      /\ op' = Idle
      /\ UNCHANGED <<tagOf, stopped, nodeVars, tables, dhtVars>>
  BY DEF Enter, OpAt, SessionInv, OpInv, Entering, EntryStages, TypeOK
<1>2. PICK t \in Tags : op.tags = {t} /\ nets[t] = 0
  BY <1>1 DEF SessionInv, OpInv, Entering, EntryStages
<1>3. /\ tagOf[k] = t /\ nets' = [nets EXCEPT ![t] = k]
      /\ loop' = [loop EXCEPT ![k].at = "start"]
  BY <1>1, <1>2 DEF Enter
<1>4. op' \in Ops /\ op'.at = "idle" /\ op'.left = {} /\ op'.tags = {}
  BY <1>1 DEF Idle, Ops
<1>5. k \in Nat /\ k # 0 /\ k \in Objs
  BY <1>1, Indices DEF SessionInv
<1>6. nets \in [Tags -> 0..MaxObj] /\ loop \in [Objs -> Loops]
  BY DEF SessionInv, TypeOK
<1>7. nets'[t] = k /\ \A u \in Tags : u # t => nets'[u] = nets[u]
  BY <1>3, <1>6
<1>8. Joined' = Joined \cup {t} /\ t \notin Joined
  BY <1>2, <1>5, <1>7 DEF Joined
<1>9. \A u \in Joined : nets[u] # k
  BY <1>3, <1>8 DEF SessionInv, NetsInv
<1>10. /\ loop' \in [Objs -> Loops] /\ loop'[k].at = "start"
       /\ \A m \in Objs : m # k => loop'[m] = loop[m]
  BY <1>3, <1>5, <1>6 DEF Loops, Stages
<1>11. TypeOK'
  <2>1. nets' \in [Tags -> 0..MaxObj]
    BY <1>3, <1>5, <1>6 DEF Objs
  <2> QED BY <1>1, <1>4, <1>10, <2>1 DEF SessionInv, TypeOK, nodeVars, dhtVars
<1>12. OpInv'
  BY <1>1, <1>4, <1>8 DEF OpInv, Entering, Leaving, Resting, EntryStages, LeaveStages, nodeVars
<1>13. NetsInv'
  BY <1>1, <1>3, <1>7, <1>8 DEF SessionInv, NetsInv, Joined
<1>14. Counted' = Counted /\ Served' = Served
  BY <1>1, <1>2, <1>4, <1>8 DEF Counted, Served, TagsOf
<1>15. JoinedIsServed'
  <2>1. t \in DHTTags => t \in Counted
    BY <1>1, <1>2 DEF Counted
  <2>2. t \in DHTTags => dht # 0
    BY <2>1 DEF SessionInv, CountInv
  <2>3. \A u \in Joined : nets[u] \in Objs
    BY Indices DEF SessionInv, NetsInv
  <2>4. dht' = dht
    BY <1>1 DEF dhtVars
  <2>5. \A u \in Joined : nets'[u] = nets[u] /\ loop'[nets[u]] = loop[nets[u]]
    BY <1>7, <1>8, <1>9, <1>10, <2>3 DEF Joined
  <2> QED BY <1>7, <1>8, <1>10, <2>2, <2>4, <2>5 DEF SessionInv, JoinedIsServed
<1> QED BY <1>1, <1>11, <1>12, <1>13, <1>14, <1>15, SameCount, SameTables
        DEF SessionInv, nodeVars, dhtVars

-----------------------------------------------------------------------------
(* Leaving *)

(* The networks taken out of s.nets are still counted and in the table. *)
LEMMA RemoveNetworkKeeps ==
  ASSUME SessionInv, NEW t \in Tags, RemoveNetwork(t)
  PROVE  SessionInv'
<1>1. /\ op = Idle /\ t \in Joined /\ engine # 0
      /\ nets' = [nets EXCEPT ![t] = 0]
      /\ UNCHANGED <<tagOf, stopped, nodeVars, tables, dhtVars, loop>>
  BY DEF RemoveNetwork, OpAt, SessionInv, OpInv, Resting, Joined
<1>2. /\ op'.at = "leave" /\ op'.tags = {} /\ op'.left = {nets[t]}
      /\ op'.ending = (Joined = {t})
  BY DEF RemoveNetwork, Idle
<1>3. nets[t] \in DOMAIN tagOf \ stopped /\ tagOf[nets[t]] = t /\ DOMAIN tagOf \subseteq Objs
  BY <1>1, Indices DEF SessionInv, NetsInv
<1>4. nets'[t] = 0 /\ \A u \in Tags : u # t => nets'[u] = nets[u]
  BY <1>1 DEF SessionInv, TypeOK
<1>5. Joined' = Joined \ {t}
  BY <1>4 DEF Joined
<1>6. op' \in Ops
  <2>1. op' = [at |-> "leave", tags |-> {}, ending |-> Joined = {t}, left |-> {nets[t]}]
    BY DEF RemoveNetwork, Idle
  <2> QED BY <1>3, <2>1 DEF Ops
<1>7. TypeOK'
  <2>1. nets' \in [Tags -> 0..MaxObj]
    BY <1>1, BoundsAssumption DEF SessionInv, TypeOK
  <2> QED BY <1>1, <1>6, <2>1 DEF SessionInv, TypeOK, nodeVars, dhtVars
<1>8. OpInv'
  BY <1>1, <1>2, <1>3, <1>4, <1>5
     DEF OpInv, Entering, Leaving, Resting, EntryStages, LeaveStages, nodeVars
<1>9. Counted' = Counted /\ Served' = Served
  <2>1. op.at = "idle" /\ op.left = {} /\ op.tags = {}
    BY <1>1 DEF Idle
  <2>2. TagsOf(op.left)' = {t}
    BY <1>1, <1>2, <1>3 DEF TagsOf
  <2>3. TagsOf(op.left) = {} /\ Joined = Joined' \cup {t}
    BY <1>1, <1>5, <2>1 DEF TagsOf
  <2> QED BY <1>2, <2>1, <2>2, <2>3 DEF Counted, Served
<1> QED BY <1>1, <1>4, <1>5, <1>7, <1>8, <1>9, SameCount, SameTables, StillNets, StillServed
        DEF SessionInv, nodeVars, dhtVars, Joined

(* Stopping leaves every network there is. *)
LEMMA StopKeeps ==
  ASSUME SessionInv, Stop
  PROVE  SessionInv'
<1>1. /\ op = Idle /\ (engine # 0 <=> Joined # {})
      /\ nets' = [t \in Tags |-> 0]
      /\ UNCHANGED <<tagOf, stopped, nodeVars, tables, dhtVars, loop>>
  BY DEF Stop, OpAt, SessionInv, OpInv, Resting
<1>2. op' = [at |-> "leave", tags |-> {}, ending |-> TRUE, left |-> {nets[t] : t \in Joined}]
  BY DEF Stop, Idle
<1>3. /\ \A t \in Joined : nets[t] \in DOMAIN tagOf \ stopped /\ tagOf[nets[t]] = t
      /\ DOMAIN tagOf \subseteq Objs
  BY Indices DEF SessionInv, NetsInv
<1>4. Joined' = {}
  BY <1>1 DEF Joined
<1>5. op' \in Ops
  BY <1>2, <1>3 DEF Ops
<1>6. TypeOK'
  BY <1>1, <1>5, BoundsAssumption DEF SessionInv, TypeOK, nodeVars, dhtVars
<1>7. OpInv'
  <2>1. \A k \in op'.left : tagOf[k] \in Tags /\ k \in DOMAIN tagOf \ stopped /\ nets[tagOf[k]] = k
    BY <1>2, <1>3 DEF Joined
  <2>2. op'.left # {} => Joined # {}
    BY <1>2
  <2> QED BY <1>1, <1>2, <1>4, <2>1, <2>2
          DEF OpInv, Entering, Leaving, Resting, EntryStages, LeaveStages, nodeVars
<1>8. Counted' = Counted /\ Served' = Served
  <2>1. op.at = "idle" /\ op.left = {} /\ op.tags = {}
    BY <1>1 DEF Idle
  <2>2. TagsOf(op.left)' = Joined
    BY <1>1, <1>2, <1>3 DEF TagsOf
  <2>3. TagsOf(op.left) = {}
    BY <2>1 DEF TagsOf
  <2> QED BY <1>2, <1>4, <2>1, <2>2, <2>3 DEF Counted, Served
<1> QED BY <1>1, <1>4, <1>6, <1>7, <1>8, SameCount, SameTables, StillNets, StillServed
        DEF SessionInv, nodeVars, dhtVars

(* What holds at each stage of leaving *)
LEMMA LeavingFacts ==
  ASSUME SessionInv, op.at \in LeaveStages
  PROVE  /\ op \in Ops /\ op.left \subseteq DOMAIN tagOf
         /\ op.ending <=> Joined = {}
         /\ op.left # {} \/ Joined # {} => engine # 0
         /\ \A k \in op.left : nets[tagOf[k]] = 0 /\ tagOf[k] \in Tags \ Joined
         /\ \A k, m \in op.left : tagOf[k] = tagOf[m] => k = m
         /\ op.at = "leave" => op.left \cap stopped = {}
         /\ op.at # "leave" => \E k \in op.left : op.left \cap stopped = {k}
         /\ op.at = "release" => \A k \in op.left \cap stopped : OnDHT(k)
<1>1. op \in Ops /\ Leaving
  BY DEF SessionInv, OpInv, TypeOK
<1>2. \A k \in DOMAIN tagOf : tagOf[k] \in Tags
  BY Indices DEF SessionInv
<1> QED BY <1>1, <1>2 DEF Leaving, Joined

(* The loop of a netSession that is being left is told to stop. *)
LEMMA CloseStopKeeps ==
  ASSUME SessionInv, NEW k \in Objs, CloseStop(k)
  PROVE  SessionInv'
<1>1. /\ op.at = "leave" /\ k \in op.left /\ stopped' = stopped \cup {k}
      /\ op' = [op EXCEPT !.at = "leaveEngine"]
      /\ UNCHANGED <<nets, tagOf, nodeVars, tables, dhtVars, loop>>
  BY DEF CloseStop, OpAt
<1>2. /\ op \in Ops /\ op.left \subseteq DOMAIN tagOf /\ op.left \cap stopped = {}
      /\ \A m \in op.left : nets[tagOf[m]] = 0 /\ tagOf[m] \in Tags \ Joined
  BY <1>1, LeavingFacts DEF LeaveStages
<1>3. /\ op' \in Ops /\ op'.at = "leaveEngine" /\ op'.left = op.left
      /\ op'.ending = op.ending /\ op'.tags = op.tags
  BY <1>1, <1>2 DEF Ops
<1>4. Joined' = Joined
  BY <1>1 DEF Joined
<1>5. TypeOK'
  BY <1>1, <1>2, <1>3 DEF SessionInv, TypeOK, nodeVars, dhtVars
<1>6. OpInv'
  BY <1>1, <1>2, <1>3, <1>4, LeavingFacts
     DEF OpInv, Entering, Leaving, Resting, EntryStages, LeaveStages, nodeVars
<1>7. NetsInv'
  BY <1>1, <1>2, <1>4 DEF SessionInv, NetsInv
<1>8. Counted' = Counted /\ Served' = Served
  BY <1>1, <1>3, <1>4 DEF Counted, Served, TagsOf
<1> QED BY <1>1, <1>4, <1>5, <1>6, <1>7, <1>8, SameCount, SameTables, StillServed
        DEF SessionInv, nodeVars, dhtVars

(* The netSession whose part is over leaves op.left, as nobody else's is.   *)
LEMMA AfterLeavingFacts ==
  ASSUME SessionInv, NEW k \in op.left \cap stopped, op.at \in {"leaveEngine", "release"},
         op' = AfterLeaving(k), UNCHANGED <<nets, tagOf, stopped, nodeVars>>
  PROVE  /\ op' \in Ops /\ op'.at = "leave" /\ op'.left = op.left \ {k}
         /\ OpInv'
         /\ TagsOf(op.left)' = TagsOf(op.left) \ {tagOf[k]}
         /\ tagOf[k] \in TagsOf(op.left) /\ tagOf[k] \notin Joined
<1>1. /\ op \in Ops /\ op.left \cap stopped = {k}
      /\ \A m \in op.left : nets[tagOf[m]] = 0 /\ tagOf[m] \in Tags \ Joined
      /\ \A m, l \in op.left : tagOf[m] = tagOf[l] => m = l
  BY LeavingFacts DEF LeaveStages
<1>2. /\ op' \in Ops /\ op'.at = "leave" /\ op'.left = op.left \ {k}
      /\ op'.ending = op.ending /\ op'.tags = op.tags
  BY <1>1 DEF AfterLeaving, Ops
<1>3. OpInv'
  <2>1. Joined' = Joined
    BY DEF Joined
  <2> QED BY <1>1, <1>2, <2>1, LeavingFacts
          DEF OpInv, Entering, Leaving, Resting, EntryStages, LeaveStages, nodeVars
<1>4. TagsOf(op.left)' = TagsOf(op.left) \ {tagOf[k]}
  BY <1>1, <1>2 DEF TagsOf
<1>5. tagOf[k] \in TagsOf(op.left)
  BY DEF TagsOf
<1> QED BY <1>1, <1>2, <1>3, <1>4, <1>5

(* The engine stops serving the network; the discoverer is held still. *)
LEMMA LeaveEngineKeeps ==
  ASSUME SessionInv, NEW k \in Objs, LeaveEngine(k)
  PROVE  SessionInv'
<1>1. /\ op.at = "leaveEngine" /\ k \in op.left \cap stopped
      /\ tables' = IF engine = 0 THEN tables ELSE [tables EXCEPT ![engine] = @ \ {tagOf[k]}]
      /\ op' = IF OnDHT(k) THEN [op EXCEPT !.at = "release"] ELSE AfterLeaving(k)
      /\ UNCHANGED <<netVars, nodeVars, dhtVars, loop>>
  BY DEF LeaveEngine, OpAt
<1>2. /\ op \in Ops /\ engine # 0 /\ op.left \cap stopped = {k}
      /\ \A m \in op.left : nets[tagOf[m]] = 0 /\ tagOf[m] \in Tags \ Joined
      /\ \A m, l \in op.left : tagOf[m] = tagOf[l] => m = l
  BY <1>1, LeavingFacts DEF LeaveStages
<1>3. Joined' = Joined /\ UNCHANGED <<nets, tagOf, stopped>>
  BY <1>1 DEF Joined, netVars
<1>4. engine \in Engines /\ tables \in [Engines -> SUBSET Tags] /\ engine' = engine
  BY <1>1, <1>2, BoundsAssumption DEF SessionInv, TypeOK, Engines, nodeVars
<1>5. tables' = [tables EXCEPT ![engine] = @ \ {tagOf[k]}] /\ tables' \in [Engines -> SUBSET Tags]
  BY <1>1, <1>2, <1>4
<1>6. Served = Joined \cup TagsOf(op.left)
  BY <1>1 DEF Served
<1>7. op' \in Ops /\ OpInv' /\ Served' = Served \ {tagOf[k]} /\ Counted' = Counted
  <2>1. CASE OnDHT(k)
    <3>1. /\ op' \in Ops /\ op'.at = "release" /\ op'.left = op.left
          /\ op'.ending = op.ending /\ op'.tags = op.tags
      BY <1>1, <1>2, <2>1 DEF Ops
    <3>2. OpInv'
      BY <1>1, <1>2, <1>3, <2>1, <3>1, LeavingFacts
         DEF OpInv, Entering, Leaving, Resting, EntryStages, LeaveStages, nodeVars, OnDHT
    <3>3. Served' = Joined \cup TagsOf(op.left \ {k})
      BY <1>2, <1>3, <3>1 DEF Served, TagsOf
    <3>4. TagsOf(op.left \ {k}) = TagsOf(op.left) \ {tagOf[k]}
      BY <1>1, <1>2 DEF TagsOf
    <3>5. Counted' = Counted
      BY <1>1, <1>3, <3>1 DEF Counted, TagsOf
    <3> QED BY <1>1, <1>2, <1>6, <3>1, <3>2, <3>3, <3>4, <3>5
  <2>2. CASE ~OnDHT(k)
    <3>1. /\ op' \in Ops /\ op'.at = "leave" /\ op'.left = op.left \ {k} /\ OpInv'
          /\ TagsOf(op.left)' = TagsOf(op.left) \ {tagOf[k]} /\ tagOf[k] \notin Joined
      BY <1>1, <1>3, <2>2, AfterLeavingFacts
    <3>2. Counted' = Counted
      BY <1>1, <1>3, <2>2, <3>1 DEF Counted, OnDHT
    <3>3. Served' = Served \ {tagOf[k]}
      BY <1>3, <1>6, <3>1 DEF Served
    <3> QED BY <3>1, <3>2, <3>3
  <2> QED BY <2>1, <2>2
<1>8. TypeOK'
  BY <1>1, <1>5, <1>7 DEF SessionInv, TypeOK, netVars, nodeVars, dhtVars
<1>9. TableInv'
  BY <1>4, <1>5, <1>7 DEF SessionInv, TableInv
<1> QED BY <1>1, <1>3, <1>7, <1>8, <1>9, SameCount, StillNets, StillServed
        DEF SessionInv, dhtVars

(* The discoverer is closed when the last network that was counted gives it  *)
(* up; then no network that is joined uses it.                               *)
LEMMA ReleaseDHTKeeps ==
  ASSUME SessionInv, NEW k \in Objs, ReleaseDHT(k)
  PROVE  SessionInv'
<1>1. /\ op.at = "release" /\ k \in op.left \cap stopped /\ op' = AfterLeaving(k)
      /\ UNCHANGED <<netVars, nodeVars, tables, dhts, loop>>
  BY DEF ReleaseDHT, OpAt
<1>2. tagOf[k] \in DHTTags /\ op.left \cap stopped = {k}
  BY <1>1, LeavingFacts DEF LeaveStages, OnDHT
<1>3. Joined' = Joined /\ UNCHANGED <<nets, tagOf, stopped>>
  BY <1>1 DEF Joined, netVars
<1>4. /\ op' \in Ops /\ op'.at = "leave" /\ op'.left = op.left \ {k} /\ OpInv'
      /\ TagsOf(op.left)' = TagsOf(op.left) \ {tagOf[k]}
      /\ tagOf[k] \in TagsOf(op.left) /\ tagOf[k] \notin Joined
  BY <1>1, <1>3, AfterLeavingFacts
<1>5. Counted' = Counted \ {tagOf[k]} /\ tagOf[k] \in Counted
  BY <1>1, <1>2, <1>3, <1>4 DEF Counted
<1>6. Served' = Served
  <2>1. TagsOf(op.left \ stopped) = TagsOf(op.left)'
    BY <1>2, <1>3, <1>4 DEF TagsOf
  <2> QED BY <1>1, <1>3, <1>4, <2>1 DEF Served
<1>7. /\ Cardinality(Counted) \in Nat /\ dhtRefs = Cardinality(Counted)
      /\ Cardinality(Counted') = dhtRefs - 1 /\ dht # 0
      /\ dhtRefs - 1 = 0 <=> Counted' = {}
      /\ dhtRefs - 1 \in Nat
  <2>1. dhtRefs = Cardinality(Counted) /\ dht # 0
    BY <1>5 DEF SessionInv, CountInv
  <2>2. Cardinality(Counted') = Cardinality(Counted) - 1
    BY <1>5, CountedFinite, FS_RemoveElement
  <2>3. Cardinality(Counted) \in Nat /\ Cardinality(Counted') \in Nat
    BY CountedFinite, FS_CardinalityType
  <2>4. Cardinality(Counted') = 0 <=> Counted' = {}
    BY CountedFinite, FS_EmptySet
  <2> QED BY <2>1, <2>2, <2>3, <2>4
<1>8. \/ dhtRefs > 1 /\ dhtRefs' = dhtRefs - 1 /\ dht' = dht
      \/ ~(dhtRefs > 1) /\ dht' = 0 /\ dhtRefs' = 0
  BY <1>7 DEF ReleaseDHT
<1>9. CountInv'
  BY <1>7, <1>8 DEF CountInv
<1>10. TypeOK'
  <2>1. dhtRefs' \in 0..MaxObj /\ dht' \in 0..dhts
    BY <1>7, <1>8, BoundsAssumption DEF SessionInv, TypeOK
  <2> QED BY <1>1, <1>3, <1>4, <2>1 DEF SessionInv, TypeOK, nodeVars
<1>11. JoinedIsServed'
  <2>1. \A t \in Joined : t \in DHTTags => t \in Counted'
    BY <1>3 DEF Counted
  <2>2. (\E t \in Joined : t \in DHTTags) => dht' = dht /\ dht # 0
    BY <1>7, <1>8, <2>1
  <2>3. UNCHANGED <<nets, loop>>
    BY <1>1 DEF netVars
  <2> QED BY <1>3, <2>2, <2>3 DEF SessionInv, JoinedIsServed
<1>12. NetsInv' /\ TableInv'
  BY <1>1, <1>3, <1>6, StillNets, SameTables DEF SessionInv, nodeVars
<1> QED BY <1>4, <1>9, <1>10, <1>11, <1>12 DEF SessionInv

(* The node goes down when no network is entered or being left. *)
LEMMA TearDownNodeKeeps ==
  ASSUME SessionInv, TearDownNode
  PROVE  SessionInv'
<1>1. /\ op.at = "leave" /\ op.left = {}
      /\ engine' = IF op.ending THEN 0 ELSE engine
      /\ UNCHANGED <<netVars, nodes, tables, dhtVars, loop>>
  BY DEF TearDownNode, OpAt
<1>2. (op.ending <=> Joined = {}) /\ (Joined # {} => engine # 0) /\ op \in Ops
  BY <1>1, LeavingFacts DEF LeaveStages
<1>3. op' = Idle /\ op' \in Ops /\ op'.at = "idle" /\ op'.left = {} /\ op'.tags = {}
  BY DEF TearDownNode, Idle, Ops
<1>4. Joined' = Joined
  BY <1>1 DEF Joined, netVars
<1>5. Served = Joined /\ Served' = Joined /\ Counted' = Counted
  BY <1>1, <1>3, <1>4 DEF Served, Counted, TagsOf, netVars
<1>6. TypeOK'
  BY <1>1, <1>3 DEF SessionInv, TypeOK, netVars, dhtVars
<1>7. OpInv'
  BY <1>1, <1>2, <1>3, <1>4 DEF OpInv, Entering, Leaving, Resting, EntryStages, LeaveStages
<1>8. TableInv'
  BY <1>1, <1>2, <1>5 DEF SessionInv, TableInv
<1> QED BY <1>1, <1>4, <1>5, <1>6, <1>7, <1>8, SameCount, StillNets, StillServed
        DEF SessionInv, netVars, dhtVars

-----------------------------------------------------------------------------
(* A loop of a network that is joined goes on, with the discoverer it found: *)
(* it is not stopped, and the discoverer is there.                           *)
LEMMA LoopKeeps ==
  ASSUME SessionInv, NEW k \in Objs, Loop(k)
  PROVE  SessionInv'
<1>1. UNCHANGED opVars /\ loop \in [Objs -> Loops]
  BY DEF Loop, Start, Answer, CheckStop, Wait, SessionInv, TypeOK
<1>2. loop' \in [Objs -> Loops] /\ \A m \in Objs : m # k => loop'[m] = loop[m]
  <2>1. dht \in 0..MaxDHT /\ NoLoop \in Loops /\ Ended \in Loops
    BY BoundsAssumption DEF SessionInv, TypeOK, NoLoop, Ended, Loops, Stages
  <2>2. ASSUME NEW l \in Loops, NEW s \in Stages
        PROVE  [l EXCEPT !.at = s] \in Loops /\ [l EXCEPT !.at = s, !.dht = dht] \in Loops
    BY <2>1 DEF Loops
  <2>3. PICK l \in Loops : loop' = [loop EXCEPT ![k] = l]
    <3>1. CASE Start(k)
      BY <1>1, <2>1, <2>2, <3>1 DEF Start, Stages
    <3>2. CASE Answer(k)
      BY <1>1, <2>2, <3>2 DEF Answer, Stages
    <3>3. CASE CheckStop(k)
      BY <1>1, <2>1, <2>2, <3>3 DEF CheckStop, Stages
    <3>4. CASE Wait(k)
      BY <1>1, <2>1, <2>2, <3>4 DEF Wait, Stages
    <3> QED BY <3>1, <3>2, <3>3, <3>4 DEF Loop
  <2> QED BY <1>1, <2>3
<1>3. ASSUME NEW t \in Joined, nets[t] = k
      PROVE  /\ loop'[k].at \notin {"none", "done"}
             /\ t \in DHTTags => loop'[k].at # "start" /\ loop'[k].dht = dht
  <2>1. k \notin stopped /\ tagOf[k] = t
    BY <1>3 DEF SessionInv, NetsInv
  <2>2. t \in DHTTags => dht # 0 /\ (loop[k].at # "start" => loop[k].dht = dht)
    BY <1>3 DEF SessionInv, JoinedIsServed
  <2>3. CASE Start(k)
    BY <1>1, <2>1, <2>2, <2>3 DEF Start, LoopAt, OnDHT, Loops
  <2>4. CASE Answer(k)
    BY <1>1, <2>2, <2>4 DEF Answer, LoopAt, Loops
  <2>5. CASE CheckStop(k)
    BY <1>1, <2>1, <2>2, <2>5 DEF CheckStop, LoopAt, Loops
  <2>6. CASE Wait(k)
    BY <1>1, <2>1, <2>2, <2>6 DEF Wait, LoopAt, Loops
  <2> QED BY <2>3, <2>4, <2>5, <2>6 DEF Loop
<1>4. UNCHANGED <<nets, tagOf, stopped, engine, nodes, tables, dht, dhtRefs, dhts, op, Joined>>
  BY <1>1 DEF opVars, netVars, nodeVars, dhtVars, Joined
<1>5. TypeOK'
  BY <1>2, <1>4 DEF SessionInv, TypeOK
<1>6. NetsInv' /\ OpInv'
  BY <1>4 DEF SessionInv, NetsInv, OpInv, Entering, Leaving, Resting, OnDHT
<1>7. Counted' = Counted /\ Served' = Served
  BY <1>4 DEF Counted, Served, TagsOf
<1>8. CountInv' /\ TableInv'
  BY <1>4, <1>7, SameCount, SameTables DEF SessionInv
<1>9. JoinedIsServed'
  <2>1. \A t \in Joined : nets[t] \in Objs
    BY Indices DEF SessionInv, NetsInv
  <2> QED BY <1>2, <1>3, <1>4, <2>1 DEF SessionInv, JoinedIsServed
<1> QED BY <1>5, <1>6, <1>8, <1>9 DEF SessionInv

-----------------------------------------------------------------------------
(* The invariant holds in every reachable state. *)
LEMMA SessionInductive == Spec => []SessionInv
<1>1. Init => SessionInv
  <2> SUFFICES ASSUME Init PROVE SessionInv
    OBVIOUS
  <2>1. Joined = {} /\ Counted = {} /\ Served = {}
    BY DEF Init, Joined, Counted, Served, TagsOf, Idle
  <2>2. TypeOK
    <3>1. 0 \in 0..MaxObj /\ 0 \in 0..MaxNode /\ 0 \in 0..MaxDHT
      BY BoundsAssumption
    <3>2. Idle \in Ops
      BY DEF Idle, Ops
    <3>3. NoLoop \in Loops
      BY <3>1 DEF NoLoop, Loops, Stages
    <3>4. tagOf \in Seq(Tags) /\ Len(tagOf) = 0
      BY EmptySeq DEF Init
    <3> QED BY <3>1, <3>2, <3>3, <3>4, BoundsAssumption DEF Init, TypeOK
  <2>3. OpInv
    BY <2>1 DEF Init, OpInv, Entering, Leaving, Resting, EntryStages, LeaveStages, Idle
  <2>4. CountInv
    BY <2>1, FS_EmptySet DEF Init, CountInv
  <2>5. NetsInv /\ TableInv /\ JoinedIsServed
    BY <2>1 DEF Init, NetsInv, TableInv, JoinedIsServed
  <2> QED BY <2>2, <2>3, <2>4, <2>5 DEF SessionInv
<1>2. SessionInv /\ [Next]_vars => SessionInv'
  <2> SUFFICES ASSUME SessionInv, [Next]_vars PROVE SessionInv'
    OBVIOUS
  <2>1. CASE UNCHANGED vars
    <3>1. UNCHANGED <<nets, tagOf, stopped, engine, nodes, tables, dht, dhtRefs, dhts, op, loop, Joined>>
      BY <2>1 DEF vars, opVars, netVars, nodeVars, dhtVars, Joined
    <3>2. Counted' = Counted /\ Served' = Served
      BY <3>1 DEF Counted, Served, TagsOf
    <3> QED BY <3>1, <3>2 DEF SessionInv, TypeOK, NetsInv, OpInv, Entering, Leaving, Resting,
                              CountInv, TableInv, JoinedIsServed, OnDHT
  <2>2. CASE Operation
    BY <2>2, BringUpNodeKeeps, AcquireDHTKeeps, FailedEntryKeeps, CreateInEngineKeeps, EnterKeeps,
       CloseStopKeeps, LeaveEngineKeeps, ReleaseDHTKeeps, TearDownNodeKeeps DEF Operation
  <2> QED BY <2>1, <2>2, AddNetworkKeeps, RemoveNetworkKeeps, StopKeeps, LoopKeeps DEF Next
<1> QED BY <1>1, <1>2, PTL DEF Spec

(* Type correctness; the count stays within the number of netSessions. *)
THEOREM TypeCorrect == Spec => []TypeOK
<1>1. SessionInv => TypeOK
  BY DEF SessionInv
<1> QED BY <1>1, SessionInductive, PTL

(* Between operations the discoverer is counted once for each DHT network    *)
(* the node is in, and is there exactly while one is.                        *)
THEOREM DiscovererCounted == Spec => []DHTCounted
<1>1. SessionInv => DHTCounted
  <2> SUFFICES ASSUME SessionInv, op = Idle
               PROVE  /\ dhtRefs = Cardinality(Joined \cap DHTTags)
                      /\ dht # 0 <=> Joined \cap DHTTags # {}
    BY DEF DHTCounted
  <2>1. Counted = Joined \cap DHTTags
    BY DEF Counted, TagsOf, Idle
  <2> QED BY <2>1 DEF SessionInv, CountInv
<1> QED BY <1>1, SessionInductive, PTL

(* Between operations the node is up exactly while it is in a network, and   *)
(* the engine that is up serves these networks, no other engine any.         *)
THEOREM EngineServes == Spec => []NodeServesNets
<1>1. SessionInv => NodeServesNets
  <2> SUFFICES ASSUME SessionInv, op = Idle
               PROVE  /\ engine # 0 <=> Joined # {}
                      /\ \A e \in Engines : tables[e] = IF e = engine THEN Joined ELSE {}
    BY DEF NodeServesNets
  <2>1. Served = Joined
    BY DEF Served, TagsOf, Idle
  <2> QED BY <2>1 DEF SessionInv, TableInv, OpInv, Resting, Idle
<1> QED BY <1>1, SessionInductive, PTL

(* A network that is joined is searched for, with the open discoverer. *)
THEOREM LoopsServe == Spec => []JoinedIsServed
<1>1. SessionInv => JoinedIsServed
  BY DEF SessionInv
<1> QED BY <1>1, SessionInductive, PTL

-----------------------------------------------------------------------------
(* What is left ends *)

(* A netSession that is not in s.nets: it is stopped, about to be, or new.   *)
Outside(k) == k \in stopped \cup op.left \/ (op.at = "enter" /\ k = Len(tagOf))

LeftInv == \A k \in DOMAIN tagOf : nets[tagOf[k]] # k => Outside(k)

(* Taking networks out of s.nets hands their netSessions to the operation.   *)
LEMMA LeavingTakes ==
  ASSUME SessionInv, LeftInv, (\E t \in Tags : RemoveNetwork(t)) \/ Stop
  PROVE  LeftInv'
<1>1. op = Idle /\ UNCHANGED <<tagOf, stopped>>
  BY DEF RemoveNetwork, Stop, OpAt, SessionInv, OpInv, Resting
<1>2. \A k \in DOMAIN tagOf : tagOf[k] \in Tags /\ k # 0
  BY Indices DEF SessionInv
<1>3. ASSUME NEW k \in DOMAIN tagOf, nets[tagOf[k]] # k PROVE Outside(k)'
  BY <1>1, <1>3 DEF LeftInv, Outside, Idle
<1>4. ASSUME NEW k \in DOMAIN tagOf, nets[tagOf[k]] = k, nets'[tagOf[k]] # k PROVE Outside(k)'
  <2>1. CASE Stop
    <3>1. k \in {nets[t] : t \in Joined}
      BY <1>2, <1>4 DEF Joined
    <3> QED BY <2>1, <3>1 DEF Stop, Outside, Idle
  <2>2. ASSUME NEW t \in Tags, RemoveNetwork(t) PROVE Outside(k)'
    <3>1. t = tagOf[k]
      BY <1>2, <1>4, <2>2 DEF RemoveNetwork, SessionInv, TypeOK
    <3> QED BY <1>4, <2>2, <3>1 DEF RemoveNetwork, Outside, Idle
  <2> QED BY <2>1, <2>2
<1> QED BY <1>1, <1>3, <1>4 DEF LeftInv

(* A new netSession is put into s.nets by the operation that made it.        *)
LEMMA EnteringGives ==
  ASSUME SessionInv, LeftInv, CreateInEngine \/ Enter
  PROVE  LeftInv'
<1>1. op.left = {} /\ stopped' = stopped /\ op \in Ops
  BY DEF CreateInEngine, Enter, OpAt, SessionInv, OpInv, Entering, EntryStages, netVars, TypeOK
<1>2. Len(tagOf) \in Nat /\ DOMAIN tagOf = 1..Len(tagOf) /\ \A k \in DOMAIN tagOf : tagOf[k] \in Tags
  BY Indices DEF SessionInv
<1>3. CASE CreateInEngine
  <2>1. PICK t \in op.tags : tagOf' = Append(tagOf, t)
    BY <1>3 DEF CreateInEngine
  <2>2. t \in Tags /\ tagOf \in Seq(Tags)
    BY <1>1 DEF Ops, SessionInv, TypeOK
  <2>3. /\ Len(tagOf') = Len(tagOf) + 1 /\ DOMAIN tagOf' = 1..Len(tagOf')
        /\ \A k \in DOMAIN tagOf : tagOf'[k] = tagOf[k]
    BY <1>2, <2>1, <2>2, AppendProperties, LenProperties
  <2>4. op.at = "create" /\ op'.at = "enter" /\ nets' = nets
    BY <1>1, <1>3 DEF CreateInEngine, OpAt, Ops
  <2>5. ASSUME NEW k \in DOMAIN tagOf', nets'[tagOf'[k]] # k PROVE Outside(k)'
    <3>1. CASE k = Len(tagOf')
      BY <2>4, <3>1 DEF Outside
    <3>2. CASE k # Len(tagOf')
      <4>1. k \in DOMAIN tagOf
        BY <1>2, <2>3, <3>2
      <4>2. nets[tagOf[k]] # k
        BY <2>3, <2>4, <2>5, <4>1
      <4> QED BY <1>1, <2>4, <4>1, <4>2 DEF LeftInv, Outside
    <3> QED BY <3>1, <3>2
  <2> QED BY <2>5 DEF LeftInv
<1>4. CASE Enter
  <2>1. /\ op.at = "enter" /\ op.tags = {tagOf[Len(tagOf)]} /\ Len(tagOf) \in DOMAIN tagOf
        /\ nets[tagOf[Len(tagOf)]] = 0
    BY <1>4 DEF Enter, OpAt, SessionInv, OpInv, Entering, EntryStages
  <2>2. tagOf' = tagOf /\ nets' = [nets EXCEPT ![tagOf[Len(tagOf)]] = Len(tagOf)]
    BY <1>4, <2>1 DEF Enter
  <2>3. ASSUME NEW k \in DOMAIN tagOf, nets'[tagOf[k]] # k PROVE k \in stopped
    <3>1. k # Len(tagOf) /\ nets[tagOf[k]] # k
      BY <1>2, <2>1, <2>2, <2>3 DEF SessionInv, TypeOK
    <3> QED BY <1>1, <3>1 DEF LeftInv, Outside
  <2> QED BY <1>1, <2>2, <2>3 DEF LeftInv, Outside
<1> QED BY <1>3, <1>4

(* A netSession gets out of the operation's hands only stopped.              *)
LEMMA LeftStay ==
  ASSUME SessionInv, LeftInv, [Next]_vars
  PROVE  LeftInv'
<1>1. SUFFICES ASSUME ~((\E t \in Tags : RemoveNetwork(t)) \/ Stop), ~(CreateInEngine \/ Enter)
               PROVE  LeftInv'
  BY LeavingTakes, EnteringGives
<1>2. SUFFICES ASSUME NEW k \in DOMAIN tagOf, nets[tagOf[k]] # k, k \in stopped \cup op.left
               PROVE  k \in (stopped \cup op.left)'
  <2>1. nets' = nets /\ tagOf' = tagOf
    BY <1>1 DEF Next, Operation, AddNetwork, BringUpNode, AcquireDHT, FailedEntry, CloseStop,
                LeaveEngine, ReleaseDHT, TearDownNode, Loop, Start, Answer, CheckStop, Wait,
                vars, opVars, netVars
  <2>2. CASE op.at = "enter"
    <3>1. op' = op /\ stopped' = stopped
      BY <1>1, <2>2 DEF Next, Operation, AddNetwork, BringUpNode, AcquireDHT, FailedEntry,
                CloseStop, LeaveEngine, ReleaseDHT, TearDownNode, Loop, Start, Answer, CheckStop,
                Wait, OpAt, vars, opVars, netVars
    <3> QED BY <2>1, <3>1 DEF LeftInv, Outside
  <2>3. CASE op.at # "enter"
    BY <1>2, <2>1, <2>3 DEF LeftInv, Outside
  <2> QED BY <2>2, <2>3
<1>3. CASE UNCHANGED <<op, stopped>>
  BY <1>2, <1>3
<1>4. ASSUME NEW t \in Tags, AddNetwork(t) PROVE k \in (stopped \cup op.left)'
  <2>1. op.left = {}
    BY <1>4 DEF AddNetwork, OpAt, SessionInv, OpInv, Resting, Idle
  <2> QED BY <1>2, <1>4, <2>1 DEF AddNetwork, netVars
<1>5. CASE BringUpNode \/ AcquireDHT \/ FailedEntry
  <2>1. op.left = {}
    BY <1>5 DEF BringUpNode, AcquireDHT, FailedEntry, OpAt, SessionInv, OpInv, Entering, EntryStages
  <2> QED BY <1>2, <1>5, <2>1 DEF BringUpNode, AcquireDHT, FailedEntry, netVars
<1>6. ASSUME NEW m \in Objs, CloseStop(m) PROVE k \in (stopped \cup op.left)'
  <2>1. op'.left = op.left /\ stopped \subseteq stopped'
    BY <1>6 DEF CloseStop, SessionInv, TypeOK, Ops
  <2> QED BY <1>2, <2>1
<1>7. ASSUME NEW m \in Objs, LeaveEngine(m) \/ ReleaseDHT(m) PROVE k \in (stopped \cup op.left)'
  <2>1. stopped' = stopped /\ m \in stopped /\ op \in Ops
    BY <1>7 DEF LeaveEngine, ReleaseDHT, netVars, SessionInv, TypeOK
  <2>2. op.left \ {m} \subseteq op'.left
    BY <1>7, <2>1 DEF LeaveEngine, ReleaseDHT, AfterLeaving, Ops
  <2> QED BY <1>2, <2>1, <2>2
<1>8. CASE TearDownNode
  BY <1>2, <1>8 DEF TearDownNode, netVars
<1>9. ASSUME NEW m \in Objs, Loop(m) PROVE UNCHANGED <<op, stopped>>
  BY <1>9 DEF Loop, Start, Answer, CheckStop, Wait, opVars, netVars
<1> QED BY <1>1, <1>3, <1>4, <1>5, <1>6, <1>7, <1>8, <1>9
        DEF Next, Operation, vars, opVars, netVars

(* Between operations the loops that are told to stop are those of the       *)
(* networks that were left, all of them and no other: no stop channel is     *)
(* forgotten when several networks are left at once, and none is closed of a *)
(* network that was joined again.                                            *)
THEOREM LeftAreStopped ==
  Spec => [](op = Idle => \A k \in DOMAIN tagOf : k \in stopped <=> nets[tagOf[k]] # k)
<1>1. Init => LeftInv
  BY DEF Init, LeftInv
<1>2. SessionInv /\ LeftInv /\ [Next]_vars => LeftInv'
  BY LeftStay
<1>3. SessionInv /\ LeftInv
        => (op = Idle => \A k \in DOMAIN tagOf : k \in stopped <=> nets[tagOf[k]] # k)
  <2> SUFFICES ASSUME SessionInv, LeftInv, op = Idle, NEW k \in DOMAIN tagOf
               PROVE  k \in stopped <=> nets[tagOf[k]] # k
    OBVIOUS
  <2>1. tagOf[k] \in Tags /\ k # 0
    BY Indices DEF SessionInv
  <2>2. k \in stopped => nets[tagOf[k]] # k
    BY <2>1 DEF SessionInv, NetsInv, Joined
  <2> QED BY <2>2 DEF LeftInv, Outside, Idle
<1> QED BY <1>1, <1>2, <1>3, SessionInductive, PTL DEF Spec

(* What a loop that is told to stop still does: the rounds it is in.         *)
ToGo(k) ==
    CASE loop[k].at \in {"start", "waiting"} -> 3
      [] loop[k].at = "asking" -> 2
      [] loop[k].at = "answered" -> 1
      [] OTHER -> 0

Winding(k) ==
    /\ k \in stopped' /\ nets'[tagOf'[k]] # k
    /\ loop'[k] = loop[k] \/ ToGo(k)' < ToGo(k)

(* A loop that is told to stop never is started again, asks at most one time *)
(* more, and with every step it takes comes nearer to its end: that it takes *)
(* steps is all that LeftLoopsEnd needs besides.                             *)
THEOREM StoppedWindDown == Spec => [][\A k \in stopped : Winding(k)]_vars
<1>1. ASSUME SessionInv, SessionInv', Next, NEW k \in stopped PROVE Winding(k)
  <2>1. stopped \subseteq stopped'
    BY <1>1 DEF Next, Operation, AddNetwork, RemoveNetwork, Stop, BringUpNode, AcquireDHT,
                FailedEntry, CreateInEngine, Enter, CloseStop, LeaveEngine, ReleaseDHT,
                TearDownNode, Loop, Start, Answer, CheckStop, Wait, opVars, netVars
  <2>2. nets'[tagOf'[k]] # k
    <3>1. k \in stopped' /\ k \in DOMAIN tagOf' /\ tagOf'[k] \in Tags /\ k # 0
      <4>1. k \in stopped' /\ k \in DOMAIN tagOf'
        BY <1>1, <2>1 DEF SessionInv, TypeOK
      <4>2. ASSUME TypeOK' PROVE \A m \in DOMAIN tagOf' : tagOf'[m] \in Tags /\ m # 0
        <5>1. TypeOK => \A m \in DOMAIN tagOf : tagOf[m] \in Tags /\ m # 0
          BY Indices
        <5> QED BY <4>2, BoundsAssumption, LenProperties DEF TypeOK
      <4> QED BY <1>1, <4>1, <4>2 DEF SessionInv
    <3> QED BY <1>1, <3>1 DEF SessionInv, NetsInv, Joined
  <2>3. k \in Objs /\ loop \in [Objs -> Loops]
    BY <1>1, Indices DEF SessionInv, TypeOK
  <2>4. CASE loop' = loop
    BY <2>1, <2>2, <2>4 DEF Winding
  <2>5. CASE Enter
    <3>1. k # Len(tagOf)
      BY <1>1, <2>5 DEF Enter, OpAt, SessionInv, OpInv, Entering, EntryStages
    <3>2. loop' = [loop EXCEPT ![Len(tagOf)].at = "start"]
      BY <2>5 DEF Enter
    <3>3. loop'[k] = loop[k]
      BY <2>3, <3>1, <3>2
    <3> QED BY <1>1, <2>1, <2>2, <3>3 DEF Winding
  <2>6. ASSUME NEW m \in Objs, Loop(m) PROVE loop'[k] = loop[k] \/ ToGo(k)' < ToGo(k)
    <3>1. CASE m # k
      BY <2>3, <2>6, <3>1 DEF Loop, Start, Answer, CheckStop, Wait
    <3>2. CASE m = k
      <4>1. loop[k] \in Loops
        BY <2>3
      <4>2. CASE Start(k)
        <5>1. loop[k].at = "start" /\ loop'[k].at \in {"asking", "done"}
          BY <2>3, <4>1, <4>2 DEF Start, LoopAt, Ended, NoLoop, Loops
        <5> QED BY <5>1 DEF ToGo
      <4>3. CASE Answer(k)
        <5>1. loop[k].at = "asking" /\ loop'[k].at = "answered"
          BY <2>3, <4>1, <4>3 DEF Answer, LoopAt, Loops
        <5> QED BY <5>1 DEF ToGo
      <4>4. CASE CheckStop(k)
        <5>1. loop[k].at = "answered" /\ loop'[k].at = "done"
          BY <1>1, <2>3, <4>1, <4>4 DEF CheckStop, LoopAt, Ended, NoLoop, Loops
        <5> QED BY <5>1 DEF ToGo
      <4>5. CASE Wait(k)
        <5>1. loop[k].at = "waiting" /\ loop'[k].at \in {"asking", "done"}
          BY <2>3, <4>1, <4>5 DEF Wait, LoopAt, Ended, NoLoop, Loops
        <5> QED BY <5>1 DEF ToGo
      <4> QED BY <2>6, <3>2, <4>2, <4>3, <4>4, <4>5 DEF Loop
    <3> QED BY <3>1, <3>2
  <2> QED BY <1>1, <2>1, <2>2, <2>4, <2>5, <2>6
          DEF Winding, Next, Operation, AddNetwork, RemoveNetwork, Stop, BringUpNode, AcquireDHT,
              FailedEntry, CreateInEngine, CloseStop, LeaveEngine, ReleaseDHT, TearDownNode
<1>2. SessionInv /\ SessionInv' /\ [Next]_vars => [\A k \in stopped : Winding(k)]_vars
  BY <1>1
<1> QED BY <1>2, SessionInductive, PTL DEF Spec

(* What an operation still does while it holds opMu: its calls, at most three *)
(* for every network it leaves.                                               *)
Calls ==
    CASE op.at = "bringUp" -> 4
      [] op.at = "acquire" -> 3
      [] op.at = "create" -> 2
      [] op.at \in {"enter", "fail"} -> 1
      [] op.at = "leave" -> 3 * Cardinality(op.left) + 1
      [] op.at = "leaveEngine" -> 3 * Cardinality(op.left)
      [] op.at = "release" -> 3 * Cardinality(op.left) - 1
      [] OTHER -> 0

(* The netSessions to leave are finitely many, and one less after each.      *)
LEMMA LeftFinite ==
  ASSUME TypeOK
  PROVE  /\ Cardinality(op.left) \in Nat
         /\ \A k \in op.left : Cardinality(op.left \ {k}) = Cardinality(op.left) - 1
<1>1. op.left \subseteq 1..MaxObj /\ MaxObj \in Int
  BY BoundsAssumption DEF TypeOK, Ops, Objs
<1>2. IsFiniteSet(op.left)
  <2>1. IsFiniteSet(1..MaxObj)
    BY <1>1, FS_Interval
  <2> QED BY <1>1, <2>1, FS_Subset
<1> QED BY <1>2, FS_CardinalityType, FS_RemoveElement

(* Whoever holds opMu gives it up: no step of the session but the operation's *)
(* own changes what is left to do, and every one of those makes it less.         *)
THEOREM OperationsEnd == Spec => [][op # Idle => op' = op \/ Calls' < Calls]_vars
<1>1. ASSUME SessionInv, Next, op # Idle PROVE op' = op \/ Calls' < Calls
  <2> DEFINE c == Cardinality(op.left)
  <2>1. /\ op.at # "idle" /\ op \in Ops /\ c \in Nat
        /\ \A k \in op.left : Cardinality(op.left \ {k}) = c - 1
    BY <1>1, LeftFinite DEF SessionInv, OpInv, Resting, TypeOK
  <2>2. CASE BringUpNode
    <3>1. op.at = "bringUp" /\ op'.at \in {"acquire", "create", "idle"}
      BY <2>1, <2>2 DEF BringUpNode, OpAt, Ops, Idle, AfterNode
    <3> QED BY <3>1 DEF Calls
  <2>3. CASE AcquireDHT
    <3>1. op.at = "acquire" /\ op'.at \in {"create", "fail"}
      BY <2>1, <2>3 DEF AcquireDHT, OpAt, Ops
    <3> QED BY <3>1 DEF Calls
  <2>4. CASE CreateInEngine
    <3>1. op.at = "create" /\ op'.at = "enter"
      BY <2>1, <2>4 DEF CreateInEngine, OpAt, Ops
    <3> QED BY <3>1 DEF Calls
  <2>5. CASE FailedEntry \/ Enter
    <3>1. op.at \in {"fail", "enter"} /\ op'.at = "idle"
      BY <2>5 DEF FailedEntry, Enter, OpAt, Idle
    <3> QED BY <3>1 DEF Calls
  <2>6. ASSUME NEW k \in Objs, CloseStop(k) PROVE Calls' < Calls
    <3>1. op.at = "leave" /\ op'.at = "leaveEngine" /\ op'.left = op.left
      BY <2>1, <2>6 DEF CloseStop, OpAt, Ops
    <3> HIDE DEF c
    <3>2. Calls = 3 * c + 1 /\ Calls' = 3 * c
      BY <3>1 DEF Calls, c
    <3> QED BY <2>1, <3>2
  <2>7. ASSUME NEW k \in Objs, LeaveEngine(k) PROVE Calls' < Calls
    <3>1. k \in op.left /\ op.at = "leaveEngine" /\ Calls = 3 * c
      BY <2>7 DEF LeaveEngine, OpAt, Calls
    <3>2. \/ op'.at = "release" /\ op'.left = op.left
          \/ op'.at = "leave" /\ op'.left = op.left \ {k}
      BY <2>1, <2>7 DEF LeaveEngine, AfterLeaving, Ops
    <3>3. Calls' = 3 * c - 1 \/ Calls' = 3 * (c - 1) + 1
      BY <2>1, <3>1, <3>2 DEF Calls
    <3> HIDE DEF c
    <3> QED BY <2>1, <3>1, <3>3
  <2>8. ASSUME NEW k \in Objs, ReleaseDHT(k) PROVE Calls' < Calls
    <3>1. k \in op.left /\ op.at = "release" /\ Calls = 3 * c - 1
      BY <2>8 DEF ReleaseDHT, OpAt, Calls
    <3>2. op'.at = "leave" /\ op'.left = op.left \ {k}
      BY <2>1, <2>8 DEF ReleaseDHT, AfterLeaving, Ops
    <3>3. Calls' = 3 * (c - 1) + 1
      BY <2>1, <3>1, <3>2 DEF Calls
    <3> HIDE DEF c
    <3> QED BY <2>1, <3>1, <3>3
  <2>9. CASE TearDownNode
    <3>1. op.at = "leave" /\ op'.at = "idle"
      BY <2>9 DEF TearDownNode, OpAt, Idle
    <3>2. Calls = 3 * c + 1 /\ Calls' = 0
      BY <3>1 DEF Calls
    <3> HIDE DEF c
    <3> QED BY <2>1, <3>2
  <2>10. ~(\E t \in Tags : AddNetwork(t) \/ RemoveNetwork(t)) /\ ~Stop
    BY <2>1 DEF AddNetwork, RemoveNetwork, Stop, OpAt
  <2>11. ASSUME NEW k \in Objs, Loop(k) PROVE op' = op
    BY <2>11 DEF Loop, Start, Answer, CheckStop, Wait, opVars
  <2> QED BY <1>1, <2>2, <2>3, <2>4, <2>5, <2>6, <2>7, <2>8, <2>9, <2>10, <2>11
          DEF Next, Operation
<1>2. SessionInv /\ [Next]_vars => [op # Idle => op' = op \/ Calls' < Calls]_vars
  BY <1>1
<1> QED BY <1>2, SessionInductive, PTL DEF Spec
=============================================================================
