------------------------- MODULE SignalServerProofs -------------------------
(***************************************************************************)
(* Proofs about SignalServer for any networks, nodes and caps: the types   *)
(* with the caps, and that a network's part of the registry implements     *)
(* Presence.  Two facts carry the refinement.  In memory, a network        *)
(* without a record has an empty table, so the cap on networks turns away  *)
(* nobody whose registration counts (MemoryInv).  For the worker, what an  *)
(* object holds agrees with its storage on every registration that counts, *)
(* except the one it is storing (StorageInv), so an answer made from       *)
(* memory is the answer of the storage.  The last part is about the nodes  *)
(* of module Discovery, which rely on what Presence promises.              *)
(***************************************************************************)
EXTENDS SignalServer, FiniteSetTheorems, TLAPS

Tables == [Peers -> Ages \cup {Absent}]

SameLive(a, b) == a <= TTL \/ b <= TTL => a = b

MemoryInv ==
    ~durable => /\ asking = Nobody
                /\ \A t \in Tags \ nets : table[t] = Empty

StorageInv ==
    durable =>
        /\ hasLogs = {}
        /\ asking # Nobody => Watched \in nets /\ table[Watched][asking] = 0
        /\ Watched \in nets =>
               \A p \in Peers \ {asking} : SameLive(table[Watched][p], disk[Watched][p])

ServerInv == TypeOK /\ MemoryInv /\ StorageInv

(* Who counts in a table, and the ages that Presence sees of it. *)
Counting(tab) == {p \in Peers : tab[p] <= TTL}
Reg(tab) == [p \in Peers |-> IF tab[p] = Absent THEN TTL + 1 ELSE tab[p]]
Store == IF durable THEN disk[Watched] ELSE table[Watched]

-----------------------------------------------------------------------------
(* Tables *)

(* Ages are numbers up to one past the TTL, or Absent. *)
LEMMA Numbers ==
  /\ TTL \in Nat /\ Absent \notin Ages /\ 0 \in Ages
  /\ \A a \in Ages \cup {Absent} : a \in Nat /\ (a > TTL <=> a \in {TTL + 1, Absent})
  BY ServerAssumption DEF Ages, Absent

(* Nobody is known of, and nobody counts, in an empty table. *)
LEMMA EmptyTable ==
  /\ Empty \in Tables /\ Known(Empty) = {} /\ Reg(Empty) = [p \in Peers |-> TTL + 1]
  BY DEF Empty, Tables, Known, Reg

(* Purging drops registrations that no longer count, and nothing else. *)
LEMMA PurgedTable ==
  ASSUME NEW tab \in Tables
  PROVE  /\ Purged(tab) \in Tables /\ Reg(Purged(tab)) = Reg(tab)
         /\ Known(Purged(tab)) = Counting(tab) /\ Counting(tab) \subseteq Known(tab)
<1>1. Purged(tab) \in Tables
  BY DEF Purged, Tables
<1>2. \A p \in Peers : tab[p] \in Ages \cup {Absent}
  BY DEF Tables
<1>3. Reg(Purged(tab)) = Reg(tab)
  BY <1>2, Numbers DEF Purged, Reg
<1>4. Known(Purged(tab)) = Counting(tab) /\ Counting(tab) \subseteq Known(tab)
  BY <1>2, Numbers DEF Purged, Known, Counting
<1> QED BY <1>1, <1>3, <1>4

(* A registration makes one node count, and purges like the sweep. *)
LEMMA StoredTable ==
  ASSUME NEW tab \in Tables, NEW p \in Peers, NEW new, new = [tab EXCEPT ![p] = 0]
  PROVE  /\ new \in Tables /\ Purged(new) \in Tables
         /\ Reg(Purged(new)) = [Reg(tab) EXCEPT ![p] = 0]
         /\ Reg(new) = [Reg(tab) EXCEPT ![p] = 0]
         /\ Counting(new) = Counting(tab) \cup {p}
         /\ Known(Purged(new)) = Counting(tab) \cup {p}
<1>1. /\ new \in Tables /\ new[p] = 0
      /\ \A q \in Peers : q # p => new[q] = tab[q]
  BY Numbers DEF Tables
<1>2. Reg(new) = [Reg(tab) EXCEPT ![p] = 0]
  BY <1>1, Numbers DEF Reg
<1>3. Counting(new) = Counting(tab) \cup {p}
  BY <1>1, Numbers DEF Counting
<1> QED BY <1>1, <1>2, <1>3, PurgedTable

(* Time passes for everybody a table knows of. *)
LEMMA OlderTable ==
  ASSUME NEW tab \in Tables, NEW new, new = [p \in Peers |-> Older(tab[p])]
  PROVE  /\ new \in Tables /\ Known(new) = Known(tab)
         /\ Reg(new) = [p \in Peers |-> Older(Reg(tab)[p])]
<1>1. \A p \in Peers : tab[p] \in Ages \cup {Absent}
  BY DEF Tables
<1>2. \A a \in Ages \cup {Absent} :
          /\ Older(a) \in Ages \cup {Absent} /\ (Older(a) = Absent <=> a = Absent)
          /\ Older(TTL + 1) = TTL + 1
  BY ServerAssumption DEF Older, Ages, Absent
<1>3. Reg(new) = [p \in Peers |-> Older(Reg(tab)[p])]
  BY <1>1, <1>2 DEF Reg
<1> QED BY <1>1, <1>2, <1>3 DEF Tables, Known

(* The size of what a table knows. *)
LEMMA TableSize ==
  ASSUME NEW tab \in Tables, NEW few, few \subseteq Known(tab)
  PROVE  /\ IsFiniteSet(Known(tab)) /\ Cardinality(Known(tab)) \in Nat
         /\ Cardinality(few) \in Nat /\ Cardinality(few) <= Cardinality(Known(tab))
<1>1. IsFiniteSet(Known(tab))
  BY ServerAssumption, FS_Subset DEF Known
<1> QED BY <1>1, FS_Subset, FS_CardinalityType

(* There are finitely many networks. *)
LEMMA NetsFinite ==
  ASSUME NEW some \in SUBSET Tags
  PROVE  IsFiniteSet(some) /\ Cardinality(some) \in Nat
  BY ServerAssumption, FS_Subset, FS_CardinalityType

(* The network that is followed is one of them. *)
LEMMA WatchedTag == Watched \in Tags
  BY ServerAssumption DEF Watched

(* Answers go to one node in the network that is followed, or nowhere. *)
LEMMA AnswerType ==
  ASSUME TypeOK, NEW t \in Tags, NEW p \in Peers, NEW others \in SUBSET Peers,
         Answer(t, p, others)
  PROVE  /\ told' \in [Peers -> Inboxes]
         /\ told' \in {told, [told EXCEPT ![p] = {others}]}
         /\ t # Watched => told' = told
<1>1. {others} \in Inboxes
  BY DEF Inboxes
<1> QED BY <1>1 DEF Answer, TypeOK

-----------------------------------------------------------------------------
(* The programs that keep all in memory *)

(* One node more than it knew, and only below the cap. *)
LEMMA RegisterKeeps ==
  ASSUME ServerInv, NEW t \in Tags, NEW p \in Peers, Register(t, p)
  PROVE  ServerInv'
<1>1. ~durable /\ UNCHANGED <<durable, hasLogs, disk, asking>> /\ table[t] \in Tables
  BY DEF Register, ServerInv, TypeOK, Tables
<1>2. CASE Full(t) \/ Crowded(t, p)
  <2>1. UNCHANGED <<nets, table>> /\ Answer(t, p, {})
    BY <1>2 DEF Register
  <2>2. told' \in [Peers -> Inboxes]
    BY <2>1, AnswerType DEF ServerInv
  <2> QED BY <1>1, <2>1, <2>2 DEF ServerInv, TypeOK, MemoryInv, StorageInv
<1>3. CASE ~(Full(t) \/ Crowded(t, p))
  <2> DEFINE known == Purged([table[t] EXCEPT ![p] = 0])
  <2>1. /\ nets' = nets \cup {t} /\ table' = [table EXCEPT ![t] = known]
        /\ Answer(t, p, Known(known) \ {p})
    BY <1>3 DEF Register
  <2>2. known \in Tables /\ Known(known) = Counting(table[t]) \cup {p}
    BY <1>1, StoredTable
  <2>3. Cardinality(Known(known)) <= MaxPeersPerNet
    <3>1. Counting(table[t]) \subseteq Known(table[t])
      BY <1>1, PurgedTable
    <3>2. CASE p \in Known(table[t])
      <4>1. Known(known) \subseteq Known(table[t])
        BY <2>2, <3>1, <3>2
      <4>2. Cardinality(Known(known)) <= Cardinality(Known(table[t]))
        BY <1>1, <4>1, TableSize
      <4> QED BY <1>1, <2>2, <4>2, TableSize, ServerAssumption DEF ServerInv, TypeOK
    <3>3. CASE p \notin Known(table[t])
      <4>1. Cardinality(Known(table[t])) < MaxPeersPerNet
        BY <1>1, <1>3, <3>3, TableSize, ServerAssumption DEF Crowded
      <4>2. /\ IsFiniteSet(Known(table[t])) /\ Cardinality(Known(table[t])) \in Nat
            /\ IsFiniteSet(Counting(table[t])) /\ Cardinality(Counting(table[t])) \in Nat
            /\ Cardinality(Counting(table[t])) <= Cardinality(Known(table[t]))
        BY <1>1, <3>1, TableSize, FS_Subset
      <4>3. Cardinality(Counting(table[t]) \cup {p}) = Cardinality(Counting(table[t])) + 1
        BY <3>1, <3>3, <4>2, FS_AddElement
      <4> QED BY <2>2, <4>1, <4>2, <4>3, ServerAssumption
    <3> QED BY <3>2, <3>3
  <2>4. Cardinality(nets') <= MaxNets
    <3>1. CASE t \in nets
      <4>1. nets' = nets
        BY <2>1, <3>1
      <4> QED BY <1>1, <4>1 DEF ServerInv, TypeOK
    <3>2. CASE t \notin nets
      <4>1. IsFiniteSet(nets) /\ Cardinality(nets) \in Nat /\ ~(Cardinality(nets) >= MaxNets)
        BY <1>3, <3>2, NetsFinite DEF Full, ServerInv, TypeOK
      <4>2. Cardinality(nets') = Cardinality(nets) + 1
        BY <2>1, <3>2, <4>1, FS_AddElement
      <4> QED BY <4>1, <4>2, ServerAssumption
    <3> QED BY <3>1, <3>2
  <2>5. Known(known) \ {p} \in SUBSET Peers
    BY DEF Known
  <2>6. told' \in [Peers -> Inboxes]
    BY <2>1, <2>5, AnswerType DEF ServerInv
  <2>7. /\ table' \in [Tags -> Tables] /\ table'[t] = known
        /\ \A u \in Tags : u # t => table'[u] = table[u]
    BY <2>1, <2>2 DEF ServerInv, TypeOK, Tables
  <2>8. \A u \in Tags : Cardinality(Known(table'[u])) <= MaxPeersPerNet
    BY <1>1, <2>3, <2>7 DEF ServerInv, TypeOK
  <2>9. TypeOK'
    BY <1>1, <2>1, <2>4, <2>6, <2>7, <2>8 DEF ServerInv, TypeOK, Tables
  <2>10. MemoryInv'
    BY <1>1, <2>1, <2>7 DEF ServerInv, MemoryInv
  <2> QED BY <1>1, <2>9, <2>10 DEF ServerInv, StorageInv
<1> QED BY <1>2, <1>3

(* Log tables keep a network in the registry, and give it nobody. *)
LEMMA LogsKeep ==
  ASSUME ServerInv, NEW t \in Tags, AddLog(t) \/ DumpLogs(t)
  PROVE  ServerInv'
<1>1. ~durable /\ UNCHANGED <<durable, table, disk, asking, told>>
  BY DEF AddLog, DumpLogs
<1>2. CASE AddLog(t)
  <2>1. nets' = nets \cup {t} /\ hasLogs' = hasLogs \cup {t} /\ ~Full(t)
    BY <1>2 DEF AddLog
  <2>2. Cardinality(nets') <= MaxNets
    <3>1. CASE t \in nets
      <4>1. nets' = nets
        BY <2>1, <3>1
      <4> QED BY <1>1, <4>1 DEF ServerInv, TypeOK
    <3>2. CASE t \notin nets
      <4>1. IsFiniteSet(nets) /\ Cardinality(nets) \in Nat /\ ~(Cardinality(nets) >= MaxNets)
        BY <2>1, <3>2, NetsFinite DEF Full, ServerInv, TypeOK
      <4>2. Cardinality(nets') = Cardinality(nets) + 1
        BY <2>1, <3>2, <4>1, FS_AddElement
      <4> QED BY <4>1, <4>2, ServerAssumption
    <3> QED BY <3>1, <3>2
  <2> QED BY <1>1, <2>1, <2>2 DEF ServerInv, TypeOK, MemoryInv, StorageInv
<1>3. CASE DumpLogs(t)
  BY <1>1, <1>3 DEF DumpLogs, ServerInv, TypeOK, MemoryInv, StorageInv
<1> QED BY <1>2, <1>3

(* A network whose record goes has nobody left in its table. *)
LEMMA SweepKeeps ==
  ASSUME ServerInv, Sweep
  PROVE  ServerInv'
<1>1. /\ ~durable /\ UNCHANGED <<durable, disk, asking, told>>
      /\ table' = [t \in Tags |-> Purged(table[t])] /\ hasLogs' \in SUBSET hasLogs
      /\ nets' = {t \in nets : Known(table'[t]) # {} \/ t \in hasLogs'}
  BY DEF Sweep
<1>2. /\ table' \in [Tags -> Tables]
      /\ \A t \in Tags : /\ Known(table'[t]) \subseteq Known(table[t])
                         /\ table'[t] = Purged(table[t]) /\ table[t] \in Tables
  BY <1>1, PurgedTable DEF ServerInv, TypeOK, Tables
<1>3. \A t \in Tags : Cardinality(Known(table'[t])) <= MaxPeersPerNet
  <2> SUFFICES ASSUME NEW t \in Tags PROVE Cardinality(Known(table'[t])) <= MaxPeersPerNet
    OBVIOUS
  <2>1. Cardinality(Known(table[t])) <= MaxPeersPerNet
    BY <1>1 DEF ServerInv, TypeOK
  <2>2. /\ Cardinality(Known(table[t])) \in Nat /\ Cardinality(Known(table'[t])) \in Nat
        /\ Cardinality(Known(table'[t])) <= Cardinality(Known(table[t]))
    BY <1>2, TableSize
  <2> QED BY <2>1, <2>2, ServerAssumption
<1>4. Cardinality(nets') <= MaxNets
  <2>1. nets' \subseteq nets /\ IsFiniteSet(nets) /\ Cardinality(nets) \in Nat
    BY <1>1, NetsFinite DEF ServerInv, TypeOK
  <2>2. Cardinality(nets') <= Cardinality(nets) /\ Cardinality(nets') \in Nat
    BY <2>1, FS_Subset, FS_CardinalityType
  <2> QED BY <1>1, <2>1, <2>2, ServerAssumption DEF ServerInv, TypeOK
<1>5. hasLogs' \subseteq nets'
  BY <1>1 DEF ServerInv, TypeOK
<1>6. TypeOK'
  BY <1>1, <1>2, <1>3, <1>4, <1>5 DEF ServerInv, TypeOK, Tables
<1>7. MemoryInv'
  <2> SUFFICES ASSUME NEW t \in Tags \ nets' PROVE table'[t] = Empty
    BY <1>1 DEF MemoryInv, ServerInv
  <2>1. CASE t \in nets
    <3>1. Known(table'[t]) = {} /\ table'[t] \in Tables
      BY <1>1, <1>2, <2>1
    <3> QED BY <3>1 DEF Known, Empty, Tables
  <2>2. CASE t \notin nets
    <3>1. table[t] = Empty
      BY <1>1, <2>2 DEF ServerInv, MemoryInv
    <3> QED BY <1>2, <3>1, Numbers DEF Purged, Empty
  <2> QED BY <2>1, <2>2
<1> QED BY <1>1, <1>6, <1>7 DEF ServerInv, StorageInv

(* A restart forgets everything. *)
LEMMA RestartKeeps ==
  ASSUME ServerInv, Restart
  PROVE  ServerInv'
<1>1. /\ ~durable /\ UNCHANGED <<durable, disk, asking, told>>
      /\ nets' = {} /\ hasLogs' = {} /\ table' = [t \in Tags |-> Empty]
  BY DEF Restart
<1>2. Cardinality({}) = 0 /\ 0 <= MaxNets /\ 0 <= MaxPeersPerNet
  BY FS_EmptySet, ServerAssumption
<1>3. \A t \in Tags : table'[t] = Empty
  BY <1>1
<1>4. TypeOK'
  BY <1>1, <1>2, <1>3, EmptyTable DEF ServerInv, TypeOK, Tables
<1> QED BY <1>1, <1>3, <1>4 DEF ServerInv, MemoryInv, StorageInv

-----------------------------------------------------------------------------
(* The worker *)

(* What the worker holds and stores are tables. *)
LEMMA WorkerTypes ==
  ASSUME ServerInv, NEW t \in Tags
  PROVE  table[t] \in Tables /\ disk[t] \in Tables
  BY DEF ServerInv, TypeOK, Tables

(* An object that wakes reads its table from storage. *)
LEMMA WakeKeeps ==
  ASSUME ServerInv, Wake(Watched)
  PROVE  ServerInv'
<1>1. /\ durable /\ Watched \notin nets /\ nets' = nets \cup {Watched}
      /\ table' = [table EXCEPT ![Watched] = disk[Watched]]
      /\ UNCHANGED <<durable, hasLogs, disk, asking, told>>
  BY DEF Wake
<1>2. asking = Nobody
  BY <1>1 DEF ServerInv, StorageInv
<1>3. TypeOK'
  BY <1>1, WatchedTag, WorkerTypes DEF ServerInv, TypeOK, Tables
<1>4. table'[Watched] = disk'[Watched]
  BY <1>1, WatchedTag DEF ServerInv, TypeOK
<1>5. StorageInv'
  BY <1>1, <1>2, <1>4 DEF ServerInv, StorageInv, SameLive
<1> QED BY <1>1, <1>3, <1>5 DEF ServerInv, MemoryInv

(* The worker takes a request; nothing is registered yet. *)
LEMMA WorkerTakesKeeps ==
  ASSUME ServerInv, NEW p \in Peers, WorkerTakes(Watched, p)
  PROVE  ServerInv'
<1>1. /\ durable /\ Watched \in nets /\ asking = Nobody /\ asking' = p
      /\ table' = [table EXCEPT ![Watched][p] = 0]
      /\ UNCHANGED <<durable, nets, hasLogs, disk, told>>
  BY DEF WorkerTakes
<1>2. /\ table' \in [Tags -> Tables] /\ table'[Watched][p] = 0
      /\ \A q \in Peers \ {p} : table'[Watched][q] = table[Watched][q]
  BY <1>1, WatchedTag, Numbers DEF ServerInv, TypeOK, Tables
<1>3. TypeOK'
  BY <1>1, <1>2 DEF ServerInv, TypeOK, Tables
<1>4. StorageInv'
  BY <1>1, <1>2, ServerAssumption DEF ServerInv, StorageInv
<1> QED BY <1>1, <1>3, <1>4 DEF ServerInv, MemoryInv

(* What was stored is what was answered from. *)
LEMMA WorkerAnswersKeeps ==
  ASSUME ServerInv, WorkerAnswers(Watched)
  PROVE  /\ ServerInv'
         /\ asking \in Peers /\ durable
         /\ Reg(disk'[Watched]) = [Reg(disk[Watched]) EXCEPT ![asking] = 0]
         /\ told' \in {told, [told EXCEPT ![asking] = {Counting(disk[Watched]) \ {asking}}]}
<1> DEFINE W == Watched
           known == Purged(table[W])
           stored == Purged([disk[W] EXCEPT ![asking] = 0])
<1>1. /\ durable /\ asking # Nobody /\ asking' = Nobody
      /\ table' = [table EXCEPT ![W] = known]
      /\ disk' = [disk EXCEPT ![W] = stored]
      /\ Answer(W, asking, Known(known) \ {asking})
      /\ UNCHANGED <<durable, nets, hasLogs>>
  BY DEF WorkerAnswers
<1>2. /\ asking \in Peers /\ W \in nets /\ table[W][asking] = 0
      /\ \A p \in Peers \ {asking} : SameLive(table[W][p], disk[W][p])
  BY <1>1 DEF ServerInv, TypeOK, StorageInv
<1>3. table[W] \in Tables /\ disk[W] \in Tables /\ W \in Tags
  BY WatchedTag, WorkerTypes
<1>4. /\ known \in Tables /\ Known(known) = Counting(table[W])
      /\ stored \in Tables /\ Reg(stored) = [Reg(disk[W]) EXCEPT ![asking] = 0]
  BY <1>2, <1>3, PurgedTable, StoredTable
<1>5. Counting(table[W]) \ {asking} = Counting(disk[W]) \ {asking}
  BY <1>2 DEF Counting, SameLive
<1>6. /\ told' \in [Peers -> Inboxes]
      /\ told' \in {told, [told EXCEPT ![asking] = {Counting(disk[W]) \ {asking}}]}
  <2>1. Counting(table[W]) \ {asking} \in SUBSET Peers
    BY DEF Counting
  <2> QED BY <1>1, <1>2, <1>3, <1>4, <1>5, <2>1, AnswerType DEF ServerInv
<1>7. /\ table' \in [Tags -> Tables] /\ disk' \in [Tags -> Tables]
      /\ table'[W] = known /\ disk'[W] = stored
  BY <1>1, <1>3, <1>4 DEF ServerInv, TypeOK, Tables
<1>8. TypeOK'
  BY <1>1, <1>6, <1>7 DEF ServerInv, TypeOK, Tables
<1>9. \A p \in Peers : SameLive(known[p], stored[p])
  <2> SUFFICES ASSUME NEW p \in Peers PROVE SameLive(known[p], stored[p])
    OBVIOUS
  <2>1. table[W][p] \in Ages \cup {Absent} /\ disk[W][p] \in Ages \cup {Absent}
    BY <1>3 DEF Tables
  <2>2. known[p] = IF table[W][p] > TTL THEN Absent ELSE table[W][p]
    BY DEF Purged
  <2>3. CASE p = asking
    <3>1. stored[p] = 0 /\ known[p] = 0
      BY <1>2, <1>3, <2>2, <2>3, Numbers DEF Purged, Tables
    <3> QED BY <3>1 DEF SameLive
  <2>4. CASE p # asking
    <3>1. stored[p] = IF disk[W][p] > TTL THEN Absent ELSE disk[W][p]
      BY <1>3, <2>4 DEF Purged, Tables
    <3> QED BY <1>2, <2>1, <2>2, <2>4, <3>1, Numbers DEF SameLive
  <2> QED BY <2>3, <2>4
<1>10. StorageInv'
  BY <1>1, <1>7, <1>9 DEF ServerInv, StorageInv
<1> QED BY <1>1, <1>2, <1>4, <1>6, <1>7, <1>8, <1>10 DEF ServerInv, MemoryInv

(* What the object forgets is in its storage. *)
LEMMA EvictKeeps ==
  ASSUME ServerInv, Evict(Watched)
  PROVE  /\ ServerInv' /\ durable /\ told' = told
         /\ \/ disk' = disk
            \/ \E p \in Peers : Reg(disk'[Watched]) = [Reg(disk[Watched]) EXCEPT ![p] = 0]
<1>1. /\ durable /\ nets' = nets \ {Watched} /\ asking' = Nobody
      /\ table' = [table EXCEPT ![Watched] = Empty]
      /\ \/ disk' = disk
         \/ asking # Nobody /\ disk' = [disk EXCEPT ![Watched][asking] = 0]
      /\ UNCHANGED <<durable, hasLogs, told>>
  BY DEF Evict
<1>2. hasLogs = {} /\ hasLogs' = {}
  BY <1>1 DEF ServerInv, StorageInv
<1>3. table[Watched] \in Tables /\ disk[Watched] \in Tables /\ Watched \in Tags
  BY WatchedTag, WorkerTypes
<1>4. CASE disk' = disk
  <2>1. TypeOK'
    BY <1>1, <1>2, <1>4, EmptyTable DEF ServerInv, TypeOK, Tables
  <2> QED BY <1>1, <1>2, <1>4, <2>1 DEF ServerInv, MemoryInv, StorageInv
<1>5. CASE asking # Nobody /\ disk' = [disk EXCEPT ![Watched][asking] = 0]
  <2> DEFINE stored == [disk[Watched] EXCEPT ![asking] = 0]
  <2>1. asking \in Peers
    BY <1>5 DEF ServerInv, TypeOK
  <2>2. stored \in Tables /\ Reg(stored) = [Reg(disk[Watched]) EXCEPT ![asking] = 0]
    BY <1>3, <2>1, StoredTable
  <2>3. disk' \in [Tags -> Tables] /\ disk'[Watched] = stored
    BY <1>3, <1>5, <2>2 DEF ServerInv, TypeOK, Tables
  <2>4. TypeOK'
    BY <1>1, <1>2, <2>3, EmptyTable DEF ServerInv, TypeOK, Tables
  <2> QED BY <1>1, <1>2, <2>1, <2>2, <2>3, <2>4 DEF ServerInv, MemoryInv, StorageInv
<1> QED BY <1>1, <1>4, <1>5

(* Time passes in memory and in storage alike. *)
LEMMA TickKeeps ==
  ASSUME ServerInv, Tick
  PROVE  ServerInv'
<1>1. /\ asking = Nobody /\ UNCHANGED <<durable, nets, hasLogs, asking, told>>
      /\ table' = [t \in Tags |-> [p \in Peers |-> Older(table[t][p])]]
      /\ disk' = [t \in Tags |-> [p \in Peers |-> Older(disk[t][p])]]
  BY DEF Tick
<1>2. ASSUME NEW t \in Tags
      PROVE  /\ table'[t] = [p \in Peers |-> Older(table[t][p])] /\ table[t] \in Tables
             /\ disk'[t] = [p \in Peers |-> Older(disk[t][p])] /\ disk[t] \in Tables
  BY <1>1, WorkerTypes
<1>3. ASSUME NEW t \in Tags
      PROVE  table'[t] \in Tables /\ disk'[t] \in Tables /\ Known(table'[t]) = Known(table[t])
  BY <1>2, OlderTable
<1>4. TypeOK'
  <2>1. table' \in [Tags -> Tables] /\ disk' \in [Tags -> Tables]
    BY <1>1, <1>3
  <2> QED BY <1>1, <1>3, <2>1 DEF ServerInv, TypeOK, Tables
<1>5. MemoryInv'
  <2> SUFFICES ASSUME ~durable, NEW t \in Tags \ nets PROVE table'[t] = Empty
    BY <1>1 DEF MemoryInv
  <2>1. table[t] = Empty
    BY DEF ServerInv, MemoryInv
  <2>2. \A p \in Peers : table[t][p] = Absent /\ Older(Absent) = Absent
    BY <2>1, ServerAssumption DEF Empty, Older, Absent
  <2>3. table'[t] = [p \in Peers |-> Older(table[t][p])]
    BY <1>2
  <2> QED BY <2>2, <2>3 DEF Empty
<1>6. StorageInv'
  <2> SUFFICES ASSUME durable, Watched \in nets, NEW p \in Peers
               PROVE  SameLive(table'[Watched][p], disk'[Watched][p])
    BY <1>1 DEF StorageInv, ServerInv
  <2>1. SameLive(table[Watched][p], disk[Watched][p])
    BY <1>1, ServerAssumption DEF ServerInv, StorageInv
  <2>2. /\ table'[Watched][p] = Older(table[Watched][p]) /\ table[Watched][p] \in Ages \cup {Absent}
        /\ disk'[Watched][p] = Older(disk[Watched][p]) /\ disk[Watched][p] \in Ages \cup {Absent}
    BY <1>2, WatchedTag DEF Tables
  <2> QED BY <2>1, <2>2, Numbers DEF SameLive, Older
<1> QED BY <1>4, <1>5, <1>6 DEF ServerInv

-----------------------------------------------------------------------------
(* The invariant holds in every reachable state. *)
LEMMA ServerInductive == Spec => []ServerInv
<1>1. Init => ServerInv
  <2> SUFFICES ASSUME Init PROVE ServerInv
    OBVIOUS
  <2>1. Cardinality({}) = 0 /\ 0 <= MaxNets /\ 0 <= MaxPeersPerNet
    BY FS_EmptySet, ServerAssumption
  <2>2. {} \in Inboxes
    BY DEF Inboxes
  <2>3. TypeOK
    BY <2>1, <2>2, EmptyTable DEF Init, TypeOK, Tables
  <2> QED BY <2>3 DEF Init, ServerInv, MemoryInv, StorageInv
<1>2. ServerInv /\ [Next]_vars => ServerInv'
  <2> SUFFICES ASSUME ServerInv, [Next]_vars PROVE ServerInv'
    OBVIOUS
  <2>1. CASE UNCHANGED vars
    BY <2>1 DEF vars, ServerInv, TypeOK, MemoryInv, StorageInv
  <2>2. CASE Worker(Watched)
    BY <2>2, WakeKeeps, WorkerTakesKeeps, WorkerAnswersKeeps, EvictKeeps DEF Worker
  <2> QED BY <2>1, <2>2, RegisterKeeps, LogsKeep, SweepKeeps, RestartKeeps, TickKeeps DEF Next
<1> QED BY <1>1, <1>2, PTL DEF Spec

(* Types, and the caps: the registry never holds more networks, nor a        *)
(* network more nodes, than it should.                                       *)
THEOREM CapsHold == Spec => []TypeOK
<1>1. ServerInv => TypeOK
  BY DEF ServerInv
<1> QED BY <1>1, ServerInductive, PTL

-----------------------------------------------------------------------------
(* The refinement of Presence, step by step *)

(* The refinement mapping in terms of the table that counts. *)
LEMMA SeenIsStore ==
  /\ Seen = Reg(Store) /\ Seen' = Reg(Store')
  /\ Promise!Live = {p \in Peers : Seen[p] <= TTL}
  BY DEF Seen, Reg, Store, Promise!Live

(* Those the promise counts are those the table counts. *)
LEMMA LiveIsCounting ==
  ASSUME ServerInv
  PROVE  Promise!Live = Counting(Store) /\ Store \in Tables
<1>1. Store \in Tables
  BY WatchedTag, WorkerTypes DEF Store
<1> QED BY <1>1, SeenIsStore, Numbers DEF Counting, Reg, Tables

(* A step that nobody outside can see. *)
LEMMA Stutters ==
  ASSUME UNCHANGED <<durable, told>>, Reg(Store') = Reg(Store)
  PROVE  UNCHANGED Promise!presenceVars
  BY SeenIsStore DEF Promise!presenceVars

(* A node is told of everybody who counts, and counts itself. *)
LEMMA RegisterMaps ==
  ASSUME ServerInv, NEW t \in Tags, NEW p \in Peers, Register(t, p)
  PROVE  Promise!Next \/ UNCHANGED Promise!presenceVars
<1>1. ~durable /\ UNCHANGED durable /\ table[t] \in Tables /\ Store = table[Watched]
      /\ Store' = table'[Watched]
  BY WorkerTypes DEF Register, Store
<1>2. CASE Full(t) \/ Crowded(t, p)
  <2>1. UNCHANGED <<nets, table>> /\ Answer(t, p, {})
    BY <1>2 DEF Register
  <2>2. told' \in {told, [told EXCEPT ![p] = {{}}]} /\ (t # Watched => told' = told)
    BY <2>1, AnswerType DEF ServerInv
  <2>3. CASE t # Watched
    BY <1>1, <2>1, <2>2, <2>3, Stutters
  <2>4. CASE t = Watched
    <3>1. p \notin Known(table[t])
      BY <1>1, <1>2, EmptyTable DEF Full, Crowded, ServerInv, MemoryInv
    <3>2. p \notin Counting(Store)
      BY <1>1, <2>4, <3>1, PurgedTable
    <3>3. Promise!Refuse(p)
      BY <1>1, <2>1, <2>2, <3>2, LiveIsCounting, SeenIsStore DEF Promise!Refuse, Promise!Tell
    <3> QED BY <3>3 DEF Promise!Next
  <2> QED BY <2>3, <2>4
<1>3. CASE ~(Full(t) \/ Crowded(t, p))
  <2> DEFINE known == Purged([table[t] EXCEPT ![p] = 0])
  <2>1. /\ table' = [table EXCEPT ![t] = known]
        /\ Answer(t, p, Known(known) \ {p})
    BY <1>3 DEF Register
  <2>2. /\ Known(known) \ {p} = Counting(table[t]) \ {p}
        /\ Reg(known) = [Reg(table[t]) EXCEPT ![p] = 0]
    BY <1>1, StoredTable
  <2>3. /\ told' \in {told, [told EXCEPT ![p] = {Counting(table[t]) \ {p}}]}
        /\ t # Watched => told' = told
    <3>1. Counting(table[t]) \ {p} \in SUBSET Peers
      BY DEF Counting
    <3> QED BY <2>1, <2>2, <3>1, AnswerType DEF ServerInv
  <2>4. table'[t] = known /\ (t # Watched => table'[Watched] = table[Watched])
    BY <2>1, WatchedTag DEF ServerInv, TypeOK
  <2>5. CASE t # Watched
    BY <1>1, <2>3, <2>4, <2>5, Stutters
  <2>6. CASE t = Watched
    <3>1. Promise!Accept(p)
      BY <1>1, <2>2, <2>3, <2>4, <2>6, LiveIsCounting, SeenIsStore
         DEF Promise!Accept, Promise!Tell
    <3> QED BY <3>1 DEF Promise!Next
  <2> QED BY <2>5, <2>6
<1> QED BY <1>2, <1>3

(* The sweep takes away only what no longer counts; a restart all. *)
LEMMA SweepMaps ==
  ASSUME ServerInv, Sweep
  PROVE  UNCHANGED Promise!presenceVars
<1>1. /\ ~durable /\ UNCHANGED <<durable, told>>
      /\ table'[Watched] = Purged(table[Watched]) /\ table[Watched] \in Tables
  BY WatchedTag, WorkerTypes DEF Sweep
<1> QED BY <1>1, PurgedTable, Stutters DEF Store

(* A restart is the promise's own. *)
LEMMA RestartMaps ==
  ASSUME ServerInv, Restart
  PROVE  Promise!Next
<1>1. ~durable /\ UNCHANGED <<durable, told>> /\ table'[Watched] = Empty
  BY WatchedTag DEF Restart
<1>2. Seen' = [p \in Peers |-> TTL + 1]
  BY <1>1, EmptyTable, SeenIsStore DEF Store
<1> QED BY <1>1, <1>2 DEF Promise!Next, Promise!Forget, Promise!Over

(* The worker's answer is the registration; its other steps are unseen. *)
LEMMA WorkerMaps ==
  ASSUME ServerInv, Worker(Watched)
  PROVE  Promise!Next \/ UNCHANGED Promise!presenceVars
<1>1. CASE Wake(Watched)
  BY <1>1, Stutters DEF Wake, Store
<1>2. CASE \E p \in Peers : WorkerTakes(Watched, p)
  BY <1>2, Stutters DEF WorkerTakes, Store
<1>3. CASE WorkerAnswers(Watched)
  <2>1. /\ durable /\ durable' = durable /\ asking \in Peers
        /\ Reg(Store') = [Reg(Store) EXCEPT ![asking] = 0]
        /\ told' \in {told, [told EXCEPT ![asking] = {Counting(Store) \ {asking}}]}
    BY <1>3, WorkerAnswersKeeps DEF Store, WorkerAnswers
  <2>2. Promise!Accept(asking)
    BY <2>1, LiveIsCounting, SeenIsStore DEF Promise!Accept, Promise!Tell
  <2> QED BY <2>1, <2>2 DEF Promise!Next
<1>4. CASE Evict(Watched)
  <2>1. durable /\ durable' = durable /\ told' = told
    BY <1>4 DEF Evict
  <2>2. CASE disk' = disk
    BY <2>1, <2>2, Stutters DEF Store
  <2>3. CASE disk' # disk
    <3>1. PICK p \in Peers : Reg(Store') = [Reg(Store) EXCEPT ![p] = 0]
      BY <1>4, <2>1, <2>3, EvictKeeps DEF Store
    <3>2. Promise!Accept(p)
      BY <2>1, <3>1, SeenIsStore DEF Promise!Accept, Promise!Tell
    <3> QED BY <3>2 DEF Promise!Next
  <2> QED BY <2>2, <2>3
<1> QED BY <1>1, <1>2, <1>3, <1>4 DEF Worker

(* Time passes for the promise as for the table. *)
LEMMA TickMaps ==
  ASSUME ServerInv, Tick
  PROVE  Promise!Next
<1>1. /\ UNCHANGED <<durable, told>> /\ Store \in Tables
      /\ Store' = [p \in Peers |-> Older(Store[p])]
  BY WatchedTag, WorkerTypes DEF Tick, Store
<1>2. Seen' = [p \in Peers |-> Older(Seen[p])]
  BY <1>1, OlderTable, SeenIsStore
<1> QED BY <1>1, <1>2 DEF Promise!Next, Promise!Tick, Promise!Older, Older

(* A network's part of the registry keeps what Presence promises: whoever    *)
(* registers is told who else counts, nobody who counts is turned away, and  *)
(* what the worker has answered outlives its object.                         *)
THEOREM ServerKeepsPresence == Spec => KeepsPresence
<1>1. Init => Promise!Init
  <2> SUFFICES ASSUME Init PROVE Promise!Init
    OBVIOUS
  <2>1. Store = Empty
    BY WatchedTag DEF Init, Store
  <2>2. Seen = [p \in Peers |-> TTL + 1]
    BY <2>1, EmptyTable, SeenIsStore
  <2> QED BY <2>2 DEF Init, Promise!Init, Promise!Over
<1>2. ServerInv /\ [Next]_vars => [Promise!Next]_(Promise!presenceVars)
  <2> SUFFICES ASSUME ServerInv, [Next]_vars
               PROVE  Promise!Next \/ UNCHANGED Promise!presenceVars
    OBVIOUS
  <2>1. CASE UNCHANGED vars
    BY <2>1, Stutters DEF vars, Store
  <2>2. CASE \E t \in Tags : AddLog(t) \/ DumpLogs(t)
    BY <2>2, Stutters DEF AddLog, DumpLogs, Store
  <2> QED BY <2>1, <2>2, RegisterMaps, SweepMaps, RestartMaps, WorkerMaps, TickMaps DEF Next
<1> QED BY <1>1, <1>2, ServerInductive, PTL DEF Spec, KeepsPresence, Promise!Spec

-----------------------------------------------------------------------------
(***************************************************************************)
(* What nodes make of the promise is module Discovery.  The proof is about *)
(* time: Rest(n) is how long at most n is still without a registration, if *)
(* all the rounds that may fail it do fail.  From the moment a peer is     *)
(* missing from a node's list, a new fault cannot begin, so the time since *)
(* then and Rest together do not grow until the peer is listed again.      *)
(***************************************************************************)
CONSTANTS Slow, Round, PeerForget, MaxMissed
VARIABLES age, at, clock, missed, known, absent

Nodes == INSTANCE Discovery

(* The longest time from one round to the next, and from the first round of  *)
(* a fault that fails to the one that does not.                              *)
Turn == Slow + Round
Chain == IF MaxMissed = 0 THEN Turn ELSE MaxMissed * Turn

(* A registration counts until the next one, and a peer is given more time   *)
(* than a fault takes and a round that began in it.                          *)
Patience ==
    /\ {Slow, Round, PeerForget, MaxMissed} \subseteq Nat
    /\ Turn <= TTL
    /\ Chain + Round < PeerForget

FailedFor(k) == (MaxMissed - k) * Turn

Pause(n) ==
    IF at[n] = "pausing" THEN Slow - clock[n]
    ELSE IF at[n] = "asking" THEN 0 ELSE Slow + Round - clock[n]
Rest(n) == Pause(n) + (IF missed[n] = 0 THEN 0 ELSE FailedFor(missed[n]))

Registered(n) == age[n] <= TTL /\ missed[n] = 0

OnTime(n) ==
    /\ clock[n] <= (IF at[n] = "pausing" THEN Slow ELSE IF at[n] = "asking" THEN 0 ELSE Round)
    /\ at[n] = "asking" => told[n] = {}
    /\ Registered(n) => age[n] + Rest(n) <= TTL

PaceInv == \A n \in Peers : OnTime(n)

(* n misses m, which counts or will within what is left of the fault; if n   *)
(* itself fails, within what is left of that; and if its answer is there,    *)
(* m is in it or has not been missing for long.                              *)
Missing(n, m) == absent[n][m] # Nodes!None

Bears(n, m) ==
    /\ m \in known[n] /\ m # n
    /\ Registered(m) \/ absent[n][m] + Rest(m) <= Chain
    /\ missed[n] > 0 => absent[n][m] + Rest(n) <= Chain
    /\ at[n] = "served" /\ missed[n] = 0 =>
           /\ told[n] # {}
           /\ \/ \A list \in told[n] : m \in list
              \/ absent[n][m] <= Chain + clock[n]

AbsenceInv == \A n, m \in Peers : Missing(n, m) => Bears(n, m)

Soon ==
    \A n \in Peers :
        /\ Rest(n) \in Nat /\ Rest(n) <= Chain
        /\ missed[n] = 0 => Rest(n) <= Turn

Paced == Nodes!TypeOK /\ PaceInv /\ Soon

(* Arithmetic of failing rounds.                                             *)
LEMMA Rounds ==
  ASSUME Patience
  PROVE  /\ Slow \in Nat /\ Round \in Nat /\ PeerForget \in Nat /\ MaxMissed \in Nat /\ TTL \in Nat
         /\ Turn \in Nat /\ Turn = Slow + Round /\ Chain \in Nat /\ Turn <= Chain
         /\ \A k \in 1..MaxMissed :
                FailedFor(k) \in Nat /\ FailedFor(k) + Turn <= Chain
         /\ \A k \in 1..MaxMissed - 1 : FailedFor(k) = FailedFor(k + 1) + Turn
<1>1. /\ Slow \in Nat /\ Round \in Nat /\ PeerForget \in Nat /\ MaxMissed \in Nat /\ TTL \in Nat
      /\ Turn \in Nat /\ Turn = Slow + Round
  BY ServerAssumption DEF Patience, Turn
<1>2. \A a, b \in Nat : a * b \in Nat
  OBVIOUS
<1>3. Chain \in Nat
  BY <1>1, <1>2 DEF Chain
<1>4. \A a, b \in Nat : a > 0 => b <= a * b
  OBVIOUS
<1>5. Turn <= Chain
  BY <1>1, <1>4 DEF Chain
<1>6. ASSUME NEW k \in 1..MaxMissed
      PROVE  FailedFor(k) \in Nat /\ FailedFor(k) + Turn <= Chain
  <2>1. MaxMissed - k \in Nat /\ MaxMissed - k + 1 <= MaxMissed /\ MaxMissed # 0
    BY <1>1
  <2>2. \A a, b \in Nat : a * b + b = (a + 1) * b
    OBVIOUS
  <2>3. \A a, b, c \in Nat : a <= c => a * b <= c * b
    OBVIOUS
  <2> DEFINE a == MaxMissed - k
  <2>4. a * Turn + Turn = (a + 1) * Turn /\ (a + 1) * Turn <= MaxMissed * Turn
    BY <1>1, <2>1, <2>2, <2>3
  <2> QED BY <1>1, <1>2, <2>1, <2>4 DEF FailedFor, Chain
<1>7. ASSUME NEW k \in 1..MaxMissed - 1
      PROVE  FailedFor(k) = FailedFor(k + 1) + Turn
  <2> DEFINE a == MaxMissed - (k + 1)
  <2>1. a \in Nat /\ MaxMissed - k = a + 1
    BY <1>1
  <2>2. \A b, c \in Nat : (b + 1) * c = b * c + c
    OBVIOUS
  <2> QED BY <1>1, <2>1, <2>2 DEF FailedFor
<1> QED BY <1>1, <1>3, <1>5, <1>6, <1>7

(* What the types say of one node.                                           *)
LEMMA NodeTypes ==
  ASSUME Patience, Nodes!TypeOK, NEW n \in Peers
  PROVE  /\ at[n] \in {"pausing", "asking", "served"}
         /\ clock[n] \in Nat /\ missed[n] \in Nat /\ missed[n] <= MaxMissed
         /\ age[n] \in Nat /\ age[n] <= TTL + 1
         /\ known[n] \subseteq Peers /\ n \notin known[n]
         /\ \A m \in Peers : absent[n][m] \in Nat /\ absent[n][m] <= Nodes!None
         /\ told[n] = {} \/ \E others \in SUBSET Peers : told[n] = {others}
         /\ Nodes!None \in Nat /\ Nodes!None = PeerForget + 1
<1>1. /\ Slow \in Nat /\ Round \in Nat /\ PeerForget \in Nat /\ MaxMissed \in Nat /\ TTL \in Nat
  BY Rounds
<1>2. /\ at[n] \in {"pausing", "asking", "served"}
      /\ clock[n] \in Nat /\ missed[n] \in Nat /\ missed[n] <= MaxMissed
  BY <1>1 DEF Nodes!TypeOK
<1>3. age[n] \in Nat /\ age[n] <= TTL + 1
  BY <1>1 DEF Nodes!TypeOK, Nodes!PresenceTypeOK, Nodes!Ages
<1>4. told[n] = {} \/ \E others \in SUBSET Peers : told[n] = {others}
  <2>1. told[n] \in Nodes!Inboxes
    BY DEF Nodes!TypeOK, Nodes!PresenceTypeOK
  <2> QED BY <2>1 DEF Nodes!Inboxes
<1>5. /\ known[n] \subseteq Peers /\ n \notin known[n]
      /\ \A m \in Peers : absent[n][m] \in Nat /\ absent[n][m] <= Nodes!None
      /\ Nodes!None \in Nat /\ Nodes!None = PeerForget + 1
  BY <1>1 DEF Nodes!TypeOK, Nodes!None
<1> QED BY <1>2, <1>3, <1>4, <1>5

(* No node is longer without a registration than a whole fault.              *)
LEMMA RestBound ==
  ASSUME Patience, Nodes!TypeOK, PaceInv
  PROVE  Soon
<1> SUFFICES ASSUME NEW n \in Peers
             PROVE  /\ Rest(n) \in Nat /\ Rest(n) <= Chain
                    /\ missed[n] = 0 => Rest(n) <= Turn
  BY DEF Soon
<1>1. /\ clock[n] \in Nat /\ missed[n] \in Nat /\ missed[n] <= MaxMissed
      /\ at[n] \in {"pausing", "asking", "served"}
  BY NodeTypes
<1>2. Pause(n) \in Nat /\ Pause(n) <= Turn
  BY <1>1, Rounds DEF PaceInv, OnTime, Pause
<1>3. CASE missed[n] = 0
  BY <1>2, <1>3, Rounds DEF Rest
<1>4. CASE missed[n] # 0
  <2>1. missed[n] \in 1..MaxMissed
    BY <1>1, <1>4, Rounds
  <2>2. FailedFor(missed[n]) \in Nat /\ FailedFor(missed[n]) + Turn <= Chain
    BY <2>1, Rounds
  <2> QED BY <1>2, <1>4, <2>2, Rounds DEF Rest
<1> QED BY <1>3, <1>4

(* Steps that bring nobody's registration further away.                      *)
LEMMA StillBears ==
  ASSUME Patience, Paced, Paced', NEW n \in Peers, NEW m \in Peers,
         Missing(n, m) => Bears(n, m),
         absent'[n][m] = absent[n][m], known'[n] = known[n],
         Registered(m) => Registered(m)', Rest(m)' <= Rest(m),
         missed'[n] > 0 => missed[n] > 0 /\ Rest(n)' <= Rest(n),
         at'[n] = "served" /\ missed'[n] = 0 =>
             /\ at[n] = "served" /\ missed[n] = 0
             /\ told'[n] = told[n] /\ clock'[n] = clock[n]
  PROVE  Missing(n, m)' => Bears(n, m)'
<1> SUFFICES ASSUME Missing(n, m)' PROVE Bears(n, m)'
  OBVIOUS
<1>1. Missing(n, m) /\ Bears(n, m)
  BY DEF Missing, Nodes!None
<1>2. /\ Rest(n) \in Nat /\ Rest(m) \in Nat /\ Rest(n)' \in Nat /\ Rest(m)' \in Nat
      /\ absent[n][m] \in Nat /\ Chain \in Nat
  BY NodeTypes, Rounds DEF Paced, Soon
<1>3. Registered(m)' \/ absent'[n][m] + Rest(m)' <= Chain
  BY <1>1, <1>2 DEF Bears
<1>4. missed'[n] > 0 => absent'[n][m] + Rest(n)' <= Chain
  BY <1>1, <1>2 DEF Bears
<1> QED BY <1>1, <1>3, <1>4 DEF Bears

(* The types, one action after another.                                      *)
LEMMA NodeTypesKeep ==
  ASSUME Patience, Nodes!TypeOK, [Nodes!DNext]_(Nodes!vars)
  PROVE  Nodes!TypeOK'
<1> USE DEF Nodes!TypeOK, Nodes!PresenceTypeOK
<1>1. ASSUME NEW p \in Peers, Nodes!Ask(p) PROVE Nodes!TypeOK'
  <2>1. told' \in [Peers -> Nodes!Inboxes]
    BY <1>1 DEF Nodes!Ask, Nodes!Inboxes
  <2>2. clock' \in [Peers -> 0..(IF Slow > Round THEN Slow ELSE Round)]
    BY <1>1, Rounds DEF Nodes!Ask
  <2> QED BY <1>1, <2>1, <2>2 DEF Nodes!Ask
<1>2. ASSUME NEW p \in Peers, Nodes!Served(p) PROVE Nodes!TypeOK'
  <2>1. {Nodes!Live \ {p}} \in Nodes!Inboxes
    BY DEF Nodes!Inboxes, Nodes!Live
  <2>2. told' \in [Peers -> Nodes!Inboxes] /\ age' \in [Peers -> Nodes!Ages]
    <3>1. age' = [age EXCEPT ![p] = 0] /\ told' \in {told, [told EXCEPT ![p] = {Nodes!Live \ {p}}]}
      BY <1>2 DEF Nodes!Served, Nodes!Accept, Nodes!Tell
    <3>2. 0 \in Nodes!Ages
      BY Rounds DEF Nodes!Ages
    <3> QED BY <2>1, <3>1, <3>2
  <2>3. missed' \in [Peers -> 0..MaxMissed]
    BY <1>2, Rounds DEF Nodes!Served
  <2> QED BY <1>2, <2>2, <2>3 DEF Nodes!Served, Nodes!Accept
<1>3. ASSUME NEW p \in Peers, Nodes!Missed(p) PROVE Nodes!TypeOK'
  <2>1. missed[p] + 1 \in 0..MaxMissed
    BY <1>3, Rounds DEF Nodes!Missed
  <2> QED BY <1>3, <2>1 DEF Nodes!Missed, Nodes!presenceVars
<1>4. ASSUME NEW p \in Peers, Nodes!EndRound(p) PROVE Nodes!TypeOK'
  <2>1. PICK other \in {{}} \cup {{s} : s \in SUBSET Peers} :
           IF told[p] \cup other = {} THEN UNCHANGED <<known, absent>>
           ELSE Nodes!Sync(p, Nodes!Merged(p, other))
    BY <1>4 DEF Nodes!EndRound
  <2>2. Nodes!Merged(p, other) \subseteq Peers
    <3>1. told[p] \in Nodes!Inboxes
      OBVIOUS
    <3>2. UNION told[p] \subseteq Peers
      BY <3>1 DEF Nodes!Inboxes
    <3> QED BY <3>2 DEF Nodes!Merged
  <2>3. /\ known' \in [Peers -> SUBSET Peers] /\ \A n \in Peers : n \notin known'[n]
        /\ absent' \in [Peers -> [Peers -> 0..Nodes!None]]
    <3>1. CASE UNCHANGED <<known, absent>>
      BY <3>1
    <3>2. CASE Nodes!Sync(p, Nodes!Merged(p, other))
      <4>1. /\ known' \in [Peers -> SUBSET Peers] /\ \A n \in Peers : n \notin known'[n]
        BY <2>2, <3>2 DEF Nodes!Sync, Nodes!Others
      <4>2. {0, Nodes!None} \subseteq 0..Nodes!None
        BY Rounds DEF Nodes!None
      <4>3. absent' \in [Peers -> [Peers -> 0..Nodes!None]]
        BY <3>2, <4>2 DEF Nodes!Sync
      <4> QED BY <4>1, <4>3
    <3> QED BY <2>1, <3>1, <3>2
  <2>4. clock' \in [Peers -> 0..(IF Slow > Round THEN Slow ELSE Round)]
    BY <1>4, Rounds DEF Nodes!EndRound
  <2> QED BY <1>4, <2>3, <2>4 DEF Nodes!EndRound, Nodes!presenceVars
<1>5. ASSUME Nodes!Restarted PROVE Nodes!TypeOK'
  <2>1. age' \in [Peers -> Nodes!Ages]
    BY <1>5, Rounds DEF Nodes!Restarted, Nodes!Forget, Nodes!Ages, Nodes!Over
  <2> QED BY <1>5, <2>1 DEF Nodes!Restarted, Nodes!Forget
<1>6. ASSUME Nodes!TimePasses PROVE Nodes!TypeOK'
  <2>1. age' \in [Peers -> Nodes!Ages]
    BY <1>6, Rounds DEF Nodes!TimePasses, Nodes!Tick, Nodes!Ages, Nodes!Older
  <2>2. \A d \in 0..Nodes!None : Nodes!Passed(d) \in 0..Nodes!None
    BY Rounds DEF Nodes!Passed, Nodes!None
  <2>3. absent' \in [Peers -> [Peers -> 0..Nodes!None]]
    BY <1>6, <2>2 DEF Nodes!TimePasses
  <2>4. clock' \in [Peers -> 0..(IF Slow > Round THEN Slow ELSE Round)]
    BY <1>6, Rounds DEF Nodes!TimePasses
  <2> QED BY <1>6, <2>1, <2>3, <2>4 DEF Nodes!TimePasses, Nodes!Tick
<1>7. CASE UNCHANGED Nodes!vars
  BY <1>7 DEF Nodes!vars, Nodes!presenceVars
<1> QED BY <1>1, <1>2, <1>3, <1>4, <1>5, <1>6, <1>7 DEF Nodes!DNext, Nodes!Loop


(* n keeps its pace and comes no later to its next registration.             *)
Onward(n) == OnTime(n)' /\ Rest(n)' <= Rest(n) /\ (Registered(n) => Registered(n)')

(* Who does nothing.                                                         *)
LEMMA Bystander ==
  ASSUME Patience, Paced, NEW n \in Peers,
         at'[n] = at[n], clock'[n] = clock[n], told'[n] = told[n],
         missed'[n] = missed[n], age'[n] = age[n]
  PROVE  Onward(n)
<1>1. Pause(n)' = Pause(n) /\ Rest(n)' = Rest(n) /\ (Registered(n)' <=> Registered(n))
  BY DEF Pause, Rest, Registered
<1>2. Rest(n) <= Rest(n)
  BY DEF Paced, Soon
<1> QED BY <1>1, <1>2 DEF Onward, Paced, PaceInv, OnTime

(* Who moves, and keeps its registration.                                    *)
LEMMA Mover ==
  ASSUME Patience, Paced, NEW n \in Peers,
         age'[n] = age[n], (Registered(n)' <=> Registered(n)),
         Rest(n)' \in Nat, Rest(n)' <= Rest(n),
         clock'[n] <= (IF at'[n] = "pausing" THEN Slow ELSE IF at'[n] = "asking" THEN 0 ELSE Round),
         at'[n] = "asking" => told'[n] = {}
  PROVE  Onward(n)
<1>1. age[n] \in Nat /\ Rest(n) \in Nat /\ TTL \in Nat
  BY NodeTypes, Rounds DEF Paced, Soon
<1>2. Registered(n)' => age[n] + Rest(n) <= TTL
  BY DEF Paced, PaceInv, OnTime
<1>3. Registered(n)' => age'[n] + Rest(n)' <= TTL
  BY <1>1, <1>2
<1> QED BY <1>3 DEF Onward, OnTime

(* A round begins.                                                           *)
LEMMA AskMoves ==
  ASSUME Patience, Paced, NEW p \in Peers, Nodes!Ask(p)
  PROVE  \A n \in Peers : Onward(n)
<1> USE DEF Nodes!Ask, Nodes!TypeOK, Nodes!PresenceTypeOK
<1>1. ASSUME NEW n \in Peers, n # p PROVE Onward(n)
  BY <1>1, Bystander DEF Paced
<1>2. /\ at[p] = "pausing" /\ at'[p] = "asking" /\ clock'[p] = 0 /\ told'[p] = {}
      /\ missed' = missed /\ age' = age
  BY DEF Paced
<1>3. Pause(p)' = 0 /\ Pause(p) = Slow - clock[p] /\ clock[p] <= Slow
  BY <1>2 DEF Pause, Paced, PaceInv, OnTime
<1>4. Rest(p)' \in Nat /\ Rest(p)' <= Rest(p) /\ (Registered(p)' <=> Registered(p))
  <2>1. clock[p] \in Nat /\ Rest(p) \in Nat
    BY NodeTypes DEF Paced, Soon
  <2>2. missed[p] # 0 => FailedFor(missed[p]) \in Nat
    BY NodeTypes, Rounds DEF Paced
  <2>3. CASE missed[p] = 0
    BY <1>2, <1>3, <2>1, <2>3, Rounds DEF Rest, Registered
  <2>4. CASE missed[p] # 0
    BY <1>2, <1>3, <2>1, <2>2, <2>4, Rounds DEF Rest, Registered, FailedFor
  <2> QED BY <2>3, <2>4
<1>5. Onward(p)
  BY <1>2, <1>4, Mover
<1> QED BY <1>1, <1>5

(* One more round of a fault fails.                                          *)
LEMMA MissedMoves ==
  ASSUME Patience, Paced, NEW p \in Peers, Nodes!Missed(p), missed[p] > 0
  PROVE  \A n \in Peers : Onward(n)
<1> USE DEF Nodes!Missed, Nodes!presenceVars, Nodes!TypeOK, Nodes!PresenceTypeOK
<1>1. ASSUME NEW n \in Peers, n # p PROVE Onward(n)
  BY <1>1, Bystander DEF Paced
<1>2. /\ at[p] = "asking" /\ at'[p] = "served" /\ clock' = clock /\ told' = told
      /\ missed[p] < MaxMissed /\ missed'[p] = missed[p] + 1 /\ age' = age
  BY DEF Paced
<1>3. missed[p] \in 1..MaxMissed - 1 /\ missed'[p] \in 1..MaxMissed /\ clock[p] = 0
  BY <1>2, NodeTypes, Rounds DEF Paced, PaceInv, OnTime
<1>4. Rest(p)' = Turn + FailedFor(missed'[p]) /\ Rest(p) = FailedFor(missed[p])
  <2>1. Pause(p)' = Turn /\ Pause(p) = 0
    BY <1>2, <1>3, Rounds DEF Pause
  <2>2. FailedFor(missed[p]) \in Nat
    BY <1>3, Rounds
  <2>3. Rest(p)' = Pause(p)' + FailedFor(missed'[p]) /\ Rest(p) = Pause(p) + FailedFor(missed[p])
    BY <1>3, Rounds DEF Rest, FailedFor
  <2> QED BY <2>1, <2>2, <2>3
<1>5. FailedFor(missed[p]) = FailedFor(missed[p] + 1) + Turn /\ FailedFor(missed'[p]) \in Nat
  BY <1>3, Rounds
<1>6. Rest(p)' \in Nat /\ Rest(p)' <= Rest(p)
  BY <1>2, <1>4, <1>5, Rounds
<1>7. (Registered(p)' <=> Registered(p))
  BY <1>3, Rounds DEF Registered
<1>8. Onward(p)
  BY <1>2, <1>3, <1>6, <1>7, Mover, Rounds
<1> QED BY <1>1, <1>8

(* A round ends.                                                             *)
LEMMA EndRoundMoves ==
  ASSUME Patience, Paced, NEW p \in Peers, Nodes!EndRound(p)
  PROVE  \A n \in Peers : Onward(n)
<1> USE DEF Nodes!EndRound, Nodes!presenceVars, Nodes!TypeOK, Nodes!PresenceTypeOK
<1>1. ASSUME NEW n \in Peers, n # p PROVE Onward(n)
  BY <1>1, Bystander DEF Paced
<1>2. /\ at[p] = "served" /\ at'[p] = "pausing" /\ clock'[p] = 0
      /\ missed' = missed /\ age' = age
  BY DEF Paced
<1>3. Pause(p)' = Slow /\ Pause(p) = Slow + Round - clock[p] /\ clock[p] <= Round
  BY <1>2, Rounds DEF Pause, Paced, PaceInv, OnTime
<1>4. Rest(p)' \in Nat /\ Rest(p)' <= Rest(p) /\ (Registered(p)' <=> Registered(p))
  <2>1. clock[p] \in Nat /\ Rest(p) \in Nat /\ missed[p] \in 0..MaxMissed
    BY NodeTypes, Rounds DEF Paced, Soon
  <2>2. missed[p] # 0 => FailedFor(missed[p]) \in Nat
    BY <2>1, Rounds
  <2>3. CASE missed[p] = 0
    BY <1>2, <1>3, <2>1, <2>3, Rounds DEF Rest, Registered
  <2>4. CASE missed[p] # 0
    BY <1>2, <1>3, <2>1, <2>2, <2>4, Rounds DEF Rest, Registered, FailedFor
  <2> QED BY <2>3, <2>4
<1>5. Onward(p)
  BY <1>2, <1>4, Mover, Rounds
<1> QED BY <1>1, <1>5

(* Before a fault nobody misses anybody.                                     *)
LEMMA SettledMisses ==
  ASSUME Nodes!Settled, NEW n \in Peers, NEW m \in Peers
  PROVE  ~Missing(n, m) /\ missed[n] = 0
  BY DEF Nodes!Settled, Missing

(* A round that begins leaves who is missing as it is.                       *)
LEMMA AskKeeps ==
  ASSUME Patience, Paced, Paced', AbsenceInv, NEW p \in Peers, Nodes!Ask(p)
  PROVE  PaceInv' /\ AbsenceInv'
<1>1. \A n \in Peers : Onward(n)
  BY AskMoves
<1>2. ASSUME NEW n \in Peers, NEW m \in Peers
      PROVE  Missing(n, m)' => Bears(n, m)'
  <2>1. /\ absent' = absent /\ known' = known /\ missed' = missed
        /\ at'[n] = "served" => at[n] = "served" /\ clock'[n] = clock[n] /\ told'[n] = told[n]
    BY DEF Nodes!Ask, Paced, Nodes!TypeOK, Nodes!PresenceTypeOK
  <2> QED BY <1>1, <2>1, StillBears DEF AbsenceInv, Onward
<1> QED BY <1>1, <1>2 DEF Onward, PaceInv, AbsenceInv

(* A round that fails is the first of a fault or part of the one under way.  *)
LEMMA MissedKeeps ==
  ASSUME Patience, Paced, Paced', AbsenceInv, NEW p \in Peers, Nodes!Missed(p)
  PROVE  AbsenceInv'
<1> SUFFICES ASSUME NEW n \in Peers, NEW m \in Peers
             PROVE  Missing(n, m)' => Bears(n, m)'
  BY DEF AbsenceInv
<1>1. /\ absent' = absent /\ known' = known
      /\ missed'[p] > 0 /\ \A q \in Peers \ {p} : missed'[q] = missed[q]
      /\ \A q \in Peers \ {p} : at'[q] = "served" => at[q] = "served"
      /\ clock' = clock /\ told' = told
  BY NodeTypes DEF Nodes!Missed, Nodes!presenceVars, Paced, Nodes!TypeOK
<1>2. CASE missed[p] = 0
  BY <1>1, <1>2, SettledMisses DEF Nodes!Missed, Missing, Nodes!None
<1>3. CASE missed[p] > 0
  BY <1>1, <1>3, MissedMoves, StillBears DEF AbsenceInv, Onward
<1> QED BY <1>2, <1>3, NodeTypes DEF Paced

(* A peer that is taken off or kept on the list of the missing.              *)
LEMMA SyncMisses ==
  ASSUME Patience, Paced, NEW p \in Peers, NEW all, Nodes!Sync(p, all),
         NEW m \in Peers, Missing(p, m)'
  PROVE  /\ m \in known'[p] /\ m # p
         /\ absent'[p][m] = 0 \/ (Missing(p, m) /\ absent'[p][m] = absent[p][m])
<1> DEFINE missing == known[p] \ Nodes!Others(p, all)
           expired == {q \in missing : absent[p][q] # Nodes!None /\ absent[p][q] >= PeerForget}
<1>1. known'[p] = (known[p] \cup Nodes!Others(p, all)) \ expired
  BY DEF Nodes!Sync, Paced, Nodes!TypeOK
<1>2. absent'[p][m] = IF m \notin missing \ expired THEN Nodes!None
                      ELSE IF absent[p][m] = Nodes!None THEN 0 ELSE absent[p][m]
  BY DEF Nodes!Sync, Paced, Nodes!TypeOK
<1>3. m \in missing \ expired
  BY <1>2 DEF Missing, Nodes!None
<1> HIDE DEF expired
<1>4. m \in known[p] /\ m \notin expired
  BY <1>3
<1> QED BY <1>1, <1>2, <1>3, <1>4, NodeTypes DEF Missing, Paced

(* A round that ends makes a peer missing from now on, or not again.         *)
LEMMA EndRoundKeeps ==
  ASSUME Patience, Paced, Paced', AbsenceInv, NEW p \in Peers, Nodes!EndRound(p)
  PROVE  AbsenceInv'
<1> SUFFICES ASSUME NEW n \in Peers, NEW m \in Peers
             PROVE  Missing(n, m)' => Bears(n, m)'
  BY DEF AbsenceInv
<1>1. \A q \in Peers : Onward(q)
  BY EndRoundMoves
<1>2. /\ missed' = missed /\ told' = told /\ at'[p] = "pausing"
      /\ \A q \in Peers \ {p} : at'[q] = at[q] /\ clock'[q] = clock[q]
  BY DEF Nodes!EndRound, Nodes!presenceVars, Paced, Nodes!TypeOK
<1>3. PICK all : UNCHANGED <<known, absent>> \/ Nodes!Sync(p, all)
  BY DEF Nodes!EndRound
<1>4. CASE n # p \/ UNCHANGED <<known, absent>>
  <2>1. known'[n] = known[n] /\ absent'[n] = absent[n]
    BY <1>3, <1>4 DEF Nodes!Sync, Paced, Nodes!TypeOK
  <2> QED BY <1>1, <1>2, <2>1, StillBears DEF AbsenceInv, Onward
<1>5. CASE n = p /\ Nodes!Sync(p, all)
  <2> SUFFICES ASSUME Missing(p, m)' PROVE Bears(p, m)'
    BY <1>5
  <2>1. /\ m \in known'[p] /\ m # p
        /\ absent'[p][m] = 0 \/ (Missing(p, m) /\ absent'[p][m] = absent[p][m])
    BY <1>5, SyncMisses
  <2>2. CASE absent'[p][m] = 0
    BY <1>2, <2>1, <2>2, Rounds DEF Bears, Paced, Soon
  <2>3. CASE Missing(p, m) /\ absent'[p][m] = absent[p][m]
    <3>1. Bears(p, m) /\ absent[p][m] \in Nat /\ Chain \in Nat
      BY <2>3, NodeTypes, Rounds DEF AbsenceInv, Paced
    <3>2. /\ Rest(p)' <= Rest(p) /\ Rest(m)' <= Rest(m)
          /\ Registered(m) => Registered(m)'
          /\ Rest(p) \in Nat /\ Rest(m) \in Nat /\ Rest(p)' \in Nat /\ Rest(m)' \in Nat
      BY <1>1 DEF Onward, Paced, Soon
    <3>3. Registered(m)' \/ absent'[p][m] + Rest(m)' <= Chain
      BY <2>3, <3>1, <3>2 DEF Bears
    <3>4. missed'[p] > 0 => absent'[p][m] + Rest(p)' <= Chain
      BY <1>2, <2>3, <3>1, <3>2 DEF Bears
    <3> QED BY <1>2, <2>1, <3>3, <3>4 DEF Bears
  <2> QED BY <2>1, <2>2, <2>3
<1> QED BY <1>3, <1>4, <1>5

(* The followed server takes p's registration.                               *)
LEMMA ServedPace ==
  ASSUME Patience, Paced, NEW p \in Peers, Nodes!Served(p)
  PROVE  /\ PaceInv' /\ Registered(p)'
         /\ \A n \in Peers \ {p} : Onward(n)
<1>1. /\ age'[p] = 0 /\ missed'[p] = 0 /\ at[p] = "asking" /\ at'[p] = "served" /\ clock' = clock
      /\ \A n \in Peers \ {p} : /\ at'[n] = at[n] /\ clock'[n] = clock[n] /\ told'[n] = told[n]
                                /\ missed'[n] = missed[n] /\ age'[n] = age[n]
  BY DEF Nodes!Served, Nodes!Accept, Nodes!Tell, Paced, Nodes!TypeOK, Nodes!PresenceTypeOK
<1>2. ASSUME NEW n \in Peers \ {p} PROVE Onward(n)
  BY <1>1, Bystander
<1>3. clock[p] = 0
  BY <1>1, NodeTypes DEF Paced, PaceInv, OnTime
<1>4. Pause(p)' = Turn /\ Rest(p)' = Turn
  BY <1>1, <1>3, Rounds DEF Pause, Rest
<1>5. OnTime(p)' /\ Registered(p)'
  BY <1>1, <1>3, <1>4, Rounds DEF OnTime, Registered, Patience
<1> QED BY <1>2, <1>5 DEF PaceInv, Onward

(* Whoever is served has registered, and is told of all who have.            *)
LEMMA ServedKeeps ==
  ASSUME Patience, Paced, Paced', AbsenceInv, NEW p \in Peers, Nodes!Served(p)
  PROVE  AbsenceInv'
<1> SUFFICES ASSUME NEW n \in Peers, NEW m \in Peers, Missing(n, m)' PROVE Bears(n, m)'
  BY DEF AbsenceInv
<1>1. /\ absent' = absent /\ known' = known /\ missed'[p] = 0
      /\ \A q \in Peers \ {p} : /\ at'[q] = at[q] /\ clock'[q] = clock[q] /\ told'[q] = told[q]
                                /\ missed'[q] = missed[q]
      /\ clock' = clock
  BY DEF Nodes!Served, Nodes!Accept, Nodes!Tell, Paced, Nodes!TypeOK, Nodes!PresenceTypeOK
<1>2. Missing(n, m) /\ Bears(n, m)
  BY <1>1 DEF AbsenceInv, Missing, Nodes!None
<1>3. /\ Rest(n) \in Nat /\ Rest(m) \in Nat /\ Rest(n)' \in Nat /\ Rest(m)' \in Nat
      /\ absent[n][m] \in Nat /\ clock[n] \in Nat /\ Chain \in Nat /\ m # n
  BY <1>2, NodeTypes, Rounds DEF Paced, Soon, Bears
<1>4. Registered(m)' \/ absent'[n][m] + Rest(m)' <= Chain
  <2>1. CASE m = p
    BY <2>1, ServedPace
  <2>2. CASE m # p
    <3>1. Rest(m)' <= Rest(m) /\ (Registered(m) => Registered(m)')
      BY <2>2, ServedPace DEF Onward
    <3> QED BY <1>1, <1>2, <1>3, <3>1 DEF Bears
  <2> QED BY <2>1, <2>2
<1>5. CASE n # p
  <2>1. Rest(n)' <= Rest(n)
    BY <1>5, ServedPace DEF Onward
  <2>2. missed'[n] > 0 => absent'[n][m] + Rest(n)' <= Chain
    BY <1>1, <1>2, <1>3, <1>5, <2>1 DEF Bears
  <2> QED BY <1>1, <1>2, <1>4, <1>5, <2>2 DEF Bears
<1>6. CASE n = p
  <2>1. told'[p] # {}
    BY <1>2, <1>6, SettledMisses DEF Nodes!Served
  <2>2. told'[p] = {Nodes!Live \ {p}}
    <3>1. at[p] = "asking" /\ told[p] = {}
      BY DEF Nodes!Served, Paced, PaceInv, OnTime
    <3> QED BY <2>1, <3>1 DEF Nodes!Served, Nodes!Accept, Nodes!Tell, Paced, Nodes!TypeOK,
                               Nodes!PresenceTypeOK
  <2>3. m \in Nodes!Live \ {p} \/ absent[n][m] <= Chain + clock[n]
    <3>1. CASE age[m] <= TTL
      BY <1>3, <1>6, <3>1 DEF Nodes!Live
    <3>2. CASE ~(age[m] <= TTL)
      BY <1>2, <1>3, <3>2 DEF Bears, Registered
    <3> QED BY <3>1, <3>2
  <2> QED BY <1>1, <1>2, <1>4, <1>6, <2>2, <2>3 DEF Bears
<1> QED BY <1>5, <1>6

(* A restart is a fault, and takes every registration.                       *)
LEMMA RestartedKeeps ==
  ASSUME Patience, Paced, Nodes!Restarted
  PROVE  PaceInv' /\ AbsenceInv'
<1>1. /\ UNCHANGED <<at, clock, missed, known, absent, told>>
      /\ \A n \in Peers : age'[n] = TTL + 1
  BY DEF Nodes!Restarted, Nodes!Forget, Nodes!Over
<1>2. ASSUME NEW n \in Peers PROVE OnTime(n)'
  BY <1>1, Rounds DEF OnTime, Registered, Paced, PaceInv
<1>3. \A n, m \in Peers : ~Missing(n, m)'
  BY <1>1, SettledMisses DEF Nodes!Restarted, Missing, Nodes!None
<1> QED BY <1>2, <1>3 DEF PaceInv, AbsenceInv

(* Time passes between rounds, for all alike.                                *)
LEMMA TimeMoves ==
  ASSUME Patience, Paced, Nodes!TimePasses, NEW n \in Peers
  PROVE  /\ clock'[n] = clock[n] + 1 /\ OnTime(n)' /\ Rest(n)' + 1 = Rest(n)
         /\ Rest(n)' \in Nat
         /\ Registered(n) => Registered(n)'
<1>1. /\ at[n] # "asking" /\ clock[n] < (IF at[n] = "pausing" THEN Slow ELSE Round)
      /\ at' = at /\ missed' = missed /\ told' = told
      /\ clock'[n] = clock[n] + 1 /\ age'[n] = Nodes!Older(age[n])
  BY DEF Nodes!TimePasses, Nodes!Tick, Paced
<1>2. /\ clock[n] \in Nat /\ age[n] \in Nat /\ missed[n] \in 0..MaxMissed
      /\ Rest(n) \in Nat /\ at[n] \in {"pausing", "served"}
  BY <1>1, NodeTypes, Rounds DEF Paced, Soon
<1>3. Pause(n)' \in Nat /\ Pause(n) = Pause(n)' + 1
  BY <1>1, <1>2, Rounds DEF Pause
<1>4. Rest(n)' \in Nat /\ Rest(n)' + 1 = Rest(n)
  <2>1. missed[n] # 0 => FailedFor(missed[n]) \in Nat
    BY <1>2, Rounds
  <2>2. CASE missed[n] = 0
    BY <1>1, <1>3, <2>2 DEF Rest
  <2>3. CASE missed[n] # 0
    <3>1. Rest(n)' = Pause(n)' + FailedFor(missed[n]) /\ Rest(n) = Pause(n) + FailedFor(missed[n])
      BY <1>1, <2>3 DEF Rest, FailedFor
    <3> QED BY <1>3, <2>1, <2>3, <3>1
  <2> QED BY <2>2, <2>3
<1>5. Registered(n)' => Registered(n)
  BY <1>1, <1>2, Rounds DEF Registered, Nodes!Older
<1>6. Registered(n) => age'[n] = age[n] + 1 /\ age[n] + Rest(n) <= TTL
  <2>1. Registered(n) => age'[n] = age[n] + 1
    BY <1>1, <1>2, Rounds DEF Registered, Nodes!Older
  <2>2. Registered(n) => age[n] + Rest(n) <= TTL
    BY DEF Paced, PaceInv, OnTime
  <2> QED BY <2>1, <2>2
<1>7. Registered(n) => Registered(n)' /\ age'[n] + Rest(n)' <= TTL
  BY <1>1, <1>2, <1>4, <1>6, Rounds DEF Registered
<1>8. OnTime(n)'
  BY <1>1, <1>2, <1>5, <1>7, Rounds DEF OnTime
<1> QED BY <1>1, <1>4, <1>7, <1>8

(* What absence gains, the rest of the fault loses.                          *)
LEMMA TimeKeeps ==
  ASSUME Patience, Paced, AbsenceInv, Nodes!TimePasses
  PROVE  PaceInv' /\ AbsenceInv'
<1>1. ASSUME NEW n \in Peers, NEW m \in Peers, Missing(n, m)' PROVE Bears(n, m)'
  <2>1. /\ absent'[n][m] = Nodes!Passed(absent[n][m])
        /\ at' = at /\ missed' = missed /\ told' = told /\ known' = known
    BY <1>1 DEF Nodes!TimePasses, Nodes!Tick
  <2>2. /\ absent[n][m] \in Nat /\ Chain \in Nat /\ clock[n] \in Nat
        /\ Rest(m) \in Nat /\ Rest(n) \in Nat
    BY NodeTypes, Rounds DEF Paced, Soon
  <2>3. Missing(n, m) /\ Bears(n, m) /\ absent'[n][m] <= absent[n][m] + 1 /\ absent'[n][m] \in Nat
    BY <1>1, <2>1, <2>2, Rounds DEF AbsenceInv, Missing, Nodes!None, Nodes!Passed
  <2>4. /\ Rest(n)' + 1 = Rest(n) /\ Rest(m)' + 1 = Rest(m) /\ clock'[n] = clock[n] + 1
        /\ Rest(n)' \in Nat /\ Rest(m)' \in Nat
        /\ Registered(m) => Registered(m)'
    BY TimeMoves
  <2>5. Registered(m)' \/ absent'[n][m] + Rest(m)' <= Chain
    BY <2>2, <2>3, <2>4 DEF Bears
  <2>6. missed'[n] > 0 => absent'[n][m] + Rest(n)' <= Chain
    BY <2>1, <2>2, <2>3, <2>4 DEF Bears
  <2>7. absent[n][m] <= Chain + clock[n] => absent'[n][m] <= Chain + clock'[n]
    BY <2>2, <2>3, <2>4
  <2> QED BY <2>1, <2>3, <2>5, <2>6, <2>7 DEF Bears
<1> QED BY <1>1, TimeMoves DEF PaceInv, AbsenceInv


(* A failed round is of a node that need not be registered.                  *)
LEMMA MissedPace ==
  ASSUME Patience, Paced, NEW p \in Peers, Nodes!Missed(p)
  PROVE  PaceInv'
<1> USE DEF Nodes!Missed, Nodes!presenceVars, Nodes!TypeOK, Nodes!PresenceTypeOK
<1>1. ASSUME NEW n \in Peers, n # p PROVE OnTime(n)'
  BY <1>1, Bystander DEF Paced, Onward
<1>2. /\ at[p] = "asking" /\ at'[p] = "served" /\ clock'[p] = clock[p]
      /\ missed'[p] = missed[p] + 1
  BY DEF Paced
<1>3. clock[p] = 0 /\ missed'[p] # 0
  BY <1>2, NodeTypes, Rounds DEF Paced, PaceInv, OnTime
<1>4. OnTime(p)'
  BY <1>2, <1>3, Rounds DEF OnTime, Registered
<1> QED BY <1>1, <1>4 DEF PaceInv

(* No step makes a node late.                                                *)
LEMMA PaceKeeps ==
  ASSUME Patience, Paced, [Nodes!DNext]_(Nodes!vars)
  PROVE  PaceInv'
<1>1. ASSUME NEW p \in Peers, Nodes!Loop(p) PROVE PaceInv'
  BY <1>1, AskMoves, ServedPace, MissedPace, EndRoundMoves
     DEF Nodes!Loop, Onward, PaceInv
<1>2. CASE Nodes!Restarted
  BY <1>2, RestartedKeeps
<1>3. CASE Nodes!TimePasses
  BY <1>3, TimeMoves DEF PaceInv
<1>4. CASE UNCHANGED Nodes!vars
  <2>1. UNCHANGED <<at, clock, told, missed, age>>
    BY <1>4 DEF Nodes!vars, Nodes!presenceVars
  <2> QED BY <2>1, Bystander DEF PaceInv, Onward
<1> QED BY <1>1, <1>2, <1>3, <1>4 DEF Nodes!DNext

(* No step makes a peer missing for longer than the node bears.              *)
LEMMA AbsenceKeeps ==
  ASSUME Patience, Paced, Paced', AbsenceInv, [Nodes!DNext]_(Nodes!vars)
  PROVE  AbsenceInv'
<1>1. ASSUME NEW p \in Peers, Nodes!Loop(p) PROVE AbsenceInv'
  BY <1>1, AskKeeps, ServedKeeps, MissedKeeps, EndRoundKeeps DEF Nodes!Loop
<1>2. CASE Nodes!Restarted
  BY <1>2, RestartedKeeps
<1>3. CASE Nodes!TimePasses
  BY <1>3, TimeKeeps
<1>4. CASE UNCHANGED Nodes!vars
  <2>1. UNCHANGED <<at, clock, told, missed, age, known, absent>>
    BY <1>4 DEF Nodes!vars, Nodes!presenceVars
  <2>2. ASSUME NEW n \in Peers, NEW m \in Peers PROVE Missing(n, m)' => Bears(n, m)'
    BY <2>1, Bystander, StillBears DEF AbsenceInv, Onward
  <2> QED BY <2>2 DEF AbsenceInv
<1> QED BY <1>1, <1>2, <1>3, <1>4 DEF Nodes!DNext

(* Nodes keep their pace.                                                    *)
LEMMA PacedInductive ==
  ASSUME Patience
  PROVE  Nodes!DSpec => []Paced
<1>1. Nodes!DInit => Nodes!TypeOK /\ PaceInv
  <2> SUFFICES ASSUME Nodes!DInit PROVE Nodes!TypeOK /\ PaceInv
    OBVIOUS
  <2>1. Nodes!PresenceTypeOK
    <3>1. {} \in Nodes!Inboxes /\ Nodes!Over \in Nodes!Ages
      BY Rounds DEF Nodes!Inboxes, Nodes!Over, Nodes!Ages
    <3> QED BY <3>1 DEF Nodes!DInit, Nodes!Init, Nodes!PresenceTypeOK
  <2>2. Nodes!TypeOK
    BY <2>1, Rounds DEF Nodes!DInit, Nodes!TypeOK, Nodes!None
  <2>3. PaceInv
    BY Rounds DEF Nodes!DInit, Nodes!Init, PaceInv, OnTime, Registered, Nodes!Over
  <2> QED BY <2>2, <2>3
<1>2. Nodes!TypeOK /\ PaceInv => Paced
  BY RestBound DEF Paced
<1>3. Paced /\ [Nodes!DNext]_(Nodes!vars) => Nodes!TypeOK' /\ PaceInv'
  BY NodeTypesKeep, PaceKeeps DEF Paced
<1> QED BY <1>1, <1>2, <1>3, PTL DEF Nodes!DSpec

(* A peer is listed again before a node has missed it for too long.          *)
LEMMA NobodyForgets ==
  ASSUME Patience, Paced, AbsenceInv, Nodes!DNext, NEW n \in Peers
  PROVE  known[n] \subseteq known'[n]
<1>1. ASSUME NEW p \in Peers, Nodes!EndRound(p) PROVE known[n] \subseteq known'[n]
  <2>1. PICK other : \/ UNCHANGED known
                     \/ /\ at[p] = "served"
                        /\ Nodes!Sync(p, Nodes!Merged(p, other))
    BY <1>1 DEF Nodes!EndRound
  <2>2. CASE n # p \/ UNCHANGED known
    BY <2>1, <2>2 DEF Nodes!Sync, Paced, Nodes!TypeOK
  <2>3. CASE n = p /\ at[p] = "served" /\ Nodes!Sync(p, Nodes!Merged(p, other))
    <3> DEFINE list == Nodes!Others(p, Nodes!Merged(p, other))
    <3>1. ASSUME NEW m \in known[p], m \notin list, Missing(p, m), absent[p][m] >= PeerForget
          PROVE  FALSE
      <4>1. m \in Peers /\ m # p /\ Bears(p, m) /\ absent[p][m] \in Nat /\ clock[p] \in Nat
        BY <3>1, NodeTypes DEF Paced, AbsenceInv
      <4>2. missed[p] = 0
        <5>1. missed[p] \in Nat /\ Rest(p) \in Nat
          BY NodeTypes DEF Paced, Soon
        <5>2. missed[p] > 0 => absent[p][m] + Rest(p) <= Chain
          BY <4>1 DEF Bears
        <5> QED BY <3>1, <4>1, <5>1, <5>2, Rounds DEF Patience
      <4>3. told[p] # {} /\ ((\A l \in told[p] : m \in l) \/ absent[p][m] <= Chain + clock[p])
        BY <2>3, <4>1, <4>2 DEF Bears
      <4>4. clock[p] <= Round
        BY <2>3 DEF Paced, PaceInv, OnTime
      <4>5. absent[p][m] > Chain + clock[p]
        BY <3>1, <4>1, <4>4, Rounds DEF Patience
      <4>6. m \in UNION told[p]
        BY <4>1, <4>3, <4>5, Rounds
      <4> QED BY <3>1, <4>1, <4>6 DEF Nodes!Merged, Nodes!Others
    <3>2. known'[p] = (known[p] \cup list)
                      \ {m \in known[p] \ list : absent[p][m] # Nodes!None
                                                 /\ absent[p][m] >= PeerForget}
      BY <2>3 DEF Nodes!Sync, Paced, Nodes!TypeOK
    <3> HIDE DEF list
    <3> QED BY <2>3, <3>1, <3>2 DEF Missing
  <2> QED BY <2>1, <2>2, <2>3
<1>2. ASSUME NEW p \in Peers, Nodes!Ask(p) \/ Nodes!Served(p) \/ Nodes!Missed(p)
      PROVE  known[n] \subseteq known'[n]
  BY <1>2 DEF Nodes!Ask, Nodes!Served, Nodes!Missed
<1>3. CASE Nodes!Restarted \/ Nodes!TimePasses
  BY <1>3 DEF Nodes!Restarted, Nodes!TimePasses
<1> QED BY <1>1, <1>2, <1>3 DEF Nodes!DNext, Nodes!Loop

(* Nodes are not parted by one fault, for any number of nodes, if            *)
(* registrations outlive the slowest pace and a peer is given more time than *)
(* the longest fault and a round: less than that, and TLC finds a node that  *)
(* is forgotten.                                                             *)
THEOREM OneFaultPartsNobody ==
  ASSUME Patience
  PROVE  Nodes!DSpec => Nodes!NobodyIsForgotten
<1>1. Nodes!DInit => AbsenceInv
  BY DEF Nodes!DInit, AbsenceInv, Missing
<1>2. Paced /\ Paced' /\ AbsenceInv /\ [Nodes!DNext]_(Nodes!vars) => AbsenceInv'
  BY AbsenceKeeps
<1>3. Paced /\ AbsenceInv /\ [Nodes!DNext]_(Nodes!vars)
          => [\A n \in Peers : known[n] \subseteq known'[n]]_(Nodes!vars)
  BY NobodyForgets
<1> QED BY <1>1, <1>2, <1>3, PacedInductive, PTL DEF Nodes!DSpec, Nodes!NobodyIsForgotten

(***************************************************************************)
(* And nodes that are registered at the same time get to know each other.  *)
(***************************************************************************)

(* The round of n will end with an answer that lists m.                      *)
Underway(n, m) == at[n] = "served" /\ told[n] # {} /\ \A list \in told[n] : m \in list

Acquainted(n, m) == m \in known[n] \/ n \in known[m]

MeetingInv ==
    \A n, m \in Nodes!Live :
        n # m => Acquainted(n, m) \/ Underway(n, m) \/ Underway(m, n)

(* A round that ends makes known whoever its answer listed.                  *)
LEMMA AnswerIsTaken ==
  ASSUME Patience, Paced, NEW p \in Peers, NEW m \in Peers, m # p,
         Nodes!EndRound(p), Underway(p, m)
  PROVE  m \in known'[p]
<1>1. PICK other \in {{}} \cup {{s} : s \in SUBSET Peers} :
         IF told[p] \cup other = {} THEN UNCHANGED <<known, absent>>
         ELSE Nodes!Sync(p, Nodes!Merged(p, other))
  BY DEF Nodes!EndRound
<1>2. m \in Nodes!Others(p, Nodes!Merged(p, other))
  BY DEF Underway, Nodes!Others, Nodes!Merged
<1>3. Nodes!Sync(p, Nodes!Merged(p, other))
  BY <1>1 DEF Underway
<1> HIDE DEF Nodes!Merged, Nodes!Others
<1>4. known[p] \in SUBSET Peers /\ known \in [Peers -> SUBSET Peers]
  BY DEF Paced, Nodes!TypeOK
<1> QED BY <1>2, <1>3, <1>4 DEF Nodes!Sync

(* The later of two to register is told of the earlier; only to a node that  *)
(* is registered already does the server's answer get lost.                  *)
LEMMA ServedMeets ==
  ASSUME Patience, Paced, MeetingInv, NEW p \in Peers, Nodes!Served(p)
  PROVE  MeetingInv'
<1> SUFFICES ASSUME NEW n \in Nodes!Live', NEW m \in Nodes!Live', n # m
             PROVE  Acquainted(n, m)' \/ Underway(n, m)' \/ Underway(m, n)'
  BY DEF MeetingInv
<1>1. /\ n \in Peers /\ m \in Peers
      /\ at[p] = "asking" /\ at'[p] = "served" /\ told[p] = {} /\ known' = known
      /\ \A q \in Peers \ {p} : at'[q] = at[q] /\ told'[q] = told[q] /\ age'[q] = age[q]
      /\ told'[p] = {} \/ told'[p] = {Nodes!Live \ {p}}
  BY DEF Nodes!Live, Nodes!Served, Nodes!Accept, Nodes!Tell, Paced, PaceInv, OnTime,
         Nodes!TypeOK, Nodes!PresenceTypeOK
<1>2. \A q \in Peers \ {p} : q \in Nodes!Live' => q \in Nodes!Live
  BY <1>1 DEF Nodes!Live
<1>3. CASE n # p /\ m # p
  BY <1>1, <1>2, <1>3 DEF MeetingInv, Acquainted, Underway
<1>4. ASSUME NEW q \in Nodes!Live', q # p
      PROVE  Acquainted(p, q)' \/ Acquainted(q, p)' \/ Underway(p, q)' \/ Underway(q, p)'
  <2>1. q \in Peers /\ q \in Nodes!Live
    BY <1>2, <1>4 DEF Nodes!Live
  <2>2. CASE told'[p] = {Nodes!Live \ {p}}
    <3>1. \A list \in told'[p] : q \in list
      BY <1>4, <2>1, <2>2
    <3> QED BY <1>1, <2>2, <3>1 DEF Underway
  <2>3. CASE told'[p] = {}
    <3>1. p \in Nodes!Live
      BY <2>3 DEF Nodes!Served, Nodes!Settled
    <3>2. ~Underway(p, q)
      BY <1>1 DEF Underway
    <3>3. Acquainted(p, q) \/ Underway(q, p)
      BY <1>4, <2>1, <3>1, <3>2 DEF MeetingInv
    <3> QED BY <1>1, <1>4, <2>1, <3>3 DEF Acquainted, Underway
  <2> QED BY <1>1, <2>2, <2>3
<1> QED BY <1>1, <1>3, <1>4 DEF Acquainted

(* No other step registers a node, and none takes an answer or an            *)
(* acquaintance away.                                                        *)
LEMMA MeetingKeeps ==
  ASSUME Patience, Paced, AbsenceInv, MeetingInv, [Nodes!DNext]_(Nodes!vars)
  PROVE  MeetingInv'
<1> SUFFICES ASSUME ~(\E p \in Peers : Nodes!Served(p)),
                    NEW n \in Nodes!Live', NEW m \in Nodes!Live', n # m
             PROVE  Acquainted(n, m)' \/ Underway(n, m)' \/ Underway(m, n)'
  BY ServedMeets DEF MeetingInv
<1>1. n \in Peers /\ m \in Peers
  BY DEF Nodes!Live
<1>2. \A q \in Peers : known[q] \subseteq known'[q]
  BY NobodyForgets DEF Nodes!vars
<1>3. ASSUME NEW q \in Peers, q \in Nodes!Live' PROVE q \in Nodes!Live
  <2>1. CASE Nodes!Restarted
    BY <1>3, <2>1, Rounds DEF Nodes!Restarted, Nodes!Forget, Nodes!Live, Nodes!Over
  <2>2. CASE Nodes!TimePasses
    <3>1. age'[q] = Nodes!Older(age[q]) /\ age[q] \in Nat
      BY <2>2, NodeTypes DEF Nodes!TimePasses, Nodes!Tick, Paced
    <3> QED BY <1>3, <3>1, Rounds DEF Nodes!Older, Nodes!Live
  <2>3. CASE UNCHANGED age
    BY <1>3, <2>3 DEF Nodes!Live
  <2> QED BY <2>1, <2>2, <2>3 DEF Nodes!DNext, Nodes!Loop, Nodes!Ask, Nodes!Missed,
                                  Nodes!EndRound, Nodes!vars, Nodes!presenceVars
<1>4. Acquainted(n, m) \/ Underway(n, m) \/ Underway(m, n)
  BY <1>1, <1>3 DEF MeetingInv
<1>5. CASE Acquainted(n, m)
  BY <1>1, <1>2, <1>5 DEF Acquainted
<1>6. ASSUME NEW a \in Peers, NEW b \in Peers, a # b, Underway(a, b)
      PROVE  Underway(a, b)' \/ b \in known'[a]
  <2>1. ASSUME NEW p \in Peers, Nodes!Ask(p) \/ Nodes!Missed(p)
        PROVE  at'[a] = at[a] /\ told'[a] = told[a]
    <3>1. p # a
      BY <1>6, <2>1 DEF Nodes!Ask, Nodes!Missed, Underway
    <3> QED BY <2>1, <3>1 DEF Nodes!Ask, Nodes!Missed, Nodes!presenceVars, Paced,
                               Nodes!TypeOK, Nodes!PresenceTypeOK
  <2>2. ASSUME NEW p \in Peers, Nodes!EndRound(p), p # a
        PROVE  at'[a] = at[a] /\ told'[a] = told[a]
    BY <2>2 DEF Nodes!EndRound, Nodes!presenceVars, Paced, Nodes!TypeOK
  <2>3. CASE Nodes!EndRound(a)
    BY <1>6, <2>3, AnswerIsTaken
  <2>4. CASE Nodes!Restarted \/ Nodes!TimePasses \/ UNCHANGED Nodes!vars
    BY <1>6, <2>4 DEF Nodes!Restarted, Nodes!Forget, Nodes!TimePasses, Nodes!Tick, Nodes!vars,
                      Nodes!presenceVars, Underway
  <2> QED BY <1>6, <2>1, <2>2, <2>3, <2>4 DEF Nodes!DNext, Nodes!Loop, Underway
<1> QED BY <1>1, <1>4, <1>5, <1>6 DEF Acquainted

(* Of two nodes that the followed server has registered, one knows the other *)
(* or the round it is in will tell it: between rounds one knows the other,   *)
(* and so it stays.  That rounds end is what SomebodyFindsOut needs besides. *)
THEOREM RegisteredNodesMeet ==
  ASSUME Patience
  PROVE  Nodes!DSpec =>
             /\ []MeetingInv
             /\ [](\A n, m \in Nodes!Live :
                      n # m /\ at[n] = "pausing" /\ at[m] = "pausing" => Acquainted(n, m))
<1>1. Nodes!DInit => AbsenceInv /\ MeetingInv
  BY Rounds DEF Nodes!DInit, Nodes!Init, AbsenceInv, Missing, MeetingInv, Nodes!Live, Nodes!Over
<1>2. Paced /\ Paced' /\ AbsenceInv /\ [Nodes!DNext]_(Nodes!vars) => AbsenceInv'
  BY AbsenceKeeps
<1>3. Paced /\ AbsenceInv /\ MeetingInv /\ [Nodes!DNext]_(Nodes!vars) => MeetingInv'
  BY MeetingKeeps
<1>4. MeetingInv => \A n, m \in Nodes!Live :
                        n # m /\ at[n] = "pausing" /\ at[m] = "pausing" => Acquainted(n, m)
  BY DEF MeetingInv, Underway
<1> QED BY <1>1, <1>2, <1>3, <1>4, PacedInductive, PTL DEF Nodes!DSpec

=============================================================================
