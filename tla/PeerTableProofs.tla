-------------------------- MODULE PeerTableProofs ---------------------------
(***************************************************************************)
(* Proofs about PeerTable for any tags, peers and bounds.  The invariant   *)
(* that is kept by every step says that refs counts the peerStates that    *)
(* hold a path (RefsExact), that all of those hold the path in e.paths     *)
(* (Shared) and are in the table of a network object (HoldersIn), that     *)
(* members of current networks hold one (LiveHeld), that an object not     *)
(* made yet holds nothing (Fresh, NotYetJoined), and that a table has one  *)
(* entry for a peer and one for an address (OneEach, Routed).              *)
(***************************************************************************)
EXTENDS PeerTable, FiniteSetTheorems, TLAPS

Shared == \A s \in PeerStates : pathOf[s] # 0 => pathOf[s] = paths[s[2]]
LiveHeld == \A s \in members : Live(s[1]) => pathOf[s] # 0
Fresh == \A s \in PeerStates :
            s[3] > made[s[1]][s[2]] => pathOf[s] = 0 /\ s \notin members
NotYetJoined ==
    /\ \A t \in Tags : joined[t] <= joins[t]
    /\ \A s \in members : s[1][2] <= joins[s[1][1]]
    /\ rd.at = "opened" => rd.net[2] <= joins[rd.net[1]]

HoldersIn == \A s \in PeerStates : pathOf[s] # 0 => s \in members
OneEach == \A s, r \in members : s[1] = r[1] /\ s[2] = r[2] => s = r
OtherSeen(s) ==
    \E q \in Peers \ {s[2]} : VirtualIP[q] = VirtualIP[s[2]] /\ made[s[1]][q] > 0
Routed ==
    /\ byIP \subseteq members
    /\ \A s, r \in byIP : SameEntry(r, s) => r = s
    /\ \A s \in members \ byIP : OtherSeen(s)

PathInv == RefsExact /\ Shared
EntryInv == OneEach /\ Routed
TableInv == LiveHeld /\ Fresh /\ NotYetJoined /\ HoldersIn /\ EntryInv
IndInv == TypeOK /\ PathInv /\ TableInv

-----------------------------------------------------------------------------
(* Sets *)

(* The parts of a peerState: its network object, its peer, its number. *)
LEMMA StateParts ==
  ASSUME NEW s \in PeerStates
  PROVE  /\ s[1] \in Nets /\ s[2] \in Peers /\ s[3] \in 1..MaxInc
         /\ s[1][1] \in Tags /\ s[1][2] \in 1..MaxJoin
         /\ s = <<s[1], s[2], s[3]>> /\ s[1] = <<s[1][1], s[1][2]>>
  BY DEF PeerStates, Nets

(* There are finitely many peerStates, so their number can be counted. *)
LEMMA PeerStatesFinite == IsFiniteSet(PeerStates)
<1>1. IsFiniteSet(1..MaxJoin) /\ IsFiniteSet(1..MaxInc)
  BY FS_Interval, BoundsAssumption
<1>2. IsFiniteSet(Nets)
  BY <1>1, FS_Product, FiniteAssumption DEF Nets
<1>3. IsFiniteSet(Nets \X Peers)
  BY <1>2, FS_Product, FiniteAssumption
<1>4. IsFiniteSet((Nets \X Peers) \X (1..MaxInc))
  BY <1>1, <1>3, FS_Product
<1> DEFINE f == [x \in (Nets \X Peers) \X (1..MaxInc) |-> <<x[1][1], x[1][2], x[2]>>]
<1>5. f \in Surjection((Nets \X Peers) \X (1..MaxInc), PeerStates)
  <2>1. f \in [(Nets \X Peers) \X (1..MaxInc) -> PeerStates]
    BY DEF PeerStates
  <2>2. ASSUME NEW s \in PeerStates
        PROVE \E x \in (Nets \X Peers) \X (1..MaxInc) : f[x] = s
    <3>1. <<<<s[1], s[2]>>, s[3]>> \in (Nets \X Peers) \X (1..MaxInc)
      BY StateParts
    <3>2. f[<<<<s[1], s[2]>>, s[3]>>] = s
      BY <3>1, StateParts
    <3> QED BY <3>1, <3>2
  <2> QED BY <2>1, <2>2 DEF Surjection
<1> QED BY <1>4, <1>5, FS_Surjection

(* What is left when G is taken out of H and N comes in. *)
LEMMA TakeOutPutIn ==
  ASSUME NEW H, NEW G, NEW N, IsFiniteSet(H), IsFiniteSet(N),
         G \subseteq H, N \cap H = {}
  PROVE  Cardinality((H \ G) \cup N) = Cardinality(H) + Cardinality(N) - Cardinality(G)
<1>1. IsFiniteSet(G) /\ IsFiniteSet(H \ G)
  BY FS_Subset
<1>2. Cardinality(G) \in Nat /\ Cardinality(H) \in Nat /\ Cardinality(N) \in Nat
      /\ Cardinality(H \ G) \in Nat
  BY <1>1, FS_CardinalityType
<1>3. H = (H \ G) \cup G /\ (H \ G) \cap G = {} /\ (H \ G) \cap N = {}
  OBVIOUS
<1>4. Cardinality({}) = 0
  BY FS_EmptySet
<1>5. Cardinality((H \ G) \cup G)
        = Cardinality(H \ G) + Cardinality(G) - Cardinality((H \ G) \cap G)
  BY <1>1, FS_Union
<1>6. Cardinality((H \ G) \cup N)
        = Cardinality(H \ G) + Cardinality(N) - Cardinality((H \ G) \cap N)
  BY <1>1, FS_Union
<1>7. Cardinality((H \ G) \cap G) = 0 /\ Cardinality((H \ G) \cap N) = 0
  BY <1>3, <1>4, Zenon
<1>8. Cardinality(H) = Cardinality((H \ G) \cup G)
  BY <1>3, Zenon
<1> QED BY <1>2, <1>5, <1>6, <1>7, <1>8

-----------------------------------------------------------------------------
(* Acquiring and releasing *)

(* Who holds a path after a step that acquires for new and releases gone. *)
LEMMA HoldersAfter ==
  ASSUME TypeOK, NEW new \in SUBSET PeerStates, NEW gone \in SUBSET PeerStates,
         Rebind(new, gone), \A s \in new : pathOf[s] = 0 /\ s \notin gone,
         NEW p \in Peers, NEW e \in Epochs
  PROVE  Holders(p, e)' = (Holders(p, e) \ {s \in gone : s[2] = p /\ pathOf[s] = e})
                            \cup {s \in new : s[2] = p /\ PathFor(p) = e}
<1>1. e # 0
  BY BoundsAssumption DEF Epochs
<1>2. \A s \in PeerStates : pathOf'[s] =
        IF s \in new THEN PathFor(s[2]) ELSE IF s \in gone THEN 0 ELSE pathOf[s]
  BY DEF Rebind
<1> QED BY <1>1, <1>2 DEF Holders

(* RefsAfter counts the peerStates that hold the path after the step. *)
LEMMA CountAfter ==
  ASSUME TypeOK, RefsExact, NEW new \in SUBSET PeerStates, NEW gone \in SUBSET PeerStates,
         Rebind(new, gone), \A s \in new : pathOf[s] = 0 /\ s \notin gone,
         NEW p \in Peers, NEW e \in Epochs
  PROVE  /\ RefsAfter(p, e, new, gone) = Cardinality(Holders(p, e)')
         /\ Cardinality(Holders(p, e)') \in Nat
         /\ IsFiniteSet(Holders(p, e)')
<1> DEFINE H == Holders(p, e)
           G == {s \in gone : s[2] = p /\ pathOf[s] = e}
           N == {s \in new : s[2] = p /\ PathFor(p) = e}
<1>1. IsFiniteSet(H) /\ IsFiniteSet(N) /\ IsFiniteSet(G)
  BY PeerStatesFinite, FS_Subset DEF Holders
<1>2. e # 0
  BY BoundsAssumption DEF Epochs
<1>3. G \subseteq H /\ N \cap H = {}
  BY <1>2 DEF Holders
<1>4. Holders(p, e)' = (H \ G) \cup N
  BY HoldersAfter
<1>5. IsFiniteSet((H \ G) \cup N)
  BY <1>1, FS_Subset, FS_Union
<1>6. refs[p][e] = Cardinality(H)
  BY DEF RefsExact
<1>7. RefsAfter(p, e, new, gone) = refs[p][e] + Cardinality(N) - Cardinality(G)
  BY DEF RefsAfter
<1> HIDE DEF H, G, N
<1>8. Cardinality((H \ G) \cup N) = Cardinality(H) + Cardinality(N) - Cardinality(G)
  BY <1>1, <1>3, TakeOutPutIn
<1> QED BY <1>4, <1>5, <1>6, <1>7, <1>8, FS_CardinalityType

(* Acquiring for peerStates that hold nothing, while releasing others of     *)
(* other peers, keeps the counts exact; a path held before and after is the  *)
(* same path.                                                                *)
LEMMA RebindKeeps ==
  ASSUME TypeOK, PathInv, NEW new \in SUBSET PeerStates, NEW gone \in SUBSET PeerStates,
         Rebind(new, gone), \A s \in new : pathOf[s] = 0 /\ s \notin gone,
         Ids(new) \cap Ids(gone) = {}
  PROVE  /\ pathOf' \in [PeerStates -> 0..MaxEpoch]
         /\ paths' \in [Peers -> 0..MaxEpoch] /\ epochs' \in [Peers -> 0..MaxEpoch]
         /\ refs' \in [Peers -> [Epochs -> Nat]]
         /\ PathInv'
         /\ \A s \in new : pathOf'[s] # 0
         /\ \A s \in PeerStates \ (new \cup gone) : pathOf'[s] = pathOf[s]
         /\ \A s \in gone : pathOf'[s] = 0
<1>1. \A s \in PeerStates : pathOf'[s] =
        IF s \in new THEN PathFor(s[2]) ELSE IF s \in gone THEN 0 ELSE pathOf[s]
  BY DEF Rebind
<1>2. \A s \in PeerStates : s[2] \in Peers
  BY StateParts
<1>3. \A s \in new : PathFor(s[2]) \in 1..MaxEpoch
  <2> SUFFICES ASSUME NEW s \in new PROVE PathFor(s[2]) \in 1..MaxEpoch
    OBVIOUS
  <2>1. PathFor(s[2]) <= MaxEpoch
    BY DEF Rebind, Ids
  <2>2. paths[s[2]] \in 0..MaxEpoch /\ epochs[s[2]] \in 0..MaxEpoch
    BY <1>2 DEF TypeOK
  <2> QED BY <2>1, <2>2, BoundsAssumption DEF PathFor
<1>4. \A s \in PeerStates : pathOf[s] \in 0..MaxEpoch
  BY DEF TypeOK
<1>5. pathOf' \in [PeerStates -> 0..MaxEpoch]
  <2>1. \A s \in PeerStates : pathOf'[s] \in 0..MaxEpoch
    BY <1>1, <1>3, <1>4, BoundsAssumption
  <2>2. pathOf' = [s \in PeerStates |-> pathOf'[s]]
    BY DEF Rebind
  <2> QED BY <2>1, <2>2
<1>6. \A p \in Peers : paths'[p] =
        IF p \in Ids(new) THEN PathFor(p) ELSE IF LastReleased(p, new, gone) THEN 0 ELSE paths[p]
  BY DEF Rebind
<1>7. \A p \in Ids(new) : PathFor(p) \in 1..MaxEpoch
  BY <1>3 DEF Ids
<1>8. paths' \in [Peers -> 0..MaxEpoch]
  <2>1. \A p \in Peers : paths'[p] \in 0..MaxEpoch
    BY <1>6, <1>7, BoundsAssumption DEF TypeOK
  <2>2. paths' = [p \in Peers |-> paths'[p]]
    BY DEF Rebind
  <2> QED BY <2>1, <2>2
<1>9. epochs' \in [Peers -> 0..MaxEpoch]
  <2>1. \A p \in Peers : epochs'[p] =
          IF p \in Ids(new) /\ paths[p] = 0 THEN epochs[p] + 1 ELSE epochs[p]
    BY DEF Rebind
  <2>2. \A p \in Peers : epochs'[p] \in 0..MaxEpoch
    BY <2>1, <1>7, BoundsAssumption DEF TypeOK, PathFor
  <2>3. epochs' = [p \in Peers |-> epochs'[p]]
    BY DEF Rebind
  <2> QED BY <2>2, <2>3
<1>10. \A p \in Peers, e \in Epochs : refs'[p][e] = Cardinality(Holders(p, e)')
                                       /\ Cardinality(Holders(p, e)') \in Nat
  BY CountAfter DEF Rebind, PathInv
<1>11. refs' \in [Peers -> [Epochs -> Nat]]
  <2>1. refs' = [p \in Peers |-> [e \in Epochs |-> refs'[p][e]]]
    BY DEF Rebind
  <2> QED BY <2>1, <1>10
<1>12. RefsExact'
  BY <1>10 DEF RefsExact
<1>13. Shared'
  <2> SUFFICES ASSUME NEW s \in PeerStates, pathOf'[s] # 0 PROVE pathOf'[s] = paths'[s[2]]
    BY DEF Shared
  <2>1. CASE s \in new
    BY <2>1, <1>1, <1>2, <1>6 DEF Ids
  <2>2. CASE s \notin new
    <3>1. s \notin gone /\ pathOf'[s] = pathOf[s] /\ pathOf[s] # 0
      BY <2>2, <1>1
    <3>2. pathOf[s] = paths[s[2]] /\ s[2] \in Peers
      BY <3>1, <1>2 DEF PathInv, Shared
    <3>3. CASE s[2] \in Ids(new)
      BY <3>1, <3>2, <3>3, <1>6 DEF PathFor
    <3>4. CASE s[2] \notin Ids(new) /\ LastReleased(s[2], new, gone)
      <4>1. PICK r \in gone : /\ r[2] = s[2] /\ pathOf[r] # 0
                              /\ RefsAfter(s[2], pathOf[r], new, gone) <= 0
        BY <3>4 DEF LastReleased
      <4>2. pathOf[r] = pathOf[s]
        BY <3>2, <4>1 DEF PathInv, Shared
      <4>3. PICK e \in Epochs : e = pathOf[s]
        BY <1>4, <3>1, BoundsAssumption DEF Epochs
      <4>4. s \in Holders(s[2], e)'
        BY <3>1, <4>3 DEF Holders
      <4>5. /\ RefsAfter(s[2], e, new, gone) = Cardinality(Holders(s[2], e)')
            /\ Cardinality(Holders(s[2], e)') \in Nat /\ IsFiniteSet(Holders(s[2], e)')
        BY <3>2, CountAfter DEF PathInv
      <4>6. Cardinality(Holders(s[2], e)') # 0
        BY <4>4, <4>5, FS_EmptySet
      <4> QED BY <4>1, <4>2, <4>3, <4>5, <4>6
    <3>5. CASE s[2] \notin Ids(new) /\ ~LastReleased(s[2], new, gone)
      BY <3>1, <3>2, <3>5, <1>6
    <3> QED BY <3>3, <3>4, <3>5
  <2> QED BY <2>1, <2>2
<1>14. \A s \in new : pathOf'[s] # 0
  BY <1>1, <1>3
<1>15. \A s \in PeerStates \ (new \cup gone) : pathOf'[s] = pathOf[s]
  BY <1>1
<1>16. \A s \in gone : pathOf'[s] = 0
  BY <1>1
<1> QED BY <1>5, <1>8, <1>9, <1>11, <1>12, <1>13, <1>14, <1>15, <1>16 DEF PathInv

-----------------------------------------------------------------------------
(* Tables *)

(* Entries made: numbers go up by one, so the new ones were never used.      *)
LEMMA EntriesMade ==
  ASSUME TypeOK, Fresh, NEW n \in Nets, NEW P \in SUBSET Peers,
         NEW gone \in SUBSET members, NEW written, SetEntries(NewIn(n, P), gone, written)
  PROVE  /\ NewIn(n, P) \subseteq PeerStates
         /\ \A s \in NewIn(n, P) : s[1] = n /\ s[2] \in P /\ pathOf[s] = 0 /\ s \notin members
         /\ made' \in [Nets -> [Peers -> 0..MaxInc]]
         /\ \A m \in Nets, p \in Peers : made'[m][p] >= made[m][p]
         /\ \A s \in NewIn(n, P) : s[3] = made'[s[1]][s[2]]
         /\ members' = (members \ gone) \cup NewIn(n, P)
<1> DEFINE new == NewIn(n, P)
<1>1. new \subseteq PeerStates
  BY DEF SetEntries
<1>2. \A s \in new : s[1] = n /\ s[2] \in P /\ s[3] = made[n][s[2]] + 1
  BY DEF NewIn
<1>3. \A m \in Nets, p \in Peers : made[m][p] \in 0..MaxInc
  BY DEF TypeOK
<1>4. \A s \in new : pathOf[s] = 0 /\ s \notin members
  <2> SUFFICES ASSUME NEW s \in new PROVE pathOf[s] = 0 /\ s \notin members
    OBVIOUS
  <2>1. s \in PeerStates /\ s[1] = n /\ s[2] \in Peers /\ s[3] = made[s[1]][s[2]] + 1
    BY <1>1, <1>2
  <2>2. s[3] > made[s[1]][s[2]]
    BY <1>3, <2>1
  <2> QED BY <2>1, <2>2 DEF Fresh
<1>5. \A m \in Nets, p \in Peers : made'[m][p] =
        IF \E s \in new : s[1] = m /\ s[2] = p THEN made[m][p] + 1 ELSE made[m][p]
  BY DEF SetEntries
<1>6. \A s \in new : s[3] = made'[s[1]][s[2]]
  <2> SUFFICES ASSUME NEW s \in new PROVE s[3] = made'[s[1]][s[2]]
    OBVIOUS
  <2>1. s[1] = n /\ s[2] \in Peers
    BY <1>2
  <2>2. made'[n][s[2]] = made[n][s[2]] + 1
    BY <1>5, <2>1
  <2> QED BY <1>2, <2>1, <2>2
<1>7. \A m \in Nets, p \in Peers : made'[m][p] >= made[m][p]
  BY <1>3, <1>5
<1>8. ASSUME NEW m \in Nets, NEW p \in Peers PROVE made'[m][p] \in 0..MaxInc
  <2>1. CASE \E s \in new : s[1] = m /\ s[2] = p
    <3>1. PICK s \in new : s[1] = m /\ s[2] = p
      BY <2>1
    <3>2. s[3] \in 1..MaxInc
      BY <1>1, StateParts
    <3> QED BY <1>6, <3>1, <3>2, BoundsAssumption
  <2>2. CASE ~\E s \in new : s[1] = m /\ s[2] = p
    BY <1>3, <1>5, <2>2
  <2> QED BY <2>1, <2>2
<1>9. made' = [m \in Nets |-> [p \in Peers |-> made'[m][p]]]
  BY DEF SetEntries
<1>10. made' \in [Nets -> [Peers -> 0..MaxInc]]
  BY <1>8, <1>9
<1> QED BY <1>1, <1>2, <1>4, <1>6, <1>7, <1>10 DEF SetEntries

(* One entry for a peer, and one for an address, are left by what is written *)
(* in any order and what is deleted by address after it.                     *)
LEMMA EntriesAfter ==
  ASSUME TypeOK, Fresh, EntryInv, NEW n \in Nets, NEW P \in SUBSET Peers,
         NEW gone \in SUBSET members, P \cap Ids(MembersOf(n)) = {},
         NEW written \in SUBSET ((members \ gone) \cup NewIn(n, P)),
         NewIn(n, P) \subseteq written, SetEntries(NewIn(n, P), gone, written)
  PROVE  EntryInv'
<1> DEFINE new == NewIn(n, P)
           Any == members \cup new
<1>1. /\ new \subseteq PeerStates
      /\ \A s \in new : s[1] = n /\ s[2] \in P /\ s \notin members
      /\ \A m \in Nets, p \in Peers : made'[m][p] >= made[m][p]
      /\ \A s \in new : s[3] = made'[s[1]][s[2]]
      /\ made' \in [Nets -> [Peers -> 0..MaxInc]]
      /\ members' = (members \ gone) \cup new
  <2>1. /\ NewIn(n, P) \subseteq PeerStates
        /\ \A s \in NewIn(n, P) : s[1] = n /\ s[2] \in P /\ pathOf[s] = 0 /\ s \notin members
        /\ made' \in [Nets -> [Peers -> 0..MaxInc]]
        /\ \A m \in Nets, p \in Peers : made'[m][p] >= made[m][p]
        /\ \A s \in NewIn(n, P) : s[3] = made'[s[1]][s[2]]
        /\ members' = (members \ gone) \cup NewIn(n, P)
    BY EntriesMade, ZenonT(60)
  <2> QED BY <2>1
<1>2. \A s, r \in new : s[2] = r[2] => s = r
  BY DEF NewIn
<1>3. PICK last \in LastWriters(written) :
        byIP' = {s \in (byIP \ written) \cup last :
                    /\ \A r \in gone : ~SameEntry(s, r)
                    /\ \A r \in last : SameEntry(s, r) => s = r}
  BY DEF SetEntries
<1>4. /\ last \subseteq written
      /\ \A s \in written : \E r \in last : \A q \in last : SameEntry(q, s) <=> q = r
  BY DEF LastWriters
<1>5. written \subseteq (members \ gone) \cup new /\ new \subseteq written
  OBVIOUS
<1>6. P \cap {r[2] : r \in {s \in members : s[1] = n}} = {}
  BY DEF Ids, MembersOf
<1> HIDE DEF new
<1>7. \A s, r \in Any : s[1] = r[1] /\ s[2] = r[2] => s = r
  BY <1>1, <1>2, <1>6 DEF EntryInv, OneEach
<1>8. \A s \in Any : s \in PeerStates /\ s[1] \in Nets /\ s[2] \in Peers /\ s[3] \in 1..MaxInc
  BY <1>1, StateParts DEF TypeOK
<1>9. \A s \in Any : made'[s[1]][s[2]] > 0
  <2> SUFFICES ASSUME NEW s \in Any PROVE made'[s[1]][s[2]] > 0
    OBVIOUS
  <2>1. made[s[1]][s[2]] \in Nat /\ made'[s[1]][s[2]] \in Nat
    BY <1>1, <1>8 DEF TypeOK
  <2>2. s \in members => ~(s[3] > made[s[1]][s[2]])
    BY <1>8 DEF Fresh
  <2>3. made'[s[1]][s[2]] >= made[s[1]][s[2]] /\ s[3] >= 1 /\ s[3] \in Nat
    BY <1>1, <1>8
  <2> QED BY <1>1, <2>1, <2>2, <2>3
<1>10. ASSUME NEW s \in Any, NEW r \in Any, r # s, SameEntry(s, r) PROVE OtherSeen(s)'
  <2>1. s[1] = r[1] /\ VirtualIP[s[2]] = VirtualIP[r[2]] /\ s[2] # r[2]
    BY <1>7, <1>10 DEF SameEntry
  <2> QED BY <2>1, <1>8, <1>9 DEF OtherSeen
<1>11. OneEach'
  BY <1>1, <1>7 DEF OneEach
<1>12. byIP' \subseteq members'
  <2> SUFFICES ASSUME NEW s \in byIP' PROVE s \in members'
    OBVIOUS
  <2>1. s \in byIP \cup last /\ \A r \in gone : ~SameEntry(s, r)
    BY <1>3
  <2>2. s \notin gone
    BY <2>1 DEF SameEntry
  <2> QED BY <2>1, <2>2, <1>1, <1>4, <1>5 DEF EntryInv, Routed
<1>13. ASSUME NEW s \in byIP', NEW r \in byIP', SameEntry(r, s) PROVE r = s
  <2>1. SameEntry(s, r)
    BY <1>13 DEF SameEntry
  <2>2. s \in last \/ s \in byIP
    BY <1>3
  <2>3. r \in last \/ r \in byIP
    BY <1>3
  <2>4. \A q \in last : (SameEntry(s, q) => s = q) /\ (SameEntry(r, q) => r = q)
    BY <1>3
  <2> QED BY <1>13, <2>1, <2>2, <2>3, <2>4 DEF EntryInv, Routed
<1>14. ASSUME NEW s \in members', s \notin byIP' PROVE OtherSeen(s)'
  <2>1. s \in Any /\ s \notin gone
    BY <1>1, <1>14
  <2>2. \A r \in gone \cup last : r \in Any
    BY <1>4, <1>5
  <2>3. CASE s \in written
    <3>1. PICK r \in last : \A q \in last : SameEntry(q, s) <=> q = r
      BY <1>4, <2>3
    <3>2. SameEntry(s, r)
      BY <3>1 DEF SameEntry
    <3>3. CASE r # s
      BY <1>10, <2>1, <2>2, <3>2, <3>3
    <3>4. CASE r = s
      <4>1. \A q \in last : SameEntry(s, q) => s = q
        BY <3>1, <3>4 DEF SameEntry
      <4>2. PICK q \in gone : SameEntry(s, q)
        BY <1>3, <1>14, <3>4, <4>1
      <4> QED BY <1>10, <2>1, <2>2, <4>2
    <3> QED BY <3>3, <3>4
  <2>4. CASE s \notin written /\ s \in byIP
    <3>1. \/ \E q \in gone : SameEntry(s, q)
          \/ \E q \in last : SameEntry(s, q) /\ s # q
      BY <1>3, <1>14, <2>4
    <3> QED BY <1>10, <2>1, <2>2, <3>1
  <2>5. CASE s \notin written /\ s \notin byIP
    <3>1. s \in members
      BY <1>1, <1>5, <2>5
    <3>2. PICK q \in Peers \ {s[2]} : VirtualIP[q] = VirtualIP[s[2]] /\ made[s[1]][q] > 0
      BY <2>5, <3>1 DEF EntryInv, Routed, OtherSeen
    <3>3. made'[s[1]][q] >= made[s[1]][q] /\ made[s[1]][q] \in Nat /\ made'[s[1]][q] \in Nat
      BY <1>1, <1>8, <2>1 DEF TypeOK
    <3>4. made'[s[1]][q] > 0
      BY <3>2, <3>3
    <3> QED BY <3>2, <3>4 DEF OtherSeen
  <2> QED BY <2>3, <2>4, <2>5
<1>15. Routed'
  BY <1>12, <1>13, <1>14 DEF Routed, SameEntry
<1> QED BY <1>11, <1>15 DEF EntryInv

(* What one handler does to peers and paths while the networks stay. *)
LEMMA PeersChange ==
  ASSUME IndInv, NEW n \in Nets, n[2] <= joins[n[1]], NEW P \in SUBSET Peers,
         NEW gone \in SUBSET members, P \cap Ids(gone) = {}, P \cap Ids(MembersOf(n)) = {},
         NEW written \in SUBSET ((members \ gone) \cup NewIn(n, P)),
         NewIn(n, P) \subseteq written,
         Rebind(NewIn(n, P), gone), SetEntries(NewIn(n, P), gone, written), UNCHANGED netVars
  PROVE  /\ members' \subseteq PeerStates /\ byIP' \subseteq PeerStates
         /\ made' \in [Nets -> [Peers -> 0..MaxInc]]
         /\ pathOf' \in [PeerStates -> 0..MaxEpoch]
         /\ paths' \in [Peers -> 0..MaxEpoch] /\ epochs' \in [Peers -> 0..MaxEpoch]
         /\ refs' \in [Peers -> [Epochs -> Nat]]
         /\ PathInv' /\ LiveHeld' /\ Fresh' /\ HoldersIn' /\ EntryInv'
         /\ \A s \in members' : s[1][2] <= joins'[s[1][1]]
<1> DEFINE new == NewIn(n, P)
<1>1. TypeOK /\ PathInv /\ LiveHeld /\ Fresh /\ NotYetJoined /\ HoldersIn /\ EntryInv
  BY DEF IndInv, TableInv
<1>2. members \subseteq PeerStates /\ gone \subseteq PeerStates
  BY <1>1 DEF TypeOK
<1>3. /\ new \subseteq PeerStates
      /\ \A s \in new : s[1] = n /\ s[2] \in P /\ pathOf[s] = 0 /\ s \notin members
      /\ made' \in [Nets -> [Peers -> 0..MaxInc]]
      /\ \A m \in Nets, p \in Peers : made'[m][p] >= made[m][p]
      /\ \A s \in new : s[3] = made'[s[1]][s[2]]
      /\ members' = (members \ gone) \cup new
  BY <1>1, EntriesMade
<1>4. \A s \in new : pathOf[s] = 0 /\ s \notin gone
  BY <1>3
<1>5. Ids(new) \cap Ids(gone) = {}
  BY <1>3 DEF Ids
<1>6. Rebind(new, gone) /\ new \in SUBSET PeerStates /\ gone \in SUBSET PeerStates
  BY <1>2, <1>3
<1> HIDE DEF new
<1>7. /\ pathOf' \in [PeerStates -> 0..MaxEpoch]
      /\ paths' \in [Peers -> 0..MaxEpoch] /\ epochs' \in [Peers -> 0..MaxEpoch]
      /\ refs' \in [Peers -> [Epochs -> Nat]]
      /\ PathInv'
      /\ \A s \in new : pathOf'[s] # 0
      /\ \A s \in PeerStates \ (new \cup gone) : pathOf'[s] = pathOf[s]
      /\ \A s \in gone : pathOf'[s] = 0
  BY <1>1, <1>4, <1>5, <1>6, RebindKeeps
<1>8. joined' = joined /\ joins' = joins
  BY DEF netVars
<1>9. LiveHeld'
  <2> SUFFICES ASSUME NEW s \in members', Live(s[1])' PROVE pathOf'[s] # 0
    BY DEF LiveHeld
  <2>1. Live(s[1])
    BY <1>8 DEF Live
  <2>2. CASE s \in new
    BY <2>2, <1>7
  <2>3. CASE s \in members \ gone
    BY <2>1, <2>3, <1>1, <1>2, <1>7 DEF LiveHeld
  <2> QED BY <2>2, <2>3, <1>3
<1>10. Fresh'
  <2> SUFFICES ASSUME NEW s \in PeerStates, s[3] > made'[s[1]][s[2]]
               PROVE pathOf'[s] = 0 /\ s \notin members'
    BY DEF Fresh
  <2>1. s[1] \in Nets /\ s[2] \in Peers /\ s[3] \in Nat
    BY StateParts
  <2>2. made[s[1]][s[2]] \in Nat /\ made'[s[1]][s[2]] \in Nat
    BY <2>1, <1>1, <1>3 DEF TypeOK
  <2>3. s[3] > made[s[1]][s[2]] /\ s[3] # made'[s[1]][s[2]]
    BY <2>1, <2>2, <1>3
  <2>4. s \notin new /\ pathOf[s] = 0 /\ s \notin members
    BY <2>3, <1>1, <1>3 DEF Fresh
  <2> QED BY <2>4, <1>3, <1>7
<1>11. \A s \in members' : s[1][2] <= joins'[s[1][1]]
  BY <1>1, <1>3, <1>8 DEF NotYetJoined
<1>12. HoldersIn'
  <2> SUFFICES ASSUME NEW s \in PeerStates, pathOf'[s] # 0 PROVE s \in members'
    BY DEF HoldersIn
  <2>1. CASE s \in new \/ s \in gone
    BY <2>1, <1>3, <1>7
  <2>2. CASE s \notin new /\ s \notin gone
    BY <2>2, <1>1, <1>3, <1>7 DEF HoldersIn
  <2> QED BY <2>1, <2>2
<1>13. EntryInv'
  BY <1>1, EntriesAfter DEF new
<1>14. byIP' \subseteq members'
  BY <1>13 DEF EntryInv, Routed
<1> QED BY <1>2, <1>3, <1>7, <1>9, <1>10, <1>11, <1>12, <1>13, <1>14

(* What netToTun holds once it has opened a frame. *)
LEMMA OpenedReader ==
  ASSUME rd \in ReaderStates, rd.at = "opened"
  PROVE  rd.net \in Nets /\ rd.from \in Peers
  BY DEF ReaderStates, Idle

(* What netToTun holds after it has credited a frame to a peerState. *)
LEMMA AfterFrameType ==
  ASSUME NEW s \in PeerStates
  PROVE  AfterFrame(s) \in ReaderStates /\ AfterFrame(s).at # "opened"
  BY DEF AfterFrame, ReaderStates, Idle

-----------------------------------------------------------------------------
(* The invariant *)

(* The invariant holds initially: no network, no peer, no path. *)
LEMMA InitInd == Init => IndInv
<1> SUFFICES ASSUME Init PROVE IndInv
  OBVIOUS
<1>1. TypeOK
  <2>1. 0 \in 0..MaxJoin /\ 0 \in 0..MaxInc /\ 0 \in 0..MaxEpoch /\ 0 \in Nat
    BY BoundsAssumption
  <2>2. made \in [Nets -> [Peers -> 0..MaxInc]]
    BY <2>1 DEF Init
  <2>3. refs \in [Peers -> [Epochs -> Nat]]
    BY <2>1 DEF Init
  <2>4. rd \in ReaderStates /\ td \subseteq PeerStates /\ panicked \in BOOLEAN
    BY DEF Init, ReaderStates
  <2> QED BY <2>1, <2>2, <2>3, <2>4 DEF Init, TypeOK
<1>2. Shared /\ LiveHeld /\ Fresh /\ HoldersIn /\ EntryInv
  BY DEF Init, Shared, LiveHeld, Fresh, HoldersIn, EntryInv, OneEach, Routed
<1>3. NotYetJoined
  BY DEF Init, NotYetJoined, Idle
<1>4. RefsExact
  <2> SUFFICES ASSUME NEW p \in Peers, NEW e \in Epochs
               PROVE refs[p][e] = Cardinality(Holders(p, e))
    BY DEF RefsExact
  <2>1. refs[p][e] = 0
    BY DEF Init
  <2>2. Holders(p, e) = {}
    BY DEF Init, Holders, Epochs
  <2> QED BY <2>1, <2>2, FS_EmptySet
<1> QED BY <1>1, <1>2, <1>3, <1>4 DEF IndInv, PathInv, TableInv

(* A step that touches neither networks nor tables nor paths. *)
LEMMA OnlyThreads ==
  ASSUME IndInv, UNCHANGED <<netVars, flagVars, tableVars, pathVars>>,
         rd' \in ReaderStates, td' \subseteq PeerStates, panicked' \in BOOLEAN,
         rd'.at = "opened" => rd'.net[2] <= joins[rd'.net[1]]
  PROVE  IndInv'
<1> USE DEF netVars, flagVars, tableVars, pathVars
<1>1. TypeOK'
  BY DEF IndInv, TypeOK
<1>2. RefsExact'
  BY DEF IndInv, PathInv, RefsExact, Holders
<1>3. Shared'
  BY DEF IndInv, PathInv, Shared
<1>4. LiveHeld' /\ Fresh' /\ HoldersIn'
  BY DEF IndInv, TableInv, LiveHeld, Fresh, Live, HoldersIn
<1>5. NotYetJoined' /\ EntryInv'
  BY DEF IndInv, TableInv, NotYetJoined, EntryInv, OneEach, Routed, OtherSeen, SameEntry
<1> QED BY <1>1, <1>2, <1>3, <1>4, <1>5 DEF IndInv, PathInv, TableInv

(* AddNetworkRelay keeps the invariant. *)
LEMMA AddNetworkInd == ASSUME IndInv, NEW t \in Tags, AddNetworkRelay(t) PROVE IndInv'
<1>1. TypeOK /\ PathInv /\ LiveHeld /\ Fresh /\ NotYetJoined /\ HoldersIn /\ EntryInv
  BY DEF IndInv, TableInv
<1>2. /\ joined[t] = 0 /\ joins[t] < MaxJoin
      /\ joins' = [joins EXCEPT ![t] = @ + 1]
      /\ joined' = [joined EXCEPT ![t] = joins[t] + 1]
      /\ UNCHANGED <<learned, absent, members, byIP, made, pathOf, paths, epochs, refs>>
      /\ UNCHANGED <<rd, td, panicked>>
  BY DEF AddNetworkRelay, flagVars, tableVars, pathVars, threadVars
<1>3. \A u \in Tags : joins[u] \in 0..MaxJoin /\ joined[u] \in 0..MaxJoin
  BY <1>1 DEF TypeOK
<1>4. TypeOK'
  <2>1. joins' \in [Tags -> 0..MaxJoin] /\ joined' \in [Tags -> 0..MaxJoin]
    BY <1>1, <1>2, <1>3, BoundsAssumption DEF TypeOK
  <2> QED BY <2>1, <1>1, <1>2 DEF TypeOK
<1>5. PathInv' /\ Fresh' /\ HoldersIn' /\ EntryInv'
  BY <1>1, <1>2 DEF PathInv, RefsExact, Holders, Shared, Fresh, HoldersIn, EntryInv, OneEach,
                    Routed, OtherSeen, SameEntry
<1>6. \A u \in Tags : joins[u] <= joins'[u] /\ joined'[u] <= joins'[u]
                        /\ (joined'[u] = joined[u] \/ joined'[u] > joins[u])
  BY <1>1, <1>2, <1>3 DEF NotYetJoined, TypeOK
<1>7. \A s \in members : /\ s \in PeerStates /\ s[1] \in Nets /\ s[1][1] \in Tags
                         /\ s[1][2] \in 1..MaxJoin
  BY <1>1, StateParts DEF TypeOK
<1>8. \A u \in Tags : joins'[u] \in Nat
  BY <1>4 DEF TypeOK
<1>9. LiveHeld'
  <2> SUFFICES ASSUME NEW s \in members, Live(s[1])' PROVE pathOf[s] # 0
    BY <1>2 DEF LiveHeld
  <2>1. joined'[s[1][1]] = s[1][2] /\ s[1][2] <= joins[s[1][1]]
    BY <1>1 DEF Live, NotYetJoined
  <2>2. joined[s[1][1]] = s[1][2]
    BY <2>1, <1>3, <1>6, <1>7
  <2> QED BY <2>2, <1>1 DEF LiveHeld, Live
<1>10. NotYetJoined'
  <2>1. \A s \in members' : s[1][2] <= joins'[s[1][1]]
    BY <1>1, <1>2, <1>3, <1>6, <1>7, <1>8 DEF NotYetJoined
  <2>2. ASSUME rd'.at = "opened" PROVE rd'.net[2] <= joins'[rd'.net[1]]
    <3>1. rd.net \in Nets /\ rd.net[2] <= joins[rd.net[1]]
      BY <2>2, <1>1, <1>2, OpenedReader DEF NotYetJoined, TypeOK
    <3>2. rd.net[1] \in Tags /\ rd.net[2] \in 1..MaxJoin
      BY <3>1 DEF Nets
    <3> QED BY <3>1, <3>2, <1>2, <1>3, <1>6, <1>8
  <2> QED BY <2>1, <2>2, <1>6 DEF NotYetJoined
<1> QED BY <1>4, <1>5, <1>9, <1>10 DEF IndInv, TableInv

(* RemoveNetwork keeps the invariant. *)
LEMMA RemoveNetworkInd == ASSUME IndInv, NEW t \in Tags, RemoveNetwork(t) PROVE IndInv'
<1> DEFINE n == <<t, joined[t]>>
           gone == MembersOf(n)
<1>1. TypeOK /\ PathInv /\ LiveHeld /\ Fresh /\ NotYetJoined /\ HoldersIn /\ EntryInv
  BY DEF IndInv, TableInv
<1>2. /\ joined[t] # 0 /\ Rebind({}, gone) /\ joined' = [joined EXCEPT ![t] = 0]
      /\ UNCHANGED <<joins, learned, absent, members, byIP, made, rd, td, panicked>>
  BY DEF RemoveNetwork, flagVars, tableVars, threadVars
<1>3. gone \subseteq members /\ members \subseteq PeerStates
  BY <1>1 DEF MembersOf, TypeOK
<1>4. \A u \in Tags : joins[u] \in 0..MaxJoin /\ joined[u] \in 0..MaxJoin
  BY <1>1 DEF TypeOK
<1>5. /\ pathOf' \in [PeerStates -> 0..MaxEpoch]
      /\ paths' \in [Peers -> 0..MaxEpoch] /\ epochs' \in [Peers -> 0..MaxEpoch]
      /\ refs' \in [Peers -> [Epochs -> Nat]]
      /\ PathInv'
      /\ \A s \in PeerStates \ gone : pathOf'[s] = pathOf[s]
      /\ \A s \in gone : pathOf'[s] = 0
  <2> DEFINE none == {}
  <2>1. none \in SUBSET PeerStates /\ gone \in SUBSET PeerStates
    BY <1>3
  <2>2. Ids(none) \cap Ids(gone) = {}
    BY DEF Ids
  <2>3. Rebind(none, gone)
    BY <1>2
  <2>4. none = {}
    OBVIOUS
  <2> HIDE DEF gone, none
  <2> QED BY <2>1, <2>2, <2>3, <2>4, <1>1, RebindKeeps
<1>6. TypeOK'
  <2>1. joined' \in [Tags -> 0..MaxJoin]
    BY <1>1, <1>2, BoundsAssumption DEF TypeOK
  <2> QED BY <2>1, <1>1, <1>2, <1>5 DEF TypeOK
<1>7. LiveHeld'
  <2> SUFFICES ASSUME NEW s \in members, Live(s[1])' PROVE pathOf'[s] # 0
    BY <1>2 DEF LiveHeld
  <2>1. s \in PeerStates /\ s[1][1] \in Tags /\ s[1][2] \in 1..MaxJoin
    BY <1>3, StateParts
  <2>2. joined'[s[1][1]] = s[1][2]
    BY DEF Live
  <2>3. s[1][1] # t
    BY <2>1, <2>2, <1>1, <1>2 DEF TypeOK
  <2>4. s[1] # n
    BY <2>3
  <2>5. s \notin gone /\ Live(s[1])
    BY <2>1, <2>2, <2>3, <2>4, <1>1, <1>2 DEF MembersOf, Live, TypeOK
  <2> QED BY <2>1, <2>5, <1>1, <1>5 DEF LiveHeld
<1>8. Fresh'
  BY <1>1, <1>2, <1>5 DEF Fresh
<1>9. NotYetJoined'
  <2>1. \A u \in Tags : joined'[u] <= joins[u]
    BY <1>1, <1>2, <1>4 DEF NotYetJoined, TypeOK
  <2> QED BY <2>1, <1>1, <1>2 DEF NotYetJoined
<1>10. HoldersIn' /\ EntryInv'
  BY <1>1, <1>2, <1>3, <1>5 DEF HoldersIn, EntryInv, OneEach, Routed, OtherSeen, SameEntry
<1> QED BY <1>5, <1>6, <1>7, <1>8, <1>9, <1>10 DEF IndInv, TableInv

(* SyncPeers keeps the invariant, whatever list it is given. *)
LEMMA SyncPeersInd ==
  ASSUME IndInv, NEW t \in Tags, NEW list \in SUBSET Peers, SyncPeers(t, list)
  PROVE  IndInv'
<1> DEFINE n == <<t, joined[t]>>
           here == MembersOf(n)
           listed == {s \in here : s[2] \in list}
           P == list \ Ids(here)
<1>1. TypeOK /\ NotYetJoined
  BY DEF IndInv, TableInv
<1>0. PICK quiet \in SUBSET (here \ (listed \cup learned)) :
        \E due \in SUBSET (quiet \cap absent) :
        /\ Rebind(NewIn(n, P), due) /\ SetEntries(NewIn(n, P), due, NewIn(n, P) \cup listed)
        /\ learned' = learned \ listed /\ absent' = ((absent \ listed) \cup quiet) \ due
  BY DEF SyncPeers
<1>2. PICK due \in SUBSET (quiet \cap absent) :
        /\ Rebind(NewIn(n, P), due) /\ SetEntries(NewIn(n, P), due, NewIn(n, P) \cup listed)
        /\ learned' = learned \ listed /\ absent' = ((absent \ listed) \cup quiet) \ due
  BY <1>0
<1>3. joined[t] # 0 /\ UNCHANGED <<netVars, threadVars>>
  BY DEF SyncPeers
<1>4. n \in Nets /\ n[1] = t /\ n[2] = joined[t] /\ n[2] <= joins[n[1]]
  BY <1>1, <1>3, BoundsAssumption DEF Nets, TypeOK, NotYetJoined
<1>5. /\ P \in SUBSET Peers /\ due \in SUBSET members /\ P \cap Ids(due) = {}
      /\ P \cap Ids(MembersOf(n)) = {} /\ listed \subseteq members /\ due \cap listed = {}
  BY DEF MembersOf, Ids
<1>6. quiet \subseteq PeerStates
  BY <1>1 DEF MembersOf, TypeOK
<1>7. /\ members' \subseteq PeerStates /\ byIP' \subseteq PeerStates
      /\ made' \in [Nets -> [Peers -> 0..MaxInc]]
      /\ pathOf' \in [PeerStates -> 0..MaxEpoch]
      /\ paths' \in [Peers -> 0..MaxEpoch] /\ epochs' \in [Peers -> 0..MaxEpoch]
      /\ refs' \in [Peers -> [Epochs -> Nat]]
      /\ PathInv' /\ LiveHeld' /\ Fresh' /\ HoldersIn' /\ EntryInv'
      /\ \A s \in members' : s[1][2] <= joins'[s[1][1]]
  <2>1. UNCHANGED netVars
    BY <1>3
  <2> DEFINE written == NewIn(n, P) \cup listed
  <2>2. Rebind(NewIn(n, P), due) /\ SetEntries(NewIn(n, P), due, written)
    BY <1>2
  <2>3. written \in SUBSET ((members \ due) \cup NewIn(n, P)) /\ NewIn(n, P) \subseteq written
    BY <1>5
  <2> HIDE DEF n, P, listed, written
  <2> QED BY <1>4, <1>5, <2>1, <2>2, <2>3, PeersChange
<1> HIDE DEF n, P, here, listed
<1>8. learned' \subseteq PeerStates /\ absent' \subseteq PeerStates
  BY <1>1, <1>2, <1>6 DEF TypeOK
<1>9. UNCHANGED <<joined, joins, rd, td, panicked>>
  BY <1>3 DEF netVars, threadVars
<1>10. TypeOK'
  BY <1>1, <1>7, <1>8, <1>9 DEF TypeOK
<1>11. NotYetJoined'
  BY <1>1, <1>7, <1>9 DEF NotYetJoined
<1> QED BY <1>7, <1>10, <1>11 DEF IndInv, TableInv

(* The expiry of learned peers keeps the invariant. *)
LEMMA MaintenanceInd == ASSUME IndInv, Maintenance PROVE IndInv'
<1>1. TypeOK /\ NotYetJoined
  BY DEF IndInv, TableInv
<1>2. PICK gone \in SUBSET {s \in members \cap learned : Live(s[1])} :
        /\ gone # {} /\ Rebind({}, gone) /\ SetEntries({}, gone, {})
        /\ learned' = learned \ gone /\ absent' = absent \ gone
        /\ UNCHANGED <<netVars, threadVars>>
  BY DEF Maintenance
<1>3. PICK r \in gone : TRUE
  BY <1>2
<1>4. PICK n \in Nets : n[2] <= joins[n[1]]
  BY <1>1, <1>3, StateParts DEF NotYetJoined, TypeOK
<1> DEFINE P == {}
<1>5. /\ members' \subseteq PeerStates /\ byIP' \subseteq PeerStates
      /\ made' \in [Nets -> [Peers -> 0..MaxInc]]
      /\ pathOf' \in [PeerStates -> 0..MaxEpoch]
      /\ paths' \in [Peers -> 0..MaxEpoch] /\ epochs' \in [Peers -> 0..MaxEpoch]
      /\ refs' \in [Peers -> [Epochs -> Nat]]
      /\ PathInv' /\ LiveHeld' /\ Fresh' /\ HoldersIn' /\ EntryInv'
      /\ \A s \in members' : s[1][2] <= joins'[s[1][1]]
  <2>1. NewIn(n, P) = {}
    BY DEF NewIn
  <2> DEFINE written == {}
  <2>2. Rebind(NewIn(n, P), gone) /\ SetEntries(NewIn(n, P), gone, written)
    BY <2>1, <1>2
  <2>3. /\ P \in SUBSET Peers /\ gone \in SUBSET members /\ P \cap Ids(gone) = {}
        /\ P \cap Ids(MembersOf(n)) = {}
        /\ written \in SUBSET ((members \ gone) \cup NewIn(n, P))
    OBVIOUS
  <2>4. UNCHANGED netVars /\ NewIn(n, P) \subseteq written
    BY <1>2, <2>1
  <2> HIDE DEF P, written
  <2> QED BY <1>4, <2>2, <2>3, <2>4, PeersChange
<1>6. learned' \subseteq PeerStates /\ absent' \subseteq PeerStates
  BY <1>1, <1>2 DEF TypeOK
<1>7. UNCHANGED <<joined, joins, rd, td, panicked>>
  BY <1>2 DEF netVars, threadVars
<1>8. TypeOK'
  BY <1>1, <1>5, <1>6, <1>7 DEF TypeOK
<1>9. NotYetJoined'
  BY <1>1, <1>5, <1>7 DEF NotYetJoined
<1> QED BY <1>5, <1>8, <1>9 DEF IndInv, TableInv

(* learnPeerLocked keeps the invariant, in a removed network too. *)
LEMMA ReceiveUnknownInd == ASSUME IndInv, ReceiveUnknown PROVE IndInv'
<1>1. TypeOK /\ NotYetJoined
  BY DEF IndInv, TableInv
<1>2. rd.at = "opened" /\ rd.from \notin Ids(MembersOf(rd.net)) /\ UNCHANGED <<netVars, td, panicked>>
  BY DEF ReceiveUnknown
<1>3. rd.net \in Nets /\ rd.from \in Peers /\ rd.net[2] <= joins[rd.net[1]]
  BY <1>1, <1>2, OpenedReader DEF TypeOK, NotYetJoined
<1> DEFINE n == rd.net
           P == {rd.from}
           new == NewIn(n, P)
<1>4. CASE /\ Rebind(new, {}) /\ SetEntries(new, {}, new) /\ learned' = learned \cup new
           /\ \E s \in new : rd' = AfterFrame(s)
           /\ UNCHANGED absent
  <2>1. /\ members' \subseteq PeerStates /\ byIP' \subseteq PeerStates
        /\ made' \in [Nets -> [Peers -> 0..MaxInc]]
        /\ pathOf' \in [PeerStates -> 0..MaxEpoch]
        /\ paths' \in [Peers -> 0..MaxEpoch] /\ epochs' \in [Peers -> 0..MaxEpoch]
        /\ refs' \in [Peers -> [Epochs -> Nat]]
        /\ PathInv' /\ LiveHeld' /\ Fresh' /\ HoldersIn' /\ EntryInv'
        /\ \A s \in members' : s[1][2] <= joins'[s[1][1]]
    <3> DEFINE none == {}
               written == new
    <3>1. /\ P \in SUBSET Peers /\ none \in SUBSET members /\ P \cap Ids(none) = {}
          /\ P \cap Ids(MembersOf(n)) = {}
      BY <1>2, <1>3 DEF Ids
    <3>2. Rebind(NewIn(n, P), none) /\ SetEntries(NewIn(n, P), none, written)
      BY <1>4
    <3>5. written \in SUBSET ((members \ none) \cup NewIn(n, P)) /\ NewIn(n, P) \subseteq written
      OBVIOUS
    <3>3. UNCHANGED netVars
      BY <1>2
    <3>4. n \in Nets /\ n[2] <= joins[n[1]]
      BY <1>3
    <3> HIDE DEF none, n, P, new, written
    <3> QED BY <3>1, <3>2, <3>3, <3>4, <3>5, PeersChange
  <2>2. new \subseteq PeerStates
    BY <1>4 DEF SetEntries
  <2> HIDE DEF new, n, P
  <2>3. learned' \subseteq PeerStates /\ absent' \subseteq PeerStates
    BY <1>1, <1>4, <2>2 DEF TypeOK
  <2>4. rd' \in ReaderStates /\ rd'.at # "opened"
    BY <1>4, <2>2, AfterFrameType
  <2>5. UNCHANGED <<joined, joins, td, panicked>>
    BY <1>2 DEF netVars
  <2>6. TypeOK'
    BY <1>1, <2>1, <2>3, <2>4, <2>5 DEF TypeOK
  <2>7. NotYetJoined'
    BY <1>1, <2>1, <2>4, <2>5 DEF NotYetJoined
  <2> QED BY <2>1, <2>6, <2>7 DEF IndInv, TableInv
<1>5. CASE rd' = Idle /\ UNCHANGED <<flagVars, tableVars, pathVars>>
  <2>1. rd' \in ReaderStates /\ rd'.at # "opened"
    BY <1>5 DEF ReaderStates, Idle
  <2>2. UNCHANGED <<netVars, flagVars, tableVars, pathVars>> /\ td' = td /\ panicked' = panicked
    BY <1>2, <1>5
  <2> QED BY <1>1, <2>1, <2>2, OnlyThreads DEF TypeOK
<1> QED BY <1>4, <1>5 DEF ReceiveUnknown

(* The steps of netToTun and tunToNet that change no table keep it. *)
LEMMA ThreadsInd ==
  ASSUME IndInv,
         \/ \E t \in Tags, p \in Peers, addr \in BOOLEAN : OpenFrame(t, p, addr)
         \/ DropFrame \/ ReceiveKnown \/ HandleAddr \/ LookUp \/ SendFrame \/ UNCHANGED vars
  PROVE  IndInv'
<1>1. TypeOK /\ NotYetJoined
  BY DEF IndInv, TableInv
<1>2. members \subseteq PeerStates /\ byIP \subseteq PeerStates /\ rd \in ReaderStates
      /\ td \subseteq PeerStates /\ panicked \in BOOLEAN
  BY <1>1 DEF TypeOK
<1>3. rd.at = "opened" => rd.net[2] <= joins[rd.net[1]]
  BY <1>1 DEF NotYetJoined
<1>4. ASSUME Panic PROVE IndInv'
  BY <1>2, <1>3, <1>4, OnlyThreads DEF Panic
<1>5. ASSUME NEW t \in Tags, NEW p \in Peers, NEW addr \in BOOLEAN, OpenFrame(t, p, addr)
      PROVE IndInv'
  <2>1. UNCHANGED <<netVars, flagVars, tableVars, pathVars>> /\ td' = td /\ panicked' = panicked
    BY <1>5 DEF OpenFrame
  <2>2. /\ rd' = [at |-> "opened", net |-> <<t, joined[t]>>, from |-> p, addr |-> addr]
        /\ joined[t] # 0
    BY <1>5 DEF OpenFrame
  <2>3. joined[t] \in 1..MaxJoin /\ joined[t] <= joins[t]
    BY <1>1, <2>2, BoundsAssumption DEF TypeOK, NotYetJoined
  <2>4. rd' \in ReaderStates
    BY <2>2, <2>3 DEF ReaderStates, Nets
  <2>5. rd'.net[2] <= joins[rd'.net[1]]
    BY <2>2, <2>3
  <2> QED BY <1>2, <2>1, <2>4, <2>5, OnlyThreads
<1>6. CASE ReceiveKnown
  <2>1. CASE ~Panic
    <3>1. PICK s \in MembersOf(rd.net) : rd' = AfterFrame(s)
      BY <1>6, <2>1 DEF ReceiveKnown
    <3>2. UNCHANGED <<netVars, flagVars, tableVars, pathVars>> /\ td' = td /\ panicked' = panicked
      BY <1>6, <2>1 DEF ReceiveKnown
    <3>3. rd' \in ReaderStates /\ rd'.at # "opened"
      BY <1>2, <3>1, AfterFrameType DEF MembersOf
    <3> QED BY <1>2, <3>2, <3>3, OnlyThreads
  <2> QED BY <1>4, <2>1
<1>7. CASE HandleAddr
  <2>1. CASE ~Panic
    <3>1. UNCHANGED <<netVars, flagVars, tableVars, pathVars>> /\ td' = td /\ panicked' = panicked
          /\ rd' = Idle
      BY <1>7, <2>1 DEF HandleAddr
    <3>2. rd' \in ReaderStates /\ rd'.at # "opened"
      BY <3>1 DEF ReaderStates, Idle
    <3> QED BY <1>2, <3>1, <3>2, OnlyThreads
  <2> QED BY <1>4, <2>1
<1>8. CASE LookUp
  <2>1. td' \subseteq PeerStates
    BY <1>2, <1>8 DEF LookUp
  <2>2. UNCHANGED <<netVars, flagVars, tableVars, pathVars>> /\ rd' = rd /\ panicked' = panicked
    BY <1>8 DEF LookUp
  <2> QED BY <1>2, <1>3, <2>1, <2>2, OnlyThreads
<1>9. CASE SendFrame
  <2>1. CASE ~Panic
    <3>1. UNCHANGED <<netVars, flagVars, tableVars, pathVars>> /\ rd' = rd /\ panicked' = panicked
          /\ td' = {}
      BY <1>9, <2>1 DEF SendFrame
    <3> QED BY <1>2, <1>3, <3>1, OnlyThreads
  <2> QED BY <1>4, <2>1
<1>10. CASE UNCHANGED vars
  <2>1. UNCHANGED <<netVars, flagVars, tableVars, pathVars>> /\ rd' = rd /\ td' = td
        /\ panicked' = panicked
    BY <1>10 DEF vars, threadVars
  <2> QED BY <1>2, <1>3, <2>1, OnlyThreads
<1>11. CASE DropFrame
  <2>1. UNCHANGED <<netVars, flagVars, tableVars, pathVars>> /\ td' = td /\ panicked' = panicked
        /\ rd' = Idle
    BY <1>11 DEF DropFrame
  <2>2. rd' \in ReaderStates /\ rd'.at # "opened"
    BY <2>1 DEF ReaderStates, Idle
  <2> QED BY <1>2, <2>1, <2>2, OnlyThreads
<1> QED BY <1>5, <1>6, <1>7, <1>8, <1>9, <1>10, <1>11

(* Every step keeps the invariant. *)
LEMMA StepInd == IndInv /\ [Next]_vars => IndInv'
<1> SUFFICES ASSUME IndInv, [Next]_vars PROVE IndInv'
  OBVIOUS
<1> QED BY AddNetworkInd, RemoveNetworkInd, SyncPeersInd, MaintenanceInd, ReceiveUnknownInd,
           ThreadsInd DEF Next

(* The invariant of the tables holds in every reachable state of the engine. *)
THEOREM Inductive == Spec => []IndInv
  BY InitInd, StepInd, PTL DEF Spec

-----------------------------------------------------------------------------
(* Type correctness of every reachable state. *)
THEOREM TypeCorrect == Spec => []TypeOK
<1>1. IndInv => TypeOK
  BY DEF IndInv
<1> QED BY Inductive, <1>1, PTL

(* acquirePath and releasePath keep refs equal to the number of peerStates   *)
(* holding the path, in every interleaving of handlers.                      *)
THEOREM CountsExact == Spec => []RefsExact
<1>1. IndInv => RefsExact
  BY DEF IndInv, PathInv
<1> QED BY Inductive, <1>1, PTL

(* Every peer of a current network holds the one path to that peer: no       *)
(* removal, expiry or signalling round of another network takes it away.     *)
THEOREM PathsLive == Spec => []LiveBacked
<1>1. IndInv => LiveBacked
  BY DEF IndInv, PathInv, TableInv, TypeOK, LiveBacked, LiveHeld, Shared
<1> QED BY Inductive, <1>1, PTL

(* The table by address against the table by PeerID, for any VirtualIP, be   *)
(* it injective or not: a route leads to a current member, the only one of   *)
(* its address, and a member lacks one only in a network where another peer  *)
(* of its address was seen.                                                  *)
THEOREM RoutesMatch == Spec => []RoutesAlive
<1>1. IndInv => RoutesAlive
  BY DEF IndInv, TableInv, EntryInv, Routed, OtherSeen, RoutesAlive, MembersOf
<1> QED BY Inductive, <1>1, PTL

(* What a step does to the paths: nothing, or it acquires for peerStates that *)
(* are made and releases those of other peers.                               *)
PathsChange(new, gone) ==
    /\ new \subseteq PeerStates /\ gone \subseteq PeerStates
    /\ Rebind(new, gone)
    /\ \A s \in new : pathOf[s] = 0 /\ s \notin gone
    /\ Ids(new) \cap Ids(gone) = {}

PathsStep == UNCHANGED pathVars \/ \E new, gone \in SUBSET PeerStates : PathsChange(new, gone)

(* Entries made and deleted by one handler are a change of the paths.        *)
LEMMA EntriesChangePaths ==
  ASSUME IndInv, NEW n \in Nets, NEW P \in SUBSET Peers, NEW gone \in SUBSET members,
         P \cap Ids(gone) = {}, NEW written,
         Rebind(NewIn(n, P), gone), SetEntries(NewIn(n, P), gone, written)
  PROVE  PathsChange(NewIn(n, P), gone)
<1>1. TypeOK /\ Fresh
  BY DEF IndInv, TableInv
<1>2. /\ NewIn(n, P) \subseteq PeerStates
      /\ \A s \in NewIn(n, P) : s[1] = n /\ s[2] \in P /\ pathOf[s] = 0 /\ s \notin members
  BY <1>1, EntriesMade
<1> HIDE DEF NewIn
<1> QED BY <1>1, <1>2 DEF PathsChange, Ids, TypeOK

(* Every step changes the paths so, or not at all.                           *)
LEMMA StepOfPaths ==
  ASSUME IndInv, [Next]_vars
  PROVE  PathsStep
<1>1. TypeOK /\ members \subseteq PeerStates
  BY DEF IndInv, TypeOK
<1>2. ASSUME NEW gone \in SUBSET members, Rebind({}, gone) PROVE PathsStep
  <2>1. PathsChange({}, gone)
    BY <1>1, <1>2 DEF PathsChange, Ids
  <2>2. {} \in SUBSET PeerStates /\ gone \in SUBSET PeerStates
    BY <1>1
  <2> QED BY <2>1, <2>2 DEF PathsStep
<1>3. ASSUME NEW n \in Nets, NEW P \in SUBSET Peers, NEW gone \in SUBSET members,
             P \cap Ids(gone) = {}, NEW written,
             Rebind(NewIn(n, P), gone), SetEntries(NewIn(n, P), gone, written)
      PROVE  PathsStep
  <2>1. PathsChange(NewIn(n, P), gone)
    BY <1>3, EntriesChangePaths
  <2> QED BY <2>1 DEF PathsChange, PathsStep
<1>4. ASSUME NEW t \in Tags, NEW list \in SUBSET Peers, SyncPeers(t, list) PROVE PathsStep
  <2> DEFINE n == <<t, joined[t]>>
             P == list \ Ids(MembersOf(n))
             listed == {s \in MembersOf(n) : s[2] \in list}
  <2>1. n \in Nets
    BY <1>1, <1>4, BoundsAssumption DEF SyncPeers, Nets, TypeOK
  <2>2. PICK due \in SUBSET MembersOf(n) :
          Rebind(NewIn(n, P), due) /\ SetEntries(NewIn(n, P), due, NewIn(n, P) \cup listed)
    BY <1>4 DEF SyncPeers
  <2>3. due \in SUBSET members /\ P \in SUBSET Peers /\ P \cap Ids(due) = {}
    BY DEF MembersOf, Ids
  <2> HIDE DEF n, P, listed
  <2> QED BY <2>1, <2>2, <2>3, <1>3
<1>5. CASE ReceiveUnknown
  <2>1. CASE UNCHANGED pathVars
    BY <2>1 DEF PathsStep
  <2>2. CASE /\ Rebind(NewIn(rd.net, {rd.from}), {})
             /\ SetEntries(NewIn(rd.net, {rd.from}), {}, NewIn(rd.net, {rd.from}))
    <3>1. rd.net \in Nets /\ rd.from \in Peers
      BY <1>1, <1>5, OpenedReader DEF ReceiveUnknown, TypeOK
    <3> DEFINE P == {rd.from}
               none == {}
    <3>2. P \in SUBSET Peers /\ none \in SUBSET members /\ P \cap Ids(none) = {}
      BY <3>1 DEF Ids
    <3>3. Rebind(NewIn(rd.net, P), none) /\ SetEntries(NewIn(rd.net, P), none, NewIn(rd.net, P))
      BY <2>2
    <3> HIDE DEF P, none
    <3> QED BY <3>1, <3>2, <3>3, <1>3
  <2> QED BY <1>5, <2>1, <2>2 DEF ReceiveUnknown
<1>6. CASE Maintenance
  <2>1. PICK gone \in SUBSET {s \in members \cap learned : Live(s[1])} : Rebind({}, gone)
    BY <1>6 DEF Maintenance
  <2>2. gone \in SUBSET members
    OBVIOUS
  <2> QED BY <1>2, <2>1, <2>2
<1>7. ASSUME NEW t \in Tags, RemoveNetwork(t) PROVE PathsStep
  BY <1>2, <1>7 DEF RemoveNetwork, MembersOf
<1>8. CASE UNCHANGED pathVars
  BY <1>8 DEF PathsStep
<1>9. ASSUME Panic PROVE UNCHANGED pathVars
  BY <1>9 DEF Panic
<1>10. CASE DropFrame \/ ReceiveKnown \/ HandleAddr \/ LookUp \/ SendFrame \/ UNCHANGED vars
  BY <1>8, <1>9, <1>10 DEF DropFrame, ReceiveKnown, HandleAddr, LookUp, SendFrame, vars
<1>11. ASSUME NEW t \in Tags, AddNetworkRelay(t) PROVE UNCHANGED pathVars
  BY <1>11 DEF AddNetworkRelay
<1>12. ASSUME NEW t \in Tags, NEW p \in Peers, NEW addr \in BOOLEAN, OpenFrame(t, p, addr)
       PROVE UNCHANGED pathVars
  BY <1>12 DEF OpenFrame
<1> QED BY <1>4, <1>5, <1>6, <1>7, <1>8, <1>10, <1>11, <1>12 DEF Next

(* A peerState that holds a path before and after a step holds the same one. *)
LEMMA SamePath ==
  ASSUME IndInv, [Next]_vars, NEW s \in PeerStates, pathOf[s] # 0, pathOf'[s] # 0
  PROVE  pathOf'[s] = pathOf[s]
<1>1. CASE UNCHANGED pathVars
  BY <1>1 DEF pathVars
<1>2. ASSUME NEW new, NEW gone, PathsChange(new, gone) PROVE pathOf'[s] = pathOf[s]
  BY <1>2 DEF PathsChange, Rebind
<1> QED BY <1>1, <1>2, StepOfPaths DEF PathsStep

(* The path to a peer stays the same object while one network keeps the      *)
(* peer, whatever the other networks do.                                     *)
THEOREM PathStays == Spec => PathKept
<1>1. ASSUME IndInv, IndInv', [Next]_vars, NEW s \in members,
             Live(s[1]), s \in members', Live(s[1])'
      PROVE  paths'[s[2]] = paths[s[2]]
  <2>1. s \in PeerStates
    BY <1>1 DEF IndInv, TypeOK
  <2>2. pathOf[s] # 0 /\ pathOf[s] = paths[s[2]]
    BY <1>1, <2>1 DEF IndInv, PathInv, TableInv, Shared, LiveHeld
  <2>3. pathOf'[s] # 0 /\ pathOf'[s] = paths'[s[2]]
    BY <1>1, <2>1 DEF IndInv, PathInv, TableInv, Shared, LiveHeld
  <2> QED BY <1>1, <2>1, <2>2, <2>3, SamePath
<1> DEFINE Kept == \A s \in members : Live(s[1]) /\ s \in members' /\ Live(s[1])'
                      => paths'[s[2]] = paths[s[2]]
<1>2. IndInv /\ IndInv' /\ [Next]_vars => [Kept]_vars
  BY <1>1
<1> QED BY Inductive, <1>2, PTL DEF Spec, PathKept

-----------------------------------------------------------------------------
(* Nothing is kept without a holder *)

(* The path in e.paths has a holder.                                         *)
Held == \A p \in Peers : paths[p] # 0 => Holders(p, paths[p]) # {}

(* releasePath takes the path out of e.paths with its last holder.           *)
LEMMA RebindHolds ==
  ASSUME TypeOK, PathInv, Held, NEW new, NEW gone, PathsChange(new, gone)
  PROVE  Held'
<1> SUFFICES ASSUME NEW p \in Peers, paths'[p] # 0
             PROVE  \E s \in PeerStates : s[2] = p /\ pathOf'[s] = paths'[p]
  BY DEF Held, Holders
<1>1. /\ new \in SUBSET PeerStates /\ gone \in SUBSET PeerStates /\ Rebind(new, gone)
      /\ \A s \in new : pathOf[s] = 0 /\ s \notin gone
  BY DEF PathsChange
<1>2. /\ paths'[p] = IF p \in Ids(new) THEN PathFor(p)
                     ELSE IF LastReleased(p, new, gone) THEN 0 ELSE paths[p]
      /\ \A s \in PeerStates : pathOf'[s] =
            IF s \in new THEN PathFor(s[2]) ELSE IF s \in gone THEN 0 ELSE pathOf[s]
  BY <1>1 DEF Rebind
<1>3. CASE p \in Ids(new)
  <2>1. PICK s \in new : s[2] = p
    BY <1>3 DEF Ids
  <2> QED BY <1>1, <1>2, <1>3, <2>1
<1>4. CASE p \notin Ids(new)
  <2>1. ~LastReleased(p, new, gone) /\ paths'[p] = paths[p]
    BY <1>2, <1>4
  <2>2. PICK s \in PeerStates : s[2] = p /\ pathOf[s] = paths[p]
    BY <2>1 DEF Held, Holders
  <2>3. CASE s \notin gone
    <3>1. s \notin new
      BY <1>4, <2>2 DEF Ids
    <3> QED BY <1>2, <2>1, <2>2, <2>3, <3>1
  <2>4. CASE s \in gone
    <3>1. paths[p] \in Epochs
      BY <2>1, BoundsAssumption DEF TypeOK, Epochs
    <3>2. ~(RefsAfter(p, paths[p], new, gone) <= 0)
      BY <2>1, <2>2, <2>4 DEF LastReleased
    <3>3. RefsAfter(p, paths[p], new, gone) = Cardinality(Holders(p, paths[p])')
      <4>1. ASSUME NEW e \in Epochs
            PROVE  RefsAfter(p, e, new, gone) = Cardinality(Holders(p, e)')
        BY <1>1, CountAfter DEF PathInv
      <4>2. \A e \in Epochs : Holders(p, e)' = {r \in PeerStates : r[2] = p /\ pathOf'[r] = e}
        BY DEF Holders
      <4>3. RefsAfter(p, paths[p], new, gone)
              = Cardinality({r \in PeerStates : r[2] = p /\ pathOf'[r] = paths[p]})
        BY <3>1, <4>1, <4>2
      <4>4. Holders(p, paths[p])' = {r \in PeerStates : r[2] = p /\ pathOf'[r] = paths'[p]}
        BY DEF Holders
      <4> QED BY <2>1, <4>3, <4>4
    <3>4. Holders(p, paths[p])' # {}
      BY <3>2, <3>3, FS_EmptySet
    <3> QED BY <3>4 DEF Holders
  <2> QED BY <2>3, <2>4
<1> QED BY <1>3, <1>4

(* Every step keeps it so.                                                   *)
LEMMA StepHolds == IndInv /\ Held /\ [Next]_vars => Held'
<1> SUFFICES ASSUME IndInv, Held, [Next]_vars PROVE Held'
  OBVIOUS
<1>1. CASE UNCHANGED pathVars
  BY <1>1 DEF pathVars, Held, Holders
<1>2. ASSUME NEW new, NEW gone, PathsChange(new, gone) PROVE Held'
  BY <1>2, RebindHolds DEF IndInv
<1> QED BY <1>1, <1>2, StepOfPaths DEF PathsStep

(* A path is in e.paths exactly as long as its counter is above zero.  That  *)
(* alone does not release it with the last network of the peer: a peerState  *)
(* of a removed network counts as well (LeakIsLate).                         *)
THEOREM PathsCounted ==
  Spec => [](\A p \in Peers, e \in Epochs : paths[p] = e <=> refs[p][e] > 0)
<1>1. Init => Held
  BY DEF Init, Held
<1>2. IndInv /\ Held /\ [Next]_vars => Held'
  BY StepHolds
<1>3. IndInv /\ Held => \A p \in Peers, e \in Epochs : paths[p] = e <=> refs[p][e] > 0
  <2> SUFFICES ASSUME IndInv, Held, NEW p \in Peers, NEW e \in Epochs
               PROVE  paths[p] = e <=> refs[p][e] > 0
    OBVIOUS
  <2>1. /\ refs[p][e] = Cardinality(Holders(p, e)) /\ refs[p][e] \in Nat
        /\ Shared /\ e # 0
    BY BoundsAssumption DEF IndInv, PathInv, RefsExact, TypeOK, Epochs
  <2>2. IsFiniteSet(Holders(p, e))
    BY PeerStatesFinite, FS_Subset DEF Holders
  <2>3. refs[p][e] > 0 <=> Holders(p, e) # {}
    BY <2>1, <2>2, FS_EmptySet
  <2>4. Holders(p, e) # {} => paths[p] = e
    BY <2>1 DEF Holders, Shared
  <2>5. paths[p] = e => Holders(p, e) # {}
    BY <2>1 DEF Held
  <2> QED BY <2>3, <2>4, <2>5
<1> QED BY Inductive, <1>1, <1>2, <1>3, PTL DEF Spec

-----------------------------------------------------------------------------
(* Paths that are never released *)

(* A peerState of a current network that is still in its table.              *)
InUse(s) == s \in members /\ Live(s[1])

(* It counts for a path although no table the node uses has it.              *)
Stray(s) == pathOf[s] # 0 /\ ~InUse(s)

(* netToTun teaches the sender to a network that was removed after the frame *)
(* was opened.                                                               *)
TaughtLate(s) == rd.at = "opened" /\ ~Live(rd.net) /\ s[1] = rd.net /\ s[2] = rd.from

(* What a step does to the members and paths of current networks.            *)
LEMMA StrayStep ==
  ASSUME IndInv, Next, NEW s \in PeerStates
  PROVE  /\ ~Stray(s) /\ Stray(s)' => TaughtLate(s)
         /\ Stray(s) => Stray(s)'
<1>1. TypeOK /\ NotYetJoined /\ HoldersIn /\ Fresh /\ members \subseteq PeerStates
  BY DEF IndInv, TableInv, TypeOK
<1>2. s[1][1] \in Tags /\ s[1][2] \in 1..MaxJoin /\ s[1] = <<s[1][1], s[1][2]>> /\ s[2] \in Peers
  BY StateParts
<1>3. \A t \in Tags : joined[t] \in 0..MaxJoin /\ joins[t] \in 0..MaxJoin
  BY <1>1 DEF TypeOK
<1>4. pathOf[s] # 0 => s \in members /\ s[1][2] <= joins[s[1][1]]
  BY <1>1 DEF HoldersIn, NotYetJoined
<1>5. CASE UNCHANGED <<netVars, tableVars, pathVars>>
  BY <1>5 DEF Stray, InUse, Live, netVars, tableVars, pathVars
<1>6. ASSUME NEW t \in Tags, AddNetworkRelay(t) PROVE Stray(s) <=> Stray(s)'
  <2>1. /\ joined[t] = 0 /\ joined' = [joined EXCEPT ![t] = joins[t] + 1]
        /\ pathOf' = pathOf /\ members' = members
    BY <1>6 DEF AddNetworkRelay, tableVars, pathVars
  <2>2. CASE s[1][1] = t
    <3>1. joined'[t] = joins[t] + 1
      BY <2>1, <1>1 DEF TypeOK
    <3>2. ~Live(s[1]) /\ (pathOf[s] # 0 => ~Live(s[1])')
      BY <1>2, <1>3, <1>4, <2>1, <2>2, <3>1 DEF Live
    <3> QED BY <2>1, <3>2 DEF Stray, InUse
  <2>3. CASE s[1][1] # t
    <3>1. joined'[s[1][1]] = joined[s[1][1]]
      BY <1>1, <1>2, <2>1, <2>3 DEF TypeOK
    <3> QED BY <2>1, <3>1 DEF Stray, InUse, Live
  <2> QED BY <2>2, <2>3
<1>7. ASSUME NEW t \in Tags, RemoveNetwork(t) PROVE Stray(s) <=> Stray(s)'
  <2> DEFINE n == <<t, joined[t]>>
  <2>1. /\ joined[t] # 0 /\ Rebind({}, MembersOf(n)) /\ joined' = [joined EXCEPT ![t] = 0]
        /\ members' = members
    BY <1>7 DEF RemoveNetwork, tableVars
  <2>2. pathOf'[s] = IF s \in MembersOf(n) THEN 0 ELSE pathOf[s]
    BY <2>1 DEF Rebind
  <2>3. CASE s[1][1] = t
    <3>1. joined'[s[1][1]] = 0 /\ ~Live(s[1])'
      BY <1>1, <1>2, <2>1, <2>3 DEF TypeOK, Live
    <3>2. Live(s[1]) => s[1] = n
      BY <1>2, <2>3 DEF Live
    <3>3. s[1] = n => Live(s[1])
      BY <1>2, <2>3 DEF Live
    <3>4. CASE s[1] = n
      <4>1. pathOf[s] # 0 => s \in MembersOf(n)
        BY <1>4, <3>4 DEF MembersOf
      <4> QED BY <1>4, <2>2, <3>1, <3>3, <3>4, <4>1 DEF Stray, InUse
    <3>5. CASE s[1] # n
      <4>1. s \notin MembersOf(n)
        BY <3>5 DEF MembersOf
      <4> QED BY <2>2, <3>1, <3>2, <3>5, <4>1 DEF Stray, InUse
    <3> QED BY <3>4, <3>5
  <2>4. CASE s[1][1] # t
    <3>1. joined'[s[1][1]] = joined[s[1][1]]
      BY <1>1, <1>2, <2>1, <2>4 DEF TypeOK
    <3>2. s \notin MembersOf(n)
      BY <1>2, <2>4 DEF MembersOf
    <3> QED BY <2>1, <2>2, <3>1, <3>2 DEF Stray, InUse, Live
  <2> QED BY <2>3, <2>4
<1>8. ASSUME NEW n \in Nets, NEW P \in SUBSET Peers, NEW gone \in SUBSET members, NEW written,
             \A r \in gone : Live(r[1]), UNCHANGED netVars,
             Rebind(NewIn(n, P), gone), SetEntries(NewIn(n, P), gone, written)
      PROVE  /\ ~Stray(s) /\ Stray(s)' => s \in NewIn(n, P) /\ ~Live(n)
             /\ Stray(s) => Stray(s)'
  <2>1. /\ \A r \in NewIn(n, P) : r[1] = n /\ pathOf[r] = 0
        /\ members' = (members \ gone) \cup NewIn(n, P)
    <3>1. TypeOK /\ Fresh /\ SetEntries(NewIn(n, P), gone, written)
      BY <1>1, <1>8
    <3> QED BY <3>1, EntriesMade, ZenonT(60)
  <2>2. pathOf'[s] = IF s \in NewIn(n, P) THEN PathFor(s[2]) ELSE IF s \in gone THEN 0 ELSE pathOf[s]
    BY <1>8 DEF Rebind
  <2>3. Live(s[1])' = Live(s[1]) /\ Live(n)' = Live(n)
    BY <1>8 DEF Live, netVars
  <2> HIDE DEF NewIn
  <2>4. CASE s \in NewIn(n, P)
    BY <2>1, <2>3, <2>4 DEF Stray, InUse
  <2>5. CASE s \notin NewIn(n, P) /\ s \in gone
    BY <1>8, <2>2, <2>5 DEF Stray, InUse
  <2>6. CASE s \notin NewIn(n, P) /\ s \notin gone
    BY <2>1, <2>2, <2>3, <2>6 DEF Stray, InUse
  <2> QED BY <2>4, <2>5, <2>6
<1>9. ASSUME NEW t \in Tags, NEW list \in SUBSET Peers, SyncPeers(t, list)
      PROVE  (Stray(s)' => Stray(s)) /\ (Stray(s) => Stray(s)')
  <2> DEFINE n == <<t, joined[t]>>
             P == list \ Ids(MembersOf(n))
             listed == {r \in MembersOf(n) : r[2] \in list}
  <2>1. n \in Nets /\ Live(n)
    BY <1>3, <1>9, BoundsAssumption DEF SyncPeers, Nets, Live
  <2>2. PICK due \in SUBSET MembersOf(n) :
          Rebind(NewIn(n, P), due) /\ SetEntries(NewIn(n, P), due, NewIn(n, P) \cup listed)
    BY <1>9 DEF SyncPeers
  <2>3. due \in SUBSET members /\ P \in SUBSET Peers /\ \A r \in due : Live(r[1])
    BY <2>1 DEF MembersOf
  <2>4. UNCHANGED netVars
    BY <1>9 DEF SyncPeers
  <2> HIDE DEF n, P, listed
  <2> QED BY <1>8, <2>1, <2>2, <2>3, <2>4
<1>10. CASE Maintenance
  <2>1. PICK gone \in SUBSET {r \in members \cap learned : Live(r[1])} :
          Rebind({}, gone) /\ SetEntries({}, gone, {}) /\ UNCHANGED netVars
    BY <1>10 DEF Maintenance
  <2>2. gone \in SUBSET members /\ \A r \in gone : Live(r[1])
    OBVIOUS
  <2> DEFINE P == {}
  <2>3. s[1] \in Nets /\ P \in SUBSET Peers /\ NewIn(s[1], P) = {}
    BY StateParts DEF NewIn
  <2>4. Rebind(NewIn(s[1], P), gone) /\ SetEntries(NewIn(s[1], P), gone, {})
    BY <2>1, <2>3
  <2> HIDE DEF P
  <2> QED BY <1>8, <2>1, <2>2, <2>3, <2>4
<1>11. CASE ReceiveUnknown
  <2>1. CASE UNCHANGED <<tableVars, pathVars>>
    <3>1. UNCHANGED <<netVars, tableVars, pathVars>>
      BY <1>11, <2>1 DEF ReceiveUnknown
    <3> QED BY <1>5, <3>1
  <2>2. CASE /\ Rebind(NewIn(rd.net, {rd.from}), {})
             /\ SetEntries(NewIn(rd.net, {rd.from}), {}, NewIn(rd.net, {rd.from}))
    <3>1. rd.net \in Nets /\ rd.from \in Peers /\ rd.at = "opened"
      BY <1>1, <1>11, OpenedReader DEF ReceiveUnknown, TypeOK
    <3> DEFINE P == {rd.from}
               none == {}
               n == rd.net
    <3>2. /\ P \in SUBSET Peers /\ none \in SUBSET members /\ \A r \in none : Live(r[1])
          /\ UNCHANGED netVars
      BY <1>11, <3>1 DEF ReceiveUnknown
    <3>3. Rebind(NewIn(n, P), none) /\ SetEntries(NewIn(n, P), none, NewIn(n, P))
      BY <2>2
    <3>4. s \in NewIn(n, P) => s[1] = rd.net /\ s[2] = rd.from
      BY DEF NewIn
    <3>5. n \in Nets
      BY <3>1
    <3> HIDE DEF P, none, n
    <3>6. /\ ~Stray(s) /\ Stray(s)' => s \in NewIn(n, P) /\ ~Live(n)
          /\ Stray(s) => Stray(s)'
      BY <1>8, <3>2, <3>3, <3>5
    <3> QED BY <3>1, <3>4, <3>6 DEF TaughtLate, n
  <2> QED BY <1>11, <2>1, <2>2 DEF ReceiveUnknown
<1>12. ASSUME Panic PROVE UNCHANGED <<netVars, tableVars, pathVars>>
  BY <1>12 DEF Panic
<1>13. CASE DropFrame \/ ReceiveKnown \/ HandleAddr \/ LookUp \/ SendFrame
  <2>1. UNCHANGED <<netVars, tableVars, pathVars>>
    BY <1>12, <1>13 DEF DropFrame, ReceiveKnown, HandleAddr, LookUp, SendFrame
  <2> QED BY <1>5, <2>1
<1>14. ASSUME NEW t \in Tags, NEW p \in Peers, NEW addr \in BOOLEAN, OpenFrame(t, p, addr)
       PROVE  (Stray(s)' => Stray(s)) /\ (Stray(s) => Stray(s)')
  <2>1. UNCHANGED <<netVars, tableVars, pathVars>>
    BY <1>14 DEF OpenFrame
  <2> QED BY <1>5, <2>1 DEF Stray, InUse, Live, netVars, tableVars, pathVars
<1> QED BY <1>6, <1>7, <1>9, <1>10, <1>11, <1>13, <1>14 DEF Next

(* "A path lives as long as SOME network has that peer" (type peerPath).     *)
(* The code breaks it in one way.                                            *)
PathOnlyInNetworks ==
    \A p \in Peers : paths[p] # 0 => \E s \in members : Live(s[1]) /\ s[2] = p

(* The only way to a path that outlives the networks of its peer, and what   *)
(* becomes of it: while nothing counts for a path from outside the tables in *)
(* use, a path lives no longer than some network has the peer; a step brings *)
(* such a peerState about only by teaching the sender of a frame to a        *)
(* network removed since the frame was opened; and no later step ever        *)
(* releases it.                                                              *)
THEOREM LeakIsLate ==
  Spec => /\ []((\A s \in PeerStates : ~Stray(s)) => PathOnlyInNetworks)
          /\ [][\A s \in PeerStates : ~Stray(s) /\ Stray(s)' => TaughtLate(s)]_vars
          /\ [][\A s \in PeerStates : Stray(s) => Stray(s)']_vars
<1>1. Init => Held
  BY DEF Init, Held
<1>2. IndInv /\ Held /\ [Next]_vars => Held'
  BY StepHolds
<1>3. IndInv /\ Held => ((\A s \in PeerStates : ~Stray(s)) => PathOnlyInNetworks)
  <2> SUFFICES ASSUME IndInv, Held, \A s \in PeerStates : ~Stray(s), NEW p \in Peers, paths[p] # 0
               PROVE  \E s \in members : Live(s[1]) /\ s[2] = p
    BY DEF PathOnlyInNetworks
  <2>1. PICK s \in PeerStates : s[2] = p /\ pathOf[s] = paths[p]
    BY DEF Held, Holders
  <2> QED BY <2>1 DEF Stray, InUse
<1>4. IndInv /\ [Next]_vars => [\A s \in PeerStates : ~Stray(s) /\ Stray(s)' => TaughtLate(s)]_vars
  BY StrayStep
<1>5. IndInv /\ [Next]_vars => [\A s \in PeerStates : Stray(s) => Stray(s)']_vars
  BY StrayStep
<1> QED BY Inductive, <1>1, <1>2, <1>3, <1>4, <1>5, PTL DEF Spec

-----------------------------------------------------------------------------
(* The nil path *)

(* A thread still holds what it looked up before it was removed.             *)
Outlived ==
    \/ rd.at = "opened" /\ ~Live(rd.net)
    \/ rd.at = "addr" /\ ~InUse(rd.ps)
    \/ \E s \in td : ~InUse(s)

(* The only way to the nil path that the run on NoNilPath finds: a handler   *)
(* between two critical sections holds a network that was removed meanwhile, *)
(* or a peerState that was.  While networks and peers stay, no frame, no     *)
(* signalling round and no expiry elsewhere makes the process panic.         *)
THEOREM PanicIsLate == Spec => [][~panicked /\ panicked' => Outlived]_vars
<1>1. ASSUME IndInv, Next, ~panicked, panicked' PROVE Outlived
  <2>1. LiveHeld /\ members \subseteq PeerStates
    BY <1>1 DEF IndInv, TableInv, TypeOK
  <2>2. ASSUME NEW s, pathOf[s] = 0 PROVE ~InUse(s)
    BY <2>1, <2>2 DEF InUse, LiveHeld
  <2>3. CASE ReceiveKnown
    <3>1. rd.at = "opened"
      BY <2>3 DEF ReceiveKnown
    <3>2. PICK s \in MembersOf(rd.net) : pathOf[s] = 0
      BY <1>1, <2>3 DEF ReceiveKnown
    <3>3. s \in members /\ s[1] = rd.net
      BY DEF MembersOf
    <3> QED BY <2>2, <3>1, <3>2, <3>3 DEF InUse, Outlived
  <2>4. CASE HandleAddr
    BY <1>1, <2>2, <2>4 DEF HandleAddr, Outlived
  <2>5. CASE SendFrame
    BY <1>1, <2>2, <2>5 DEF SendFrame, Outlived
  <2>6. ASSUME NEW t \in Tags, AddNetworkRelay(t) \/ RemoveNetwork(t) PROVE FALSE
    BY <1>1, <2>6 DEF AddNetworkRelay, RemoveNetwork, threadVars
  <2>7. ASSUME NEW t \in Tags, NEW list \in SUBSET Peers, SyncPeers(t, list) PROVE FALSE
    BY <1>1, <2>7 DEF SyncPeers, threadVars
  <2>8. CASE Maintenance
    BY <1>1, <2>8 DEF Maintenance, threadVars
  <2>9. ASSUME NEW t \in Tags, NEW p \in Peers, NEW addr \in BOOLEAN, OpenFrame(t, p, addr)
        PROVE  FALSE
    BY <1>1, <2>9 DEF OpenFrame
  <2>10. CASE DropFrame \/ ReceiveUnknown \/ LookUp
    BY <1>1, <2>10 DEF DropFrame, ReceiveUnknown, LookUp
  <2> QED BY <1>1, <2>3, <2>4, <2>5, <2>6, <2>7, <2>8, <2>9, <2>10 DEF Next
<1>2. IndInv /\ [Next]_vars => [~panicked /\ panicked' => Outlived]_vars
  BY <1>1
<1> QED BY Inductive, <1>2, PTL DEF Spec
=============================================================================
