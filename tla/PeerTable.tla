----------------------------- MODULE PeerTable ------------------------------
(***************************************************************************)
(* The tables of the engine (internal/peer/engine.go): networks, the peers *)
(* of each network, and the physical paths shared by all networks that     *)
(* have a peer in common.  A path lives by the count of the peerStates     *)
(* that point at it (acquirePath, releasePath).                            *)
(*                                                                         *)
(* Every handler takes e.mu for each of its steps, but netToTun keeps the  *)
(* *network it found, and tunToNet and FrameAddr the *peerState, from one  *)
(* critical section to the next.  Pointers are therefore the identity of   *)
(* an object, not its key: the k-th network made for a tag, the i-th       *)
(* peerState made for a peer in it, the e-th path made for a peer; 0 is    *)
(* nil.  A network stays reachable through such a pointer, with its        *)
(* members, after it has left e.nets.                                      *)
(*                                                                         *)
(* Time is left out: which silent peers a round of SyncPeers or a tick of  *)
(* maintenance drops is any set the code could drop at some moment.        *)
(* Peers excludes the node itself, whose frames and list entries every     *)
(* handler skips.  A virtual IP is 24 bits of a hash of the PeerID, with   *)
(* two values of the last octet moved to a third (proto.VirtualIP): peers  *)
(* may share one, and n.byIP has one entry for it.                         *)
(***************************************************************************)
EXTENDS Integers, FiniteSets

CONSTANTS
    Tags,           \* network tags
    Peers,          \* PeerIDs of other nodes
    VirtualIP,      \* per peer: its address, perhaps also another peer's
    MaxLearned,     \* maxLearnedPeers
    MaxJoin,        \* bound: network objects made for one tag
    MaxInc,         \* bound: peerStates made for a peer in one network object
    MaxEpoch        \* bound: paths made for one peer

ASSUME FiniteAssumption == IsFiniteSet(Tags) /\ IsFiniteSet(Peers)
ASSUME BoundsAssumption ==
    MaxLearned \in Nat /\ MaxJoin \in Nat /\ MaxInc \in Nat /\ MaxEpoch \in Nat

Nets == Tags \X (1..MaxJoin)                    \* *network
PeerStates == Nets \X Peers \X (1..MaxInc)      \* *peerState: its net, its id, a number
Epochs == 1..MaxEpoch                           \* *peerPath of a given peer

VARIABLES
    joined,     \* e.nets: per tag, number of the network object or 0
    joins,      \* per tag: network objects made so far
    members,    \* n.peers of every network object: the peerStates in them
    byIP,       \* n.byIP, likewise: the peerStates that have the entry of their address
    made,       \* per network object and peer: peerStates made so far
    learned,    \* peerStates with learned set
    absent,     \* peerStates with absentSince set
    pathOf,     \* ps.path: number of a path of that peer, or 0
    paths,      \* e.paths: per peer, number of its path or 0
    epochs,     \* per peer: paths made so far
    refs,       \* path.refs
    rd,         \* netToTun: what it holds between its critical sections
    td,         \* tunToNet: the peerState it looked up, if any (a set)
    panicked    \* a nil path was dereferenced: the process is gone

netVars == <<joined, joins>>
flagVars == <<learned, absent>>
tableVars == <<members, byIP, made>>
pathVars == <<pathOf, paths, epochs, refs>>
threadVars == <<rd, td, panicked>>
vars == <<netVars, flagVars, tableVars, pathVars, threadVars>>

Idle == [at |-> "idle"]
ReaderStates ==
    {Idle} \cup [at : {"opened"}, net : Nets, from : Peers, addr : BOOLEAN]
           \cup [at : {"addr"}, ps : PeerStates]

TypeOK ==
    /\ joined \in [Tags -> 0..MaxJoin] /\ joins \in [Tags -> 0..MaxJoin]
    /\ members \subseteq PeerStates /\ byIP \subseteq PeerStates
    /\ made \in [Nets -> [Peers -> 0..MaxInc]]
    /\ learned \subseteq PeerStates /\ absent \subseteq PeerStates
    /\ pathOf \in [PeerStates -> 0..MaxEpoch]
    /\ paths \in [Peers -> 0..MaxEpoch] /\ epochs \in [Peers -> 0..MaxEpoch]
    /\ refs \in [Peers -> [Epochs -> Nat]]
    /\ rd \in ReaderStates /\ td \subseteq PeerStates /\ panicked \in BOOLEAN

Init ==
    /\ joined = [t \in Tags |-> 0] /\ joins = [t \in Tags |-> 0]
    /\ members = {} /\ byIP = {} /\ learned = {} /\ absent = {}
    /\ made = [n \in Nets |-> [p \in Peers |-> 0]]
    /\ pathOf = [s \in PeerStates |-> 0]
    /\ paths = [p \in Peers |-> 0] /\ epochs = [p \in Peers |-> 0]
    /\ refs = [p \in Peers |-> [e \in Epochs |-> 0]]
    /\ rd = Idle /\ td = {} /\ panicked = FALSE

Live(n) == joined[n[1]] = n[2]
MembersOf(n) == {s \in members : s[1] = n}
Ids(S) == {s[2] : s \in S}

-----------------------------------------------------------------------------
(* acquirePath for the peerStates in new, releasePath for those in gone.  No *)
(* handler does both for the same peer.                                      *)

PathFor(p) == IF paths[p] = 0 THEN epochs[p] + 1 ELSE paths[p]

(* Slip: only the first network to know a peer counts. *)
RefsAfterFirst(p, e, new, gone) ==
    refs[p][e] + Cardinality({s \in new : s[2] = p /\ paths[p] = 0 /\ PathFor(p) = e})
               - Cardinality({s \in gone : s[2] = p /\ pathOf[s] = e})

RefsAfter(p, e, new, gone) ==
    refs[p][e] + Cardinality({s \in new : s[2] = p /\ PathFor(p) = e})
               - Cardinality({s \in gone : s[2] = p /\ pathOf[s] = e})

(* Slip: a peerState that goes takes the path with it, used elsewhere or not. *)
LastReleasedAny(p, new, gone) == \E s \in gone : s[2] = p /\ pathOf[s] # 0

LastReleased(p, new, gone) ==
    \E s \in gone : s[2] = p /\ pathOf[s] # 0 /\ RefsAfter(p, pathOf[s], new, gone) <= 0

Rebind(new, gone) ==
    /\ \A p \in Ids(new) : PathFor(p) <= MaxEpoch
    /\ pathOf' = [s \in PeerStates |->
            IF s \in new THEN PathFor(s[2]) ELSE IF s \in gone THEN 0 ELSE pathOf[s]]
    /\ refs' = [p \in Peers |-> [e \in Epochs |-> RefsAfter(p, e, new, gone)]]
    /\ paths' = [p \in Peers |->
            IF p \in Ids(new) THEN PathFor(p)
            ELSE IF LastReleased(p, new, gone) THEN 0 ELSE paths[p]]
    /\ epochs' = [p \in Peers |->
            IF p \in Ids(new) /\ paths[p] = 0 THEN epochs[p] + 1 ELSE epochs[p]]

(* Entries of n.peers and n.byIP made and deleted by one handler.            *)
NewIn(n, P) == {<<n, p, made[n][p] + 1>> : p \in P}

(* The two have one key in n.byIP. *)
SameEntry(s, r) == s[1] = r[1] /\ VirtualIP[s[2]] = VirtualIP[r[2]]

(* Who has the entries after each of written was put there, in some order.   *)
LastWriters(written) ==
    {last \in SUBSET written :
        \A s \in written : \E r \in last : \A q \in last : SameEntry(q, s) <=> q = r}

(* Slip: the entry by address stays behind. *)
SetEntriesPeersOnly(new, gone, written) ==
    /\ new \subseteq PeerStates
    /\ made' = [n \in Nets |-> [p \in Peers |->
            IF \E s \in new : s[1] = n /\ s[2] = p THEN made[n][p] + 1 ELSE made[n][p]]]
    /\ members' = (members \ gone) \cup new
    /\ byIP' = byIP \cup written

(* An entry is replaced, and deleted, by address: whoever has it loses it.   *)
SetEntries(new, gone, written) ==
    /\ new \subseteq PeerStates
    /\ made' = [n \in Nets |-> [p \in Peers |->
            IF \E s \in new : s[1] = n /\ s[2] = p THEN made[n][p] + 1 ELSE made[n][p]]]
    /\ members' = (members \ gone) \cup new
    /\ \E last \in LastWriters(written) :
        byIP' = {s \in (byIP \ written) \cup last :
                    /\ \A r \in gone : ~SameEntry(s, r)
                    /\ \A r \in last : SameEntry(s, r) => s = r}

-----------------------------------------------------------------------------
(* Calls of app.Session *)

(* For a tag already in e.nets the call only replaces key, name and flag. *)
AddNetworkRelay(t) ==
    /\ joined[t] = 0 /\ joins[t] < MaxJoin
    /\ joins' = [joins EXCEPT ![t] = @ + 1]
    /\ joined' = [joined EXCEPT ![t] = joins[t] + 1]
    /\ UNCHANGED <<flagVars, tableVars, pathVars, threadVars>>

(* The paths are released; the object keeps its members. *)
RemoveNetwork(t) ==
    /\ joined[t] # 0
    /\ Rebind({}, MembersOf(<<t, joined[t]>>))
    /\ joined' = [joined EXCEPT ![t] = 0]
    /\ UNCHANGED <<joins, flagVars, tableVars, threadVars>>

(* quiet: unlisted peers the signalling list owns and that have been silent  *)
(* for peerForget; due: those of them absent for peerForget as well.  The    *)
(* entry by address is written for every listed peer, known or not.          *)
SyncPeers(t, list) ==
    LET n == <<t, joined[t]>>
        here == MembersOf(n)
        listed == {s \in here : s[2] \in list}
        new == NewIn(n, list \ Ids(here))
    IN
    /\ joined[t] # 0
    /\ \E quiet \in SUBSET (here \ (listed \cup learned)) :
       \E due \in SUBSET (quiet \cap absent) :
            /\ Rebind(new, due)
            /\ SetEntries(new, due, new \cup listed)
            /\ learned' = learned \ listed
            /\ absent' = ((absent \ listed) \cup quiet) \ due
    /\ UNCHANGED <<netVars, threadVars>>

-----------------------------------------------------------------------------
(* maintenance: learned peers silent in their network for learnedExpire *)

Maintenance ==
    \E gone \in SUBSET {s \in members \cap learned : Live(s[1])} :
        /\ gone # {}
        /\ Rebind({}, gone)
        /\ SetEntries({}, gone, {})
        /\ learned' = learned \ gone /\ absent' = absent \ gone
        /\ UNCHANGED <<netVars, threadVars>>

-----------------------------------------------------------------------------
(* netToTun *)

(* A frame from p arrives; the snapshot of e.nets held the network whose key *)
(* opens it.  addr: the frame is a FrameAddr with candidates.                *)
OpenFrame(t, p, addr) ==
    /\ rd = Idle /\ joined[t] # 0
    /\ rd' = [at |-> "opened", net |-> <<t, joined[t]>>, from |-> p, addr |-> addr]
    /\ UNCHANGED <<netVars, flagVars, tableVars, pathVars, td, panicked>>

AfterFrame(s) == IF rd.addr THEN [at |-> "addr", ps |-> s] ELSE Idle

Panic ==
    /\ panicked' = TRUE
    /\ UNCHANGED <<netVars, flagVars, tableVars, pathVars, rd, td>>

(* A repeat, or a frame sent by relay into a network that must not use it. *)
DropFrame ==
    /\ rd.at = "opened"
    /\ rd' = Idle
    /\ UNCHANGED <<netVars, flagVars, tableVars, pathVars, td, panicked>>

(* nw.peers[senderID] has an entry: the frame is credited to ps.path. *)
ReceiveKnown ==
    /\ rd.at = "opened"
    /\ \E s \in MembersOf(rd.net) :
        /\ s[2] = rd.from
        /\ IF pathOf[s] = 0 THEN Panic
           ELSE /\ rd' = AfterFrame(s)
                /\ UNCHANGED <<netVars, flagVars, tableVars, pathVars, td, panicked>>

(* learnPeerLocked: the network object may have left e.nets meanwhile. *)
ReceiveUnknown ==
    /\ rd.at = "opened" /\ rd.from \notin Ids(MembersOf(rd.net))
    /\ \/ /\ Cardinality(MembersOf(rd.net) \cap learned) < MaxLearned
          /\ \E new \in {NewIn(rd.net, {rd.from})} :
                /\ Rebind(new, {})
                /\ SetEntries(new, {}, new)
                /\ learned' = learned \cup new
                /\ \E s \in new : rd' = AfterFrame(s)
          /\ UNCHANGED absent
       \/ /\ Cardinality(MembersOf(rd.net) \cap learned) >= MaxLearned
          /\ rd' = Idle
          /\ UNCHANGED <<flagVars, tableVars, pathVars>>
    /\ UNCHANGED <<netVars, td, panicked>>

(* handleAddr takes e.mu again and merges the candidates into ps.path. *)
HandleAddr ==
    /\ rd.at = "addr"
    /\ IF pathOf[rd.ps] = 0 THEN Panic
       ELSE /\ rd' = Idle
            /\ UNCHANGED <<netVars, flagVars, tableVars, pathVars, td, panicked>>

-----------------------------------------------------------------------------
(* tunToNet: look the destination up under RLock, then sendFrame *)

LookUp ==
    /\ td = {}
    /\ \E s \in byIP : Live(s[1]) /\ td' = {s}
    /\ UNCHANGED <<netVars, flagVars, tableVars, pathVars, rd, panicked>>

SendFrame ==
    \E s \in td :
        IF pathOf[s] = 0 THEN Panic
        ELSE /\ td' = {}
             /\ UNCHANGED <<netVars, flagVars, tableVars, pathVars, rd, panicked>>

Next ==
    /\ ~panicked
    /\ \/ \E t \in Tags : AddNetworkRelay(t) \/ RemoveNetwork(t)
       \/ \E t \in Tags, list \in SUBSET Peers : SyncPeers(t, list)
       \/ Maintenance
       \/ \E t \in Tags, p \in Peers, addr \in BOOLEAN : OpenFrame(t, p, addr)
       \/ DropFrame \/ ReceiveKnown \/ ReceiveUnknown \/ HandleAddr
       \/ LookUp \/ SendFrame

Spec == Init /\ [][Next]_vars

-----------------------------------------------------------------------------
Holders(p, e) == {s \in PeerStates : s[2] = p /\ pathOf[s] = e}

(* refs is exactly the number of peerStates that point at the path, whatever *)
(* mix of signalling rounds, frames, expiries and removals came before       *)
(* (acquirePath "once per peerState made", releasePath "once per one that    *)
(* goes").                                                                   *)
RefsExact == \A p \in Peers, e \in Epochs : refs[p][e] = Cardinality(Holders(p, e))

(* A peer of a network the node is in has a path, the one in e.paths: no     *)
(* other network's removal or expiry ever takes it away, and two networks    *)
(* never hold different paths to one peer.                                   *)
LiveBacked ==
    \A s \in members : Live(s[1]) => pathOf[s] # 0 /\ pathOf[s] = paths[s[2]]

(* In a network the node is in, an address leads to a current member of it,  *)
(* the only one with that address, whoever was forgotten or renewed since;   *)
(* and every member can be reached by address, unless another peer of its    *)
(* address was seen in that network (the collision VirtualIP accepts).       *)
RoutesAlive ==
    \A n \in Nets : Live(n) =>
        /\ \A s \in byIP : s[1] = n =>
                s \in members /\ \A r \in byIP : SameEntry(r, s) => r = s
        /\ \A s \in MembersOf(n) \ byIP : \E q \in Peers \ {s[2]} :
                VirtualIP[q] = VirtualIP[s[2]] /\ made[n][q] > 0

(* The path to a peer is never replaced while one network keeps the peer:    *)
(* leaving another network does not break the connection                     *)
(* (TestCharacterizationSamePeerInTwoNetworks, one interleaving of it).      *)
PathKept ==
    [][\A s \in members : Live(s[1]) /\ s \in members' /\ Live(s[1])'
            => paths'[s[2]] = paths[s[2]]]_vars

(* No handler dereferences the path of a peerState that was released: the    *)
(* networks are "added and removed on the fly" (type Engine).                *)
NoNilPath == ~panicked
=============================================================================
