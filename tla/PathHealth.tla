----------------------------- MODULE PathHealth -----------------------------
(***************************************************************************)
(* What the engine believes about one remote peer as time passes           *)
(* (internal/peer/engine.go): its membership of each network, the freshness*)
(* of the one physical path all networks share, the way data goes          *)
(* (sendFrame), and when the peer is forgotten (SyncPeers by the           *)
(* signalling list, maintenance by silence).  netToTun opens a frame with  *)
(* the key of a network and credits it in a later critical section, which  *)
(* may find that network removed (PeerTable has all of its interleavings). *)
(*                                                                         *)
(* The unit of time is a tick of maintenance.  A moment in the past is     *)
(* kept as its age, Never for a zero time; ages stop growing at the        *)
(* largest threshold they are compared with.  The four thresholds keep     *)
(* the order they have in the code.                                        *)
(***************************************************************************)
EXTENDS Integers, FiniteSets

CONSTANTS
    Nets,           \* networks
    RelayNets,      \* those created with useRelay (usesRelay of their mode)
    SignalNets,     \* those discovered through signalling; the others use the DHT
    RelayGrace, PeerTimeout, PeerForget, LearnedExpire

ASSUME ModesAssumption == SignalNets \subseteq RelayNets /\ RelayNets \subseteq Nets
ASSUME ThresholdsAssumption ==
    /\ RelayGrace \in Nat /\ PeerTimeout \in Nat /\ PeerForget \in Nat /\ LearnedExpire \in Nat
    /\ 0 < RelayGrace /\ RelayGrace < PeerTimeout
    /\ PeerTimeout < PeerForget /\ PeerForget < LearnedExpire

VARIABLES
    joined,         \* networks this node is in
    peer,           \* per network: the peer's entry: "none", "listed" or "learned"
    netRecv,        \* per network: age of lastNetRecv
    absent,         \* per network: age of absentSince
    firstSeen,      \* age of path.firstSeen; Never when there is no path
    lastRecv,       \* age of path.lastRecv; path.active is set with it
    lastRelayRecv,  \* age of path.lastRelayRecv
    rd,             \* netToTun: the frame it has opened, if any
    stray,          \* a network removed under an opened frame holds the path, for ever
    peerIn,         \* the networks the peer itself is in
    registered,     \* the networks whose signalling servers know the peer
    unlisted        \* history: per network, age of the last answer that listed the peer

entryVars == <<peer, netRecv, absent, unlisted>>
pathVars == <<firstSeen, lastRecv, lastRelayRecv>>
envVars == <<peerIn, registered>>
readerVars == <<rd, stray>>
vars == <<joined, entryVars, pathVars, readerVars, envVars>>

Never == -1
Ages(cap) == {Never} \cup 0..cap
Older(age, cap) == IF age = Never THEN Never ELSE IF age < cap THEN age + 1 ELSE age
Within(age, limit) == age # Never /\ age < limit

(* held: the network of an opened frame is in e.nets still, or was removed,  *)
(* with or without an entry of the peer.                                     *)
Idle == [held |-> "idle"]
ReaderStates ==
    {Idle} \cup [held : {"live", "with", "without"}, net : Nets]

TypeOK ==
    /\ joined \subseteq Nets
    /\ peer \in [Nets -> {"none", "listed", "learned"}]
    /\ netRecv \in [Nets -> Ages(LearnedExpire)]
    /\ absent \in [Nets -> Ages(PeerForget)] /\ unlisted \in [Nets -> Ages(PeerForget)]
    /\ firstSeen \in Ages(LearnedExpire)
    /\ lastRecv \in Ages(PeerForget) /\ lastRelayRecv \in Ages(PeerForget)
    /\ rd \in ReaderStates /\ stray \in BOOLEAN
    /\ rd.held = "live" => rd.net \in joined
    /\ peerIn \subseteq Nets /\ registered \subseteq SignalNets
    /\ \A n \in Nets : peer[n] # "none" => n \in joined /\ firstSeen # Never
    /\ \A n \in Nets \ SignalNets : peer[n] # "listed"

Nothing == [n \in Nets |-> "none"]
NeverIn == [n \in Nets |-> Never]

Init ==
    /\ joined = {} /\ peer = Nothing
    /\ netRecv = NeverIn /\ absent = NeverIn /\ unlisted = NeverIn
    /\ firstSeen = Never /\ lastRecv = Never /\ lastRelayRecv = Never
    /\ rd = Idle /\ stray = FALSE
    /\ peerIn = {} /\ registered = {}

-----------------------------------------------------------------------------
(* Readings of the path *)

(* directAddr; maintenance and PeerViews make the same check.                *)
DirectAddr == Within(lastRecv, PeerTimeout)

(* Slip: the grace runs from the last direct frame, not from the path's start. *)
UsableRelayAnew ==
    IF lastRecv = Never THEN firstSeen >= RelayGrace ELSE lastRecv >= PeerTimeout + RelayGrace

UsableRelay == firstSeen # Never /\ firstSeen >= RelayGrace

LastHeard ==
    IF lastRecv = Never /\ lastRelayRecv = Never THEN firstSeen
    ELSE IF lastRecv = Never THEN lastRelayRecv
    ELSE IF lastRelayRecv = Never THEN lastRecv
    ELSE IF lastRecv <= lastRelayRecv THEN lastRecv ELSE lastRelayRecv

(* Slip: a member of the network for as long as the path lives. *)
LastHeardInAny(n) == LastHeard

LastHeardIn(n) == IF netRecv[n] # Never THEN netRecv[n] ELSE firstSeen

(* sendFrame and sendToAll: the way a frame of network n takes to the peer. *)
Way(n) ==
    IF DirectAddr THEN "direct"
    ELSE IF n \in RelayNets /\ UsableRelay THEN "relay"
    ELSE "dropped"

-----------------------------------------------------------------------------
(* Entries and the path they share *)

(* Slip: an entry that is made starts the path anew. *)
PathAfterFresh(entries, kept) ==
    IF entries = Nothing /\ ~kept THEN <<Never, Never, Never>>
    ELSE IF \E n \in Nets : peer[n] = "none" /\ entries[n] # "none" THEN <<0, Never, Never>>
    ELSE IF firstSeen = Never THEN <<0, Never, Never>>
    ELSE <<firstSeen, lastRecv, lastRelayRecv>>

(* acquirePath and releasePath: the path after the entries become those of   *)
(* entries, acquired by the first of them and deleted with the last, unless  *)
(* a removed network still counts for it.                                    *)
PathAfter(entries, kept) ==
    IF entries = Nothing /\ ~kept THEN <<Never, Never, Never>>
    ELSE IF firstSeen = Never THEN <<0, Never, Never>>
    ELSE <<firstSeen, lastRecv, lastRelayRecv>>

(* Ages kept in an entry go with it. *)
KeptAges(ages, entries) == [n \in Nets |-> IF entries[n] = "none" THEN Never ELSE ages[n]]

SetPath(p) == firstSeen' = p[1] /\ lastRecv' = p[2] /\ lastRelayRecv' = p[3]

AddNetworkRelay(n) ==
    /\ n \notin joined
    /\ joined' = joined \cup {n}
    /\ UNCHANGED <<entryVars, pathVars, readerVars, envVars>>

RemoveNetwork(n) ==
    LET entries == [peer EXCEPT ![n] = "none"] IN
    /\ n \in joined
    /\ joined' = joined \ {n}
    /\ peer' = entries /\ netRecv' = KeptAges(netRecv, entries)
    /\ absent' = KeptAges(absent, entries) /\ unlisted' = KeptAges(unlisted, entries)
    /\ SetPath(PathAfter(entries, stray))
    /\ rd' = IF rd.held = "live" /\ rd.net = n
              THEN [rd EXCEPT !.held = IF peer[n] = "none" THEN "without" ELSE "with"]
              ELSE rd
    /\ UNCHANGED <<stray, envVars>>

(* netToTun: a frame of the peer that network n's key opens.                 *)
OpenFrame(n) ==
    /\ rd = Idle
    /\ n \in joined \cap peerIn
    /\ rd' = [held |-> "live", net |-> n]
    /\ UNCHANGED <<joined, entryVars, pathVars, stray, envVars>>

(* A repeat, a stranger beyond maxLearnedPeers, or relayed to the wrong net. *)
DropFrame ==
    /\ rd # Idle
    /\ rd' = Idle
    /\ UNCHANGED <<joined, entryVars, pathVars, stray, envVars>>

(* The path p once a frame that came this way is credited to it: through the *)
(* relay it proves life, not the address.                                    *)
Credited(p, way) == IF way = "relay" THEN <<p[1], p[2], 0>> ELSE <<p[1], 0, p[3]>>

(* A network that must not use the relay drops what comes through it.  An    *)
(* unknown sender is learned.                                                *)
CreditFrame(way) ==
    LET n == rd.net
        entries == IF peer[n] = "none" THEN [peer EXCEPT ![n] = "learned"] ELSE peer
    IN
    /\ rd.held = "live"
    /\ way = "relay" => n \in RelayNets
    /\ peer' = entries
    /\ netRecv' = [netRecv EXCEPT ![n] = 0]
    /\ SetPath(Credited(PathAfter(entries, stray), way))
    /\ rd' = Idle
    /\ UNCHANGED <<joined, absent, unlisted, stray, envVars>>

(* Likewise in a network that was removed meanwhile: nothing releases the    *)
(* path of that entry any more.                                              *)
LearnStray(way) ==
    /\ rd.held = "without"
    /\ way = "relay" => rd.net \in RelayNets
    /\ SetPath(Credited(PathAfter(peer, TRUE), way))
    /\ rd' = Idle /\ stray' = TRUE
    /\ UNCHANGED <<joined, entryVars, envVars>>

(* A removed network that had the peer: its path is nil, the process ends,   *)
(* and the next one starts from nothing.                                     *)
Panic ==
    /\ rd.held = "with"
    /\ joined' = {} /\ peer' = Nothing
    /\ netRecv' = NeverIn /\ absent' = NeverIn /\ unlisted' = NeverIn
    /\ SetPath(<<Never, Never, Never>>)
    /\ rd' = Idle /\ stray' = FALSE
    /\ UNCHANGED envVars

EndFrame ==
    \/ DropFrame \/ Panic
    \/ \E way \in {"direct", "relay"} : CreditFrame(way) \/ LearnStray(way)

(* SyncPeers with an answer that lists the peer. *)
(* Slip: absentSince is not cleared. *)
SyncListedKeepsAbsent(n) ==
    LET entries == [peer EXCEPT ![n] = "listed"] IN
    /\ n \in joined \cap SignalNets \cap registered
    /\ peer' = entries /\ unlisted' = [unlisted EXCEPT ![n] = 0]
    /\ SetPath(PathAfter(entries, stray))
    /\ UNCHANGED <<joined, netRecv, absent, readerVars, envVars>>

SyncListed(n) ==
    LET entries == [peer EXCEPT ![n] = "listed"] IN
    /\ n \in joined \cap SignalNets \cap registered
    /\ peer' = entries /\ unlisted' = [unlisted EXCEPT ![n] = 0]
    /\ absent' = [absent EXCEPT ![n] = Never]
    /\ SetPath(PathAfter(entries, stray))
    /\ UNCHANGED <<joined, netRecv, readerVars, envVars>>

(* Slip: every answer without the peer starts the wait anew. *)
AbsentRestarted(n) == 0

(* absentSince after one more answer without the peer *)
AbsentAfterMiss(n) == IF absent[n] = Never THEN 0 ELSE absent[n]

(* SyncPeers with an answer that does not: a server may have lost its list.  *)
(* A peer that is heard, or that traffic taught us, is left alone.           *)
SyncUnlisted(n) ==
    LET entries == [peer EXCEPT ![n] = "none"] IN
    /\ n \in joined \cap SignalNets
    /\ peer[n] = "listed" /\ LastHeard >= PeerForget
    /\ \/ /\ absent[n] < PeerForget
          /\ absent' = [absent EXCEPT ![n] = AbsentAfterMiss(n)]
          /\ UNCHANGED <<peer, netRecv, unlisted, pathVars>>
       \/ /\ absent[n] >= PeerForget
          /\ peer' = entries /\ netRecv' = KeptAges(netRecv, entries)
          /\ absent' = KeptAges(absent, entries) /\ unlisted' = KeptAges(unlisted, entries)
          /\ SetPath(PathAfter(entries, stray))
    /\ UNCHANGED <<joined, readerVars, envVars>>

(* A tick: time passes and maintenance drops the learned peers that were     *)
(* silent in their network for learnedExpire.                                *)
Expired(n) == peer[n] = "learned" /\ Older(LastHeardIn(n), LearnedExpire) >= LearnedExpire

Maintenance ==
    LET entries == [n \in Nets |-> IF Expired(n) THEN "none" ELSE peer[n]]
        p == PathAfter(entries, stray)
        Aged(ages, cap) == [n \in Nets |-> Older(ages[n], cap)]
    IN
    /\ peer' = entries
    /\ netRecv' = KeptAges(Aged(netRecv, LearnedExpire), entries)
    /\ absent' = KeptAges(Aged(absent, PeerForget), entries)
    /\ unlisted' = KeptAges(Aged(unlisted, PeerForget), entries)
    /\ SetPath(<<Older(p[1], LearnedExpire), Older(p[2], PeerForget), Older(p[3], PeerForget)>>)
    /\ UNCHANGED <<joined, readerVars, envVars>>

-----------------------------------------------------------------------------
(* The peer and the servers *)

PeerMoves ==
    /\ \E n \in Nets :
        \/ peerIn' = (peerIn \cup {n}) \ (peerIn \cap {n}) /\ UNCHANGED registered
        \/ /\ n \in SignalNets
           /\ registered' = (registered \cup {n}) \ (registered \cap {n})
           /\ UNCHANGED peerIn
    /\ UNCHANGED <<joined, entryVars, pathVars, readerVars>>

(* A round of registerLoop that at least one server answered. *)
Round(n) == SyncListed(n) \/ SyncUnlisted(n)

Next ==
    \/ \E n \in Nets : AddNetworkRelay(n) \/ RemoveNetwork(n) \/ Round(n) \/ OpenFrame(n)
    \/ EndFrame
    \/ Maintenance
    \/ PeerMoves

Spec == Init /\ [][Next]_vars

(* The ticker keeps ticking, and signalling keeps being asked and answers    *)
(* from time to time.                                                        *)
Fairness == WF_vars(Maintenance) /\ \A n \in SignalNets : WF_vars(Round(n))
FairSpec == Spec /\ Fairness

-----------------------------------------------------------------------------
(* Data does not fall into a hole: whatever answers, frames, expiries and    *)
(* moves of other networks come, a network that may use the relay and has a  *)
(* way to the peer has one after the next step too, the relay at the very    *)
(* moment the direct address has gone stale; and the direct way is given up  *)
(* only after a silence of peerTimeout on it (the hole directAddr closes:    *)
(* "never once going over to the relay").                                    *)
WayHolds ==
    [][\A n \in Nets : peer[n] # "none" /\ peer'[n] # "none" =>
            /\ n \in RelayNets /\ Way(n) # "dropped" => Way(n)' # "dropped"
            /\ Way(n) = "direct" /\ Way(n)' # "direct" => lastRecv + 1 >= PeerTimeout]_vars

(* A peer known from traffic alone stays in a network only by frames of that *)
(* network, never by what is heard from it in another.                       *)
LearnedIsHeard == \A n \in Nets : peer[n] = "learned" => Within(netRecv[n], LearnedExpire)

(* Signalling makes a peer forgotten only if it was missing from every       *)
(* answer for peerForget and silent on every way for as long: one answer     *)
(* with an empty list never drops a live connection.                         *)
ForgottenWhenGone ==
    [][\A n \in Nets : peer[n] = "listed" /\ peer'[n] = "none" /\ n \in joined'
            => unlisted[n] >= PeerForget /\ LastHeard >= PeerForget]_vars

(* While some network keeps the peer, other networks coming and going lose   *)
(* neither the confirmed address nor the time spent punching.                *)
PathKeptWhole ==
    [][(\E n \in Nets : peer[n] # "none" /\ peer'[n] # "none") =>
            /\ lastRecv # Never => lastRecv' # Never
            /\ firstSeen' >= firstSeen]_vars

(* A peer that is gone from every network and every server's list for good   *)
(* is forgotten in the end by every network, and its path with it unless a   *)
(* frame taught the peer to a network that was removed under it.             *)
GoneIsForgotten ==
    <>[](peerIn = {} /\ registered = {}) =>
        <>[](peer = Nothing /\ (firstSeen = Never \/ stray))
=============================================================================
