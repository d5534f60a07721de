----------------------------- MODULE AntiReplay -----------------------------
(***************************************************************************)
(* Frame counters of one network, from seal() of the sending node to       *)
(* acceptCounter() of the receiving one (internal/peer/engine.go).         *)
(*                                                                         *)
(* Sender: a network object (type network) owns sendCtr, seeded with the   *)
(* wall clock when AddNetworkRelay creates it.  Several goroutines         *)
(* (tunToNet, netToTun, maintenance) pick the object under e.mu, then seal *)
(* and write without it, so their frames reach the socket in any order and *)
(* a goroutine may still seal with an object that was already replaced.    *)
(* Channel: UDP.  wire only grows: a frame may be delivered in any order,  *)
(* any number of times, or never.                                          *)
(* Receiver: the peerState that stands for the sender, with its window     *)
(* recvMax / recvBits; forgetting the peer discards the window.            *)
(***************************************************************************)
EXTENDS Naturals, FiniteSets

CONSTANTS
    Threads,    \* goroutines of the sending node
    Window,     \* width of recvBits: 64 in the code
    MaxGen,     \* bound: network objects the sender creates
    MaxClock    \* bound: reading of the sender's wall clock

ASSUME WindowAssumption == Window \in Nat \ {0}
ASSUME BoundsAssumption == MaxGen \in Nat \ {0} /\ MaxClock \in Nat \ {0}

VARIABLES
    clock,      \* time.Now().UnixNano() of the sender, scaled
    present,    \* is the tag in e.nets?
    gen,        \* the latest network object
    seed, ctr,  \* per object: first and current value of sendCtr
    holds,      \* per goroutine: the object it picked, 0 if none
    sealed,     \* per goroutine: frames sealed and not yet written
    wire,       \* frames written to the socket
    recvMax, recvBits,      \* peerState of the receiver
    accepted, delivered     \* what this peerState accepted: set and count

sendVars == <<clock, present, gen, seed, ctr, holds, sealed, wire>>
recvVars == <<recvMax, recvBits, accepted, delivered>>
vars == <<sendVars, recvVars>>

Gens == 1..MaxGen
Frame == [gen : Gens, by : Threads, ctr : Nat]
Offsets == 0..(Window - 1)

TypeOK ==
    /\ clock \in Nat /\ present \in BOOLEAN /\ gen \in Gens
    /\ seed \in [Gens -> Nat] /\ ctr \in [Gens -> Nat]
    /\ holds \in [Threads -> Gens \cup {0}]
    /\ sealed \in [Threads -> SUBSET Frame]
    /\ wire \subseteq Frame
    /\ recvMax \in Nat /\ recvBits \subseteq Offsets
    /\ accepted \subseteq Nat /\ delivered \in Nat

Init ==
    /\ clock = 1 /\ present = TRUE /\ gen = 1
    /\ seed = [g \in Gens |-> IF g = 1 THEN 1 ELSE 0] /\ ctr = seed
    /\ holds = [t \in Threads |-> 0] /\ sealed = [t \in Threads |-> {}]
    /\ wire = {}
    /\ recvMax = 0 /\ recvBits = {} /\ accepted = {} /\ delivered = 0

-----------------------------------------------------------------------------
(* The sending node *)

Tick ==
    /\ clock < MaxClock
    /\ clock' = clock + 1
    /\ UNCHANGED <<present, gen, seed, ctr, holds, sealed, wire, recvVars>>

(* Slip: sendCtr of a new object left at zero. *)
AddUnseeded ==
    /\ ~present /\ gen < MaxGen
    /\ present' = TRUE /\ gen' = gen + 1
    /\ seed' = [seed EXCEPT ![gen + 1] = 0] /\ ctr' = [ctr EXCEPT ![gen + 1] = 0]
    /\ UNCHANGED <<clock, holds, sealed, wire, recvVars>>

(* With the tag already in e.nets the call keeps the object and its counter. *)
AddNetworkRelay ==
    /\ ~present /\ gen < MaxGen
    /\ present' = TRUE /\ gen' = gen + 1
    /\ seed' = [seed EXCEPT ![gen + 1] = clock]
    /\ ctr' = [ctr EXCEPT ![gen + 1] = clock]
    /\ UNCHANGED <<clock, holds, sealed, wire, recvVars>>

RemoveNetwork ==
    /\ present
    /\ present' = FALSE
    /\ UNCHANGED <<clock, gen, seed, ctr, holds, sealed, wire, recvVars>>

(* The process dies: goroutines and frames not yet written go with it. *)
Crash ==
    /\ present' = FALSE
    /\ holds' = [t \in Threads |-> 0] /\ sealed' = [t \in Threads |-> {}]
    /\ UNCHANGED <<clock, gen, seed, ctr, wire, recvVars>>

Pick(t) ==
    /\ present /\ holds[t] = 0
    /\ holds' = [holds EXCEPT ![t] = gen]
    /\ UNCHANGED <<clock, present, gen, seed, ctr, sealed, wire, recvVars>>

(* Nanoseconds pass faster than frames are sealed: sendCtr stays below the *)
(* clock and, for a replaced object, below the seed of its successor.      *)
Horizon(g) == IF g < gen THEN seed[g + 1] ELSE clock

(* Slip: the counter is read and stored in two steps by two goroutines. *)
SealNonAtomic(t) ==
    LET g == holds[t] IN
    /\ g # 0 /\ sealed[t] = {} /\ ctr[g] < Horizon(g)
    /\ ctr' = [ctr EXCEPT ![g] = IF \E u \in Threads : sealed[u] # {} THEN @ ELSE @ + 1]
    /\ sealed' = [sealed EXCEPT ![t] = {[gen |-> g, by |-> t, ctr |-> ctr'[g]]}]
    /\ UNCHANGED <<clock, present, gen, seed, holds, wire, recvVars>>

(* n.sendCtr.Add(1) is atomic; the frame is written later. *)
Seal(t) ==
    LET g == holds[t] IN
    /\ g # 0 /\ sealed[t] = {} /\ ctr[g] < Horizon(g)
    /\ ctr' = [ctr EXCEPT ![g] = @ + 1]
    /\ sealed' = [sealed EXCEPT ![t] = {[gen |-> g, by |-> t, ctr |-> ctr[g] + 1]}]
    /\ UNCHANGED <<clock, present, gen, seed, holds, wire, recvVars>>

WriteFrame(t) ==
    /\ sealed[t] # {}
    /\ wire' = wire \cup sealed[t]
    /\ sealed' = [sealed EXCEPT ![t] = {}]
    /\ holds' = [holds EXCEPT ![t] = 0]
    /\ UNCHANGED <<clock, present, gen, seed, ctr, recvVars>>

-----------------------------------------------------------------------------
(* The receiving node: acceptCounter under e.mu.  A frame that fits neither *)
(* case is dropped and changes nothing.                                     *)

ShiftBits(bits, k) == {i + k : i \in bits} \cap Offsets

(* Slip: the far edge of the window is one too far. *)
InWindowWide(c) ==
    /\ c <= recvMax
    /\ recvMax - c <= Window
    /\ recvMax - c \notin recvBits

InWindow(c) ==
    /\ c <= recvMax
    /\ recvMax - c < Window
    /\ recvMax - c \notin recvBits

Acceptable(c) == c > recvMax \/ InWindow(c)

(* Slip: the mask is kept in place when the window slides. *)
SlideUnshifted(c) == c > recvMax /\ recvBits' = recvBits \cup {0} /\ recvMax' = c

Slide(c) ==
    /\ c > recvMax
    /\ recvBits' = ShiftBits(recvBits, c - recvMax) \cup {0}
    /\ recvMax' = c

(* Slip: the bit of an in-window frame is tested and never set. *)
MarkForgotten(c) == InWindow(c) /\ UNCHANGED <<recvBits, recvMax>>

Mark(c) ==
    /\ InWindow(c)
    /\ recvBits' = recvBits \cup {recvMax - c}
    /\ UNCHANGED recvMax

Deliver(f) ==
    /\ Slide(f.ctr) \/ Mark(f.ctr)
    /\ accepted' = accepted \cup {f.ctr}
    /\ delivered' = delivered + 1
    /\ UNCHANGED sendVars

(* The peer is dropped (SyncPeers, maintenance, RemoveNetwork of the         *)
(* receiver); the next frame makes a new peerState with an empty window.     *)
Forget ==
    /\ recvMax' = 0 /\ recvBits' = {} /\ accepted' = {} /\ delivered' = 0
    /\ UNCHANGED sendVars

Next ==
    \/ Tick \/ AddNetworkRelay \/ RemoveNetwork \/ Crash
    \/ \E t \in Threads : Pick(t) \/ Seal(t) \/ WriteFrame(t)
    \/ \E f \in wire : Deliver(f)
    \/ Forget

Spec == Init /\ [][Next]_vars

-----------------------------------------------------------------------------
Frames == wire \cup UNION {sealed[t] : t \in Threads}

(* Whatever UDP repeats or reorders, one peerState lets a counter through to *)
(* the TUN at most once (acceptCounter, "drop of a repeat").                 *)
AtMostOnce == delivered = Cardinality(accepted)

(* The window never rejects too much: a frame this peerState has not         *)
(* accepted and that is fewer than Window counters behind is still accepted, *)
(* however the frames before it were reordered.                              *)
NoFalseDrop ==
    \A f \in wire :
        (f.ctr \notin accepted /\ recvMax < f.ctr + Window) => Acceptable(f.ctr)

(* No two frames of a sender carry the same counter in a network, whichever  *)
(* goroutine sealed them and however often the node left, rejoined or was    *)
(* restarted (the atomic Add and the seed of sendCtr).                       *)
UniqueCounters == \A f, h \in Frames : f.ctr = h.ctr => f = h

(* A restarted sender is heard at once: a frame can only be too old for the  *)
(* window because of frames of its own network object or of a later one,     *)
(* never because of those sent before the restart (comment of sendCtr).      *)
RestartHeard ==
    \A f \in wire :
        f.ctr + Window <= recvMax => \E h \in wire : h.ctr = recvMax /\ h.gen >= f.gen

(* What the invariants above rest on.  The bits name exactly the accepted    *)
(* counters of the window, and nothing above recvMax was accepted.           *)
WindowExact ==
    /\ \A c \in accepted : c <= recvMax
    /\ recvBits = {i \in Offsets : i <= recvMax /\ recvMax - i \in accepted}
=============================================================================
