------------------------------- MODULE Reflex -------------------------------
(***************************************************************************)
(* How a node learns the address its router gives it, and how what it      *)
(* learns reaches the others (internal/peer/engine.go, pickExternal and    *)
(* nodeEndpoints of internal/app/session.go).                              *)
(*                                                                         *)
(* The router may move the node to another address at any time.  Three     *)
(* sources name the address they see: peers in their FrameAddr, the relay  *)
(* in its acknowledgement of a binding, STUN servers in their answers; the *)
(* word of each may be lost, or be late and come after a later one.  The   *)
(* engine wakes the registration through a channel of one place, which     *)
(* reads the sources, picks the address to announce first, and hands the   *)
(* list to the server and to the engine.  The timer of the registration is *)
(* left without fairness, so a lost wake-up shows.                         *)
(***************************************************************************)
EXTENDS Naturals, FiniteSets

CONSTANTS
    Servers,        \* STUN servers
    MaxMove,        \* bound: moves of the router
    MaxWord         \* bound: words on the way

ASSUME ReflexAssumption ==
    IsFiniteSet(Servers) /\ Servers # {} /\ MaxMove \in Nat /\ MaxWord \in Nat \ {0}

VARIABLES
    addr,           \* the address the router gives: how often it has moved
    stunExt,        \* the address STUN told before the engine was started, or None
    selfReflex, relayReflex, stunReflex,
    stunPending,    \* requests waited for: server, and the address it saw
    words,          \* answers on the way: who says it, and the address it saw
    untold,         \* a source has changed, reflexCh is not yet signalled
    reflexCh,       \* the signal of the engine, or the kick it becomes, hangs
    reading,        \* what nodeEndpoints has made of the sources; {} between rounds
    self,           \* s.selfEndpoint: the address announced first
    listed          \* the addresses announced, the engine's selfCands

engineVars == <<selfReflex, relayReflex, stunReflex, stunPending>>
sessionVars == <<reading, self, listed>>
vars == <<addr, stunExt, engineVars, words, untold, reflexCh, sessionVars>>

Addrs == 0..MaxMove
None == MaxMove + 1
Heard == Addrs \cup {None}
Requests == Servers \X Addrs
Words == ({"peer", "relay"} \cup Servers) \X Addrs
Choices == [ext : Heard, live : SUBSET Addrs]

TypeOK ==
    /\ addr \in Addrs /\ stunExt \in {0, None}
    /\ {selfReflex, relayReflex, stunReflex} \subseteq Heard
    /\ stunPending \subseteq Requests /\ Cardinality(stunPending) <= Cardinality(Servers)
    /\ words \subseteq Words /\ Cardinality(words) <= MaxWord
    /\ untold \in BOOLEAN /\ reflexCh \in BOOLEAN
    /\ reading \subseteq Choices /\ Cardinality(reading) <= 1
    /\ self \in Heard /\ listed \subseteq Addrs

(* DiscoverEndpointAny asks all servers at once from the socket of the node  *)
(* and takes the first answer: some server has answered in time, or none.    *)
DiscoverEndpointAny == \E answered \in SUBSET Servers :
                           stunExt = IF answered = {} THEN None ELSE addr

Init ==
    /\ addr = 0 /\ DiscoverEndpointAny
    /\ selfReflex = None /\ relayReflex = None /\ stunReflex = None
    /\ stunPending = {} /\ words = {}
    /\ untold = FALSE /\ reflexCh = FALSE
    /\ reading = {} /\ self = stunExt /\ listed = {}

-----------------------------------------------------------------------------
(* The router and the words of the three sources *)

Move ==
    /\ addr < MaxMove
    /\ addr' = addr + 1
    /\ UNCHANGED <<stunExt, engineVars, words, untold, reflexCh, sessionVars>>

(* Of what is sent any part may be lost; with MaxWord on the way, all of it. *)
Sent(new) == words' \in {words \cup w : w \in SUBSET new} /\ Cardinality(words') <= MaxWord

(* A peer that hears the node says where, at each of its rounds of gossip; *)
(* sendRelayBind, and the relay's acknowledgement.                         *)
Gossiped == Sent({<<"peer", addr>>})  /\ UNCHANGED <<addr, stunExt, engineVars, untold, reflexCh, sessionVars>>
Bound ==    Sent({<<"relay", addr>>}) /\ UNCHANGED <<addr, stunExt, engineVars, untold, reflexCh, sessionVars>>

(* Slip: the address is asked for until it is known. *)
ProbeOnce ==
    /\ stunReflex = None
    /\ stunPending' = Servers \X {addr}
    /\ Sent(Servers \X {addr})
    /\ UNCHANGED <<addr, stunExt, selfReflex, relayReflex, stunReflex, untold, reflexCh, sessionVars>>

(* probeSTUN: what was waited for at the last probe has timed out. *)
ProbeSTUN ==
    /\ stunPending' = Servers \X {addr}
    /\ Sent(Servers \X {addr})
    /\ UNCHANGED <<addr, stunExt, selfReflex, relayReflex, stunReflex, untold, reflexCh, sessionVars>>

-----------------------------------------------------------------------------
(* netToTun: what comes of a word.  Each of handleAddr, setRelayReflex and   *)
(* setStunReflex stores it under the lock and signals after it.              *)

Said(w) == ~untold /\ w \in words /\ words' = words \ {w}

Changed(old, new) == old # new

HandleAddr(a) ==
    /\ Said(<<"peer", a>>)
    /\ selfReflex' = a /\ untold' = Changed(selfReflex, a)
    /\ UNCHANGED <<addr, stunExt, relayReflex, stunReflex, stunPending, reflexCh, sessionVars>>

SetRelayReflex(a) ==
    /\ Said(<<"relay", a>>)
    /\ relayReflex' = a /\ untold' = Changed(relayReflex, a)
    /\ UNCHANGED <<addr, stunExt, selfReflex, stunReflex, stunPending, reflexCh, sessionVars>>

(* matchSTUN: the first answer that was waited for ends the wait. *)
MatchSTUN(v, a) ==
    /\ Said(<<v, a>>)
    /\ IF <<v, a>> \in stunPending
       THEN stunPending' = {} /\ stunReflex' = a /\ untold' = Changed(stunReflex, a)
       ELSE UNCHANGED <<stunPending, stunReflex, untold>>
    /\ UNCHANGED <<addr, stunExt, selfReflex, relayReflex, reflexCh, sessionVars>>

(* The signal: one that hangs is enough. *)
Notify ==
    /\ untold
    /\ untold' = FALSE /\ reflexCh' = TRUE
    /\ UNCHANGED <<addr, stunExt, engineVars, words, sessionVars>>

-----------------------------------------------------------------------------
(* nodeEndpoints, one round of the registration *)

LiveOnes == {selfReflex, relayReflex, stunReflex} \ {None}

FirstOf(live) ==
    IF stunReflex \in live THEN stunReflex
    ELSE IF relayReflex \in live THEN relayReflex
    ELSE IF selfReflex \in live THEN selfReflex ELSE stunExt

(* Slip: the address of the start sticks like the others. *)
PickSticky(cur, live) == IF cur \in live \cup {stunExt} THEN cur ELSE FirstOf(live)

(* pickExternal without a mapped port, which Endpoints has. *)
PickExternal(cur, live) == IF cur \in live THEN cur ELSE FirstOf(live)

ReadSources ==
    /\ reading = {}
    /\ reading' = {[ext |-> PickExternal(self, LiveOnes), live |-> LiveOnes]}
    /\ UNCHANGED <<addr, stunExt, engineVars, words, untold, self, listed>>

KickedRound == reflexCh /\ ReadSources /\ reflexCh' = FALSE
TimedRound == ReadSources /\ UNCHANGED reflexCh

Announced(r) ==
    /\ self' = r.ext
    /\ listed' = (r.live \cup {r.ext}) \ {None}
    /\ reading' = {}
    /\ UNCHANGED <<addr, stunExt, engineVars, words, untold>>

(* Slip: the signal is taken when the round is over. *)
AnnounceAndDrain == (\E r \in reading : Announced(r)) /\ reflexCh' = FALSE

Announce == (\E r \in reading : Announced(r)) /\ UNCHANGED reflexCh

-----------------------------------------------------------------------------
Next ==
    \/ Move \/ Gossiped \/ Bound \/ ProbeSTUN \/ Notify
    \/ \E a \in Addrs : HandleAddr(a) \/ SetRelayReflex(a) \/ \E v \in Servers : MatchSTUN(v, a)
    \/ KickedRound \/ TimedRound \/ Announce

Spec == Init /\ [][Next]_vars

(* The timers of maintenance go on, of what the relay and the servers of     *)
(* STUN are asked again and again something is answered, and what is under   *)
(* way comes or is forgotten.  Of peers nothing is assumed: none may be in   *)
(* reach of the node.                                                        *)
Fairness ==
    /\ WF_vars(Notify) /\ WF_vars(KickedRound) /\ WF_vars(Announce)
    /\ SF_vars(Bound /\ <<"relay", addr>> \in words')
    /\ SF_vars(ProbeSTUN /\ \E v \in Servers : <<v, addr>> \in words')
    /\ SF_vars(\E a \in Addrs : HandleAddr(a))
    /\ SF_vars(\E a \in Addrs : SetRelayReflex(a))
    /\ SF_vars(\E a \in Addrs, v \in Servers : MatchSTUN(v, a))

FairSpec == Spec /\ Fairness

-----------------------------------------------------------------------------
(* No news is lost between the goroutine that reads the socket, the channel  *)
(* of one place and the round of the registration: when none of them has     *)
(* anything to do, every address a source names is announced.                *)
NewsIsAnnounced ==
    ~untold /\ ~reflexCh /\ reading = {}
        => LiveOnes \subseteq listed

(* However the answers of several servers, late ones and those from before a *)
(* move overtake each other, the engine ends up with the address it has.     *)
SourcesConverge == <>[](relayReflex = addr /\ stunReflex = addr)

(* The address of the start and one that was overtaken do not stick as the   *)
(* one announced first: it is in the end the one the node has, unless the    *)
(* word of a peer is out of date for good.  Then it need not be: the comment *)
(* of pickExternal has that word expire with the connection, the code never  *)
(* withdraws it, and an address it names counts as live.                     *)
FirstFollows == <>[](selfReflex \in {addr, None}) => <>[](self = addr)
=============================================================================
