------------------------------ MODULE Endpoints ------------------------------
(***************************************************************************)
(* The addresses a node announces (internal/app/session.go): a port mapped *)
(* on the router (internal/portmap) goes before what its engine learns of  *)
(* its own address (Reflex), and that before the answer of STUN at the     *)
(* start.                                                                  *)
(*                                                                         *)
(* A life is one bringUpNode to tearDownNode, with one network entered.    *)
(* Mapping runs beside it in two goroutines, the cascade (portmap.Run) and *)
(* portmapLoop, that outlive the node for as long as the router and the    *)
(* firewall need: then those of two lives run at once, and s.portmapGen    *)
(* tells the current one.  The registration loop reads the address and     *)
(* announces it when it is kicked; the timers that would make it look      *)
(* again anyway are left without fairness, so a lost kick shows.           *)
(***************************************************************************)
EXTENDS Naturals, FiniteSets

CONSTANTS
    MaxLife,        \* bound: lives of the node
    PortExts,       \* addresses the router may map
    Reflex,         \* what the engine's own sources name
    Frozen,         \* the answer of STUN at the start
    None

Exts == PortExts \cup {Reflex, Frozen, None}

ASSUME ExtsAssumption ==
    IsFiniteSet(PortExts) /\ Cardinality(Exts) = Cardinality(PortExts) + 3
ASSUME LifeAssumption == MaxLife \in Nat \ {0}

VARIABLES
    enabled,        \* s.portMapEnabled
    life, up,       \* lives begun; whether the last one goes on
    start,          \* where bringUpNode is: it has read the flag, or is through
    gen,            \* s.portmapGen: the life of the current mapping loop
    running,        \* s.portmapCancel # nil
    addr,           \* s.portmapAddr
    rule,           \* the inbound rule of the firewall: "none", "there", or "stuck":
                    \* there since netsh failed to take it away for a loop that ends
    cancelled,      \* lives whose mapping was asked to end
    cascade,        \* per life: the goroutine that talks to the router
    loop,           \* per life: portmapLoop
    offer,          \* per life: the mapping the cascade holds or hands over
    live,           \* a source of the engine has named an address
    self,           \* s.selfEndpoint: the address announced first
    reg             \* the registration loop of this life

nodeVars == <<enabled, life, up, start>>
stateVars == <<gen, running, addr>>
mapVars == <<cascade, loop, offer, cancelled>>
vars == <<nodeVars, stateVars, rule, mapVars, live, self, reg>>

Lives == 1..MaxLife
Over(l) == l < life \/ ~up      \* nodeStop is closed
NoReg == [at |-> "none", kick |-> FALSE, port |-> None]

TypeOK ==
    /\ enabled \in BOOLEAN /\ up \in BOOLEAN /\ running \in BOOLEAN /\ rule \in {"none", "there", "stuck"}
    /\ life \in 0..MaxLife /\ gen \in 0..life
    /\ start \in {"none", "map", "bare"}
    /\ cancelled \subseteq Lives
    /\ cascade \in [Lives -> {"none", "trying", "offering", "holding", "closed"}]
    /\ loop \in [Lives -> {"none", "waiting", "allowing", "writing", "kicking",
                           "clearing", "leaving", "done"}]
    /\ addr \in PortExts \cup {None}
    /\ offer \in [Lives -> PortExts \cup {None}]
    /\ live \in BOOLEAN
    /\ self \in Exts
    /\ reg \in [at : {"none", "ready", "reading", "pausing"},
                kick : BOOLEAN,                     \* ns.kick, a channel of one place
                port : PortExts \cup {None}]        \* what nodeEndpoints has read

Init ==
    /\ enabled = TRUE
    /\ life = 0 /\ up = FALSE /\ start = "none"
    /\ gen = 0 /\ running = FALSE /\ addr = None
    /\ rule = "none"
    /\ cancelled = {}
    /\ cascade = [l \in Lives |-> "none"] /\ loop = [l \in Lives |-> "none"]
    /\ offer = [l \in Lives |-> None]
    /\ live = FALSE /\ self = None /\ reg = NoReg

(* wakeRegistration: every network entered is kicked, unless it is already. *)
Kicked == [reg EXCEPT !.kick = @ \/ reg.at # "none"]

-----------------------------------------------------------------------------
(* The node: bringUpNode, the entry of its network, tearDownNode; opMu keeps *)
(* them apart.  SetPortMap comes when it likes, also after bringUpNode has   *)
(* read the flag: then there is no loop to cancel yet.                       *)

BringUpNode ==
    /\ ~up /\ life < MaxLife
    /\ life' = life + 1 /\ up' = TRUE
    /\ start' = IF enabled THEN "map" ELSE "bare"
    /\ live' = FALSE
    /\ self' = Frozen
    /\ UNCHANGED <<enabled, stateVars, rule, mapVars, reg>>

StartPortMap ==
    /\ start = "map"
    /\ gen' = life /\ running' = TRUE
    /\ cascade' = [cascade EXCEPT ![life] = "trying"]
    /\ loop' = [loop EXCEPT ![life] = "waiting"]
    /\ start' = "bare"
    /\ UNCHANGED <<enabled, life, up, addr, rule, offer, cancelled, live, self, reg>>

EnterNetwork ==
    /\ start = "bare"
    /\ reg' = [NoReg EXCEPT !.at = "ready"]
    /\ start' = "none"
    /\ UNCHANGED <<enabled, life, up, stateVars, rule, mapVars, live, self>>

(* The registration loop ends with its network; Session has its last round. *)
TearDownNode ==
    /\ up /\ start = "none"
    /\ up' = FALSE /\ self' = None /\ reg' = NoReg /\ live' = FALSE
    /\ UNCHANGED <<enabled, life, start, stateVars, rule, mapVars>>

SetPortMap(on) ==
    /\ on # enabled
    /\ enabled' = on
    /\ cancelled' = cancelled \cup IF running /\ ~on THEN {gen} ELSE {}
    /\ UNCHANGED <<life, up, start, stateVars, rule, cascade, loop, offer, live, self, reg>>

(* Slip: the mapping is tied to its node only until the router has answered. *)
EndWhileTrying(l) ==
    /\ loop[l] # "none" /\ l \notin cancelled /\ Over(l) /\ cascade[l] = "trying"
    /\ cancelled' = cancelled \cup {l}
    /\ UNCHANGED <<nodeVars, stateVars, rule, cascade, loop, offer, live, self, reg>>

(* The goroutine of startPortMap that ties the mapping to its node. *)
EndWithNode(l) ==
    /\ loop[l] # "none" /\ l \notin cancelled /\ Over(l)
    /\ cancelled' = cancelled \cup {l}
    /\ UNCHANGED <<nodeVars, stateVars, rule, cascade, loop, offer, live, self, reg>>

-----------------------------------------------------------------------------
(* The cascade: runCascade, then keepAlive.  Its channel has no place. *)

Answered(l) ==
    /\ cascade[l] = "trying"
    /\ \E e \in PortExts : offer' = [offer EXCEPT ![l] = e]
    /\ cascade' = [cascade EXCEPT ![l] = "offering"]
    /\ UNCHANGED <<nodeVars, stateVars, rule, loop, cancelled, live, self, reg>>

(* Nobody answered with an address worth announcing, or there was no time. *)
Unanswered(l) ==
    /\ cascade[l] = "trying"
    /\ cascade' = [cascade EXCEPT ![l] = "closed"]
    /\ UNCHANGED <<nodeVars, stateVars, rule, loop, offer, cancelled, live, self, reg>>

HandOver(l) ==
    /\ cascade[l] = "offering" /\ loop[l] = "waiting"
    /\ cascade' = [cascade EXCEPT ![l] = "holding"]
    /\ loop' = [loop EXCEPT ![l] = "allowing"]
    /\ UNCHANGED <<nodeVars, stateVars, rule, offer, cancelled, live, self, reg>>

GiveUpOffer(l) ==
    /\ cascade[l] = "offering" /\ l \in cancelled
    /\ cascade' = [cascade EXCEPT ![l] = "holding"]
    /\ UNCHANGED <<nodeVars, stateVars, rule, loop, offer, cancelled, live, self, reg>>

(* A renewal says nothing unless the router gives another address, and fails *)
(* at once when it is cancelled.  It comes after half a lease, an hour: the  *)
(* loop has long been through with the last mapping.                         *)
Renewed(l) ==
    /\ cascade[l] = "holding" /\ loop[l] = "waiting" /\ l \notin cancelled
    /\ \E e \in PortExts \ {offer[l]} : offer' = [offer EXCEPT ![l] = e]
    /\ cascade' = [cascade EXCEPT ![l] = "offering"]
    /\ UNCHANGED <<nodeVars, stateVars, rule, loop, cancelled, live, self, reg>>

Unmap(l) ==
    /\ cascade[l] = "holding" /\ l \in cancelled
    /\ cascade' = [cascade EXCEPT ![l] = "closed"]
    /\ UNCHANGED <<nodeVars, stateVars, rule, loop, offer, cancelled, live, self, reg>>

-----------------------------------------------------------------------------
(* portmapLoop: one round per mapping handed over, then the deferred clean-up. *)

(* AllowInbound takes the old rule away, if that works, and adds its own, if *)
(* that works.  A rule that was stuck has a loop again that will remove it.  *)
AllowInbound(l) ==
    /\ loop[l] = "allowing"
    /\ rule' \in {"none", "there"}
    /\ loop' = [loop EXCEPT ![l] = "writing"]
    /\ UNCHANGED <<nodeVars, stateVars, cascade, offer, cancelled, live, self, reg>>

(* What was handed over is still the offer: the next comes an hour later. *)
WriteAddr(l) ==
    /\ loop[l] = "writing"
    /\ addr' = offer[l]
    /\ loop' = [loop EXCEPT ![l] = "kicking"]
    /\ UNCHANGED <<nodeVars, gen, running, rule, cascade, offer, cancelled, live, self, reg>>

(* Slip: a new mapping waits for the timer of the registration. *)
KickNobody(l) ==
    /\ loop[l] = "kicking"
    /\ loop' = [loop EXCEPT ![l] = "waiting"]
    /\ UNCHANGED <<nodeVars, stateVars, rule, cascade, offer, cancelled, live, self, reg>>

Kick(l) ==
    /\ loop[l] = "kicking"
    /\ reg' = Kicked
    /\ loop' = [loop EXCEPT ![l] = "waiting"]
    /\ UNCHANGED <<nodeVars, stateVars, rule, cascade, offer, cancelled, live, self>>

(* netsh failed: the rule stays as it is, if there is one. *)
Stuck == IF rule = "none" THEN "none" ELSE "stuck"

(* Slip: an old loop leaves the rule to the loop of the next life. *)
RemoveOwnInbound(l) ==
    /\ loop[l] = "waiting" /\ cascade[l] = "closed"
    /\ rule' \in IF l # gen THEN {rule} ELSE {"none", Stuck}
    /\ loop' = [loop EXCEPT ![l] = "clearing"]
    /\ offer' = [offer EXCEPT ![l] = None]
    /\ UNCHANGED <<nodeVars, stateVars, cascade, cancelled, live, self, reg>>

(* The channel is closed, the deferred calls begin.  netsh may fail or be    *)
(* stopped by its timeout; nobody looks at the error or tries again.         *)
RemoveInbound(l) ==
    /\ loop[l] = "waiting" /\ cascade[l] = "closed"
    /\ rule' \in {"none", Stuck}
    /\ loop' = [loop EXCEPT ![l] = "clearing"]
    /\ offer' = [offer EXCEPT ![l] = None]
    /\ UNCHANGED <<nodeVars, stateVars, cascade, cancelled, live, self, reg>>

(* Slip: the clean-up does not look whose state it is. *)
ClearPortmap(l) ==
    /\ loop[l] = "clearing"
    /\ running' = FALSE /\ addr' = None
    /\ loop' = [loop EXCEPT ![l] = "leaving"]
    /\ UNCHANGED <<nodeVars, gen, rule, cascade, offer, cancelled, live, self, reg>>

ClearPortmapIfCurrent(l) ==
    /\ loop[l] = "clearing"
    /\ IF gen = l THEN running' = FALSE /\ addr' = None
                  ELSE UNCHANGED <<running, addr>>
    /\ loop' = [loop EXCEPT ![l] = "leaving"]
    /\ UNCHANGED <<nodeVars, gen, rule, cascade, offer, cancelled, live, self, reg>>

LastKick(l) ==
    /\ loop[l] = "leaving"
    /\ reg' = Kicked
    /\ loop' = [loop EXCEPT ![l] = "done"]
    /\ UNCHANGED <<nodeVars, stateVars, rule, cascade, offer, cancelled, live, self>>

-----------------------------------------------------------------------------
(* The engine learns its address from relay, STUN and peers; what is new goes *)
(* through reflexFanout.  No source forgets while the node is up.             *)

Learn ==
    /\ up /\ start = "none" /\ ~live
    /\ live' = TRUE
    /\ reg' = Kicked
    /\ UNCHANGED <<nodeVars, stateVars, rule, mapVars, self>>

-----------------------------------------------------------------------------
(* pickExternal; Reflex has the choice among the sources. *)
PickExternal(port) ==
    IF port # None THEN port ELSE IF live THEN Reflex ELSE Frozen

(* A round begins with nodeEndpoints, in two looks at the session. *)
ReadState(kick) ==
    /\ reg' = [at |-> "reading", kick |-> kick, port |-> addr]
    /\ UNCHANGED <<nodeVars, stateVars, rule, mapVars, live, self>>

FirstRound == reg.at = "ready" /\ ReadState(reg.kick)
KickedRound == reg.at = "pausing" /\ reg.kick /\ ReadState(FALSE)
TimedRound == reg.at = "pausing" /\ ReadState(reg.kick)

Announce ==
    /\ reg.at = "reading"
    /\ self' = PickExternal(reg.port)
    /\ reg' = [reg EXCEPT !.at = "pausing", !.port = None]
    /\ UNCHANGED <<nodeVars, stateVars, rule, mapVars, live>>

-----------------------------------------------------------------------------
Cascade(l) == Answered(l) \/ Unanswered(l) \/ HandOver(l) \/ GiveUpOffer(l) \/ Unmap(l)
PortmapLoop(l) ==
    \/ AllowInbound(l) \/ WriteAddr(l) \/ Kick(l)
    \/ RemoveInbound(l) \/ ClearPortmapIfCurrent(l) \/ LastKick(l)
RegisterLoop == FirstRound \/ KickedRound \/ Announce

Next ==
    \/ BringUpNode \/ StartPortMap \/ EnterNetwork \/ TearDownNode
    \/ \E on \in BOOLEAN : SetPortMap(on)
    \/ \E l \in Lives : EndWithNode(l) \/ Cascade(l) \/ Renewed(l) \/ PortmapLoop(l)
    \/ RegisterLoop \/ TimedRound \/ Learn

Spec == Init /\ [][Next]_vars

(* The router and netsh are called under time-outs, and goroutines run.  The *)
(* router decides on renewals, the user on lives and on the flag.            *)
Fairness ==
    /\ \A l \in Lives : /\ WF_vars(EndWithNode(l))
                        /\ WF_vars(Cascade(l)) /\ WF_vars(PortmapLoop(l))
    /\ WF_vars(RegisterLoop)

FairSpec == Spec /\ Fairness

-----------------------------------------------------------------------------
(* What the panel shows.  The protocol and the firewall's complaint are left  *)
(* out, and that no router has answered, which stands only while the loop     *)
(* that has found it cleans up.                                               *)
PortmapStatus ==
    CASE ~enabled                -> "off"
      [] enabled /\ ~up          -> "node is down"
      [] enabled /\ up /\ addr # None                -> "works"
      [] enabled /\ up /\ addr = None /\ ~running    -> "from the next node on"
      [] OTHER                   -> "finding out"

(* A slow clean-up of an earlier life does not wipe what the current one has *)
(* written: while the current loop holds a mapping it wrote down, the panel  *)
(* says that it works, and the user can switch it off.                       *)
MappingIsShown ==
    gen > 0 /\ loop[gen] \in {"kicking", "waiting"} /\ cascade[gen] = "holding"
            /\ gen \notin cancelled
        => running /\ PortmapStatus \in {"off", "node is down", "works"}

(* When every mapping loop is through, no inbound rule stays behind that the *)
(* user does not know of, however the loops of several lives overlapped:     *)
(* whoever opened the firewall last, someone has closed it since, unless     *)
(* netsh failed when a loop that was ending asked it to.                     *)
NoRuleLeft == (\A l \in Lives : loop[l] \in {"none", "done"}) => rule # "there"

(* The mapping of a node that was taken down ends, whatever it is waiting    *)
(* for: the router, the firewall, or its own loop to take an address.        *)
MappingEnds == []<>(\A l \in Lives : Over(l) => loop[l] \in {"none", "done"})

(* What a running node announces first follows what it knows, without any    *)
(* timer: a mapped address is announced, one that is gone is withdrawn, and  *)
(* the address of the start gives way to a living one.                       *)
Follows ==
    IF addr # None THEN self = addr
    ELSE self \notin PortExts /\ (live => self # Frozen)

Settled == up /\ start = "none" /\ \A l \in Lives : loop[l] \in {"none", "waiting", "done"}

AnnouncedFollows == []<>(Settled => Follows)
=============================================================================
