-------------------------- MODULE EndpointsProofs --------------------------
(***************************************************************************)
(* Proofs about Endpoints for any number of lives and mapped addresses.    *)
(* The mapping loops of several lives run at once, so the invariant says   *)
(* of each what it and its cascade hold for each other (OfferInv), that    *)
(* s.portmapCancel is there exactly while the loop of the current life     *)
(* serves (RunningInv), that a mapping this life has written down is still *)
(* written (WrittenInv), and that a rule of the firewall on which no       *)
(* clean-up has failed has a loop that is still to try (RuleInv).          *)
(***************************************************************************)
EXTENDS Endpoints, FiniteSetTheorems, TLAPS

Serving == {"waiting", "allowing", "writing", "kicking", "clearing"}

StartInv ==
    /\ start # "none" => up
    /\ up => life > 0
    /\ start = "map" => gen < life

NewLives == \A l \in Lives : l > gen => loop[l] = "none" /\ cascade[l] = "none"

OfferInv ==
    \A l \in Lives :
        /\ cascade[l] \in {"offering", "holding"} => offer[l] \in PortExts
        /\ loop[l] \in {"allowing", "writing", "kicking"} =>
               cascade[l] \in {"holding", "closed"} /\ offer[l] \in PortExts

RunningInv == running <=> gen > 0 /\ loop[gen] \in Serving

(* Somebody who holds a mapping is through with writing it down. *)
Holds(l) == loop[l] \in {"kicking", "waiting"} /\ cascade[l] = "holding" /\ l \notin cancelled

WrittenInv == gen > 0 /\ Holds(gen) => addr # None

RuleInv == rule = "there" => \E l \in Lives : loop[l] \in {"allowing", "writing", "kicking", "waiting"}

EndpointsInv ==
    TypeOK /\ StartInv /\ NewLives /\ OfferInv /\ RunningInv /\ WrittenInv /\ RuleInv

(* Of the addresses the router may map none is another kind of address. *)
LEMMA OneMore ==
  ASSUME NEW S, IsFiniteSet(S), NEW x
  PROVE  /\ IsFiniteSet(S \cup {x}) /\ Cardinality(S \cup {x}) \in Nat
         /\ Cardinality(S) \in Nat /\ Cardinality(S \cup {x}) <= Cardinality(S) + 1
<1>1. Cardinality(S) \in Nat
  BY FS_CardinalityType
<1>2. CASE x \in S
  <2>1. S \cup {x} = S
    BY <1>2
  <2>2. IsFiniteSet(S \cup {x}) /\ Cardinality(S \cup {x}) = Cardinality(S)
    BY <2>1
  <2> QED BY <1>1, <2>2
<1>3. CASE x \notin S
  BY <1>1, <1>3, FS_AddElement
<1> QED BY <1>2, <1>3

(* No address is not an address. *)
LEMMA NotMapped == None \notin PortExts
<1>1. SUFFICES ASSUME None \in PortExts PROVE FALSE
  OBVIOUS
<1>2. Exts = (PortExts \cup {Reflex}) \cup {Frozen}
  BY <1>1 DEF Exts
<1>3. IsFiniteSet(PortExts \cup {Reflex})
  BY ExtsAssumption, OneMore
<1>4. Cardinality(Exts) <= Cardinality(PortExts \cup {Reflex}) + 1 /\ Cardinality(Exts) \in Nat
  BY <1>2, <1>3, OneMore
<1>5. Cardinality(PortExts \cup {Reflex}) <= Cardinality(PortExts) + 1
      /\ Cardinality(PortExts) \in Nat /\ Cardinality(PortExts \cup {Reflex}) \in Nat
  BY ExtsAssumption, OneMore
<1> QED BY <1>4, <1>5, ExtsAssumption

(* Lives are numbers. *)
LEMMA LifeNumbers ==
  /\ MaxLife \in Nat /\ Lives \subseteq Nat \ {0}
  /\ TypeOK => gen \in Nat /\ life \in Nat /\ gen <= life /\ (gen > 0 => gen \in Lives)
                /\ (life > 0 => life \in Lives)
  BY LifeAssumption DEF Lives, TypeOK

-----------------------------------------------------------------------------
(* The node *)

(* Steps that leave the mapping and its goroutines alone. *)
LEMMA OutsideKeeps ==
  ASSUME EndpointsInv, TypeOK', UNCHANGED <<gen, running, addr, rule, cascade, loop, offer, cancelled>>,
         StartInv'
  PROVE  EndpointsInv'
  BY DEF EndpointsInv, NewLives, OfferInv, RunningInv, WrittenInv, Holds, RuleInv

(* What the node does around its mapping leaves the loops alone. *)
LEMMA NodeKeeps ==
  ASSUME EndpointsInv, BringUpNode \/ EnterNetwork \/ TearDownNode \/ Learn
  PROVE  EndpointsInv'
<1>1. /\ UNCHANGED <<gen, running, addr, rule, cascade, loop, offer, cancelled>>
      /\ NoReg.at = "none" /\ NoReg.kick = FALSE /\ NoReg.port = None
  BY DEF BringUpNode, EnterNetwork, TearDownNode, Learn, stateVars, mapVars, NoReg
<1>2. CASE BringUpNode
  <2>1. /\ life < MaxLife /\ life' = life + 1 /\ up' = TRUE /\ start' \in {"map", "bare"}
        /\ live' = FALSE /\ self' = Frozen /\ UNCHANGED <<enabled, reg>>
    BY <1>2 DEF BringUpNode
  <2>2. life' \in 0..MaxLife /\ gen \in 0..life' /\ gen < life' /\ life' > 0
    BY <2>1, LifeNumbers DEF EndpointsInv
  <2>3. TypeOK' /\ StartInv'
    BY <1>1, <2>1, <2>2 DEF EndpointsInv, TypeOK, StartInv, Exts
  <2> QED BY <1>1, <2>3, OutsideKeeps
<1>3. CASE EnterNetwork
  BY <1>1, <1>3, OutsideKeeps
     DEF EnterNetwork, EndpointsInv, TypeOK, StartInv, stateVars, mapVars, NoReg
<1>4. CASE TearDownNode
  BY <1>1, <1>4, OutsideKeeps
     DEF TearDownNode, EndpointsInv, TypeOK, StartInv, stateVars, mapVars, NoReg, Exts
<1>5. CASE Learn
  BY <1>1, <1>5, OutsideKeeps
     DEF Learn, EndpointsInv, TypeOK, StartInv, nodeVars, stateVars, mapVars, Kicked
<1> QED BY <1>2, <1>3, <1>4, <1>5

(* The loop of the new life takes over; it holds nothing yet. *)
LEMMA StartPortMapKeeps ==
  ASSUME EndpointsInv, StartPortMap
  PROVE  EndpointsInv'
<1>1. /\ start = "map" /\ gen' = life /\ running' = TRUE /\ start' = "bare"
      /\ cascade' = [cascade EXCEPT ![life] = "trying"]
      /\ loop' = [loop EXCEPT ![life] = "waiting"]
      /\ UNCHANGED <<enabled, life, up, addr, rule, offer, cancelled, live, self, reg>>
  BY DEF StartPortMap
<1>2. life \in Lives /\ gen < life /\ life \in Nat /\ gen \in Nat
  BY <1>1, LifeNumbers DEF EndpointsInv, StartInv
<1>3. /\ loop'[life] = "waiting" /\ cascade'[life] = "trying"
      /\ loop[life] = "none" /\ cascade[life] = "none"
      /\ \A l \in Lives : l # life => loop'[l] = loop[l] /\ cascade'[l] = cascade[l]
  BY <1>1, <1>2 DEF EndpointsInv, TypeOK, NewLives
<1>4. TypeOK' /\ StartInv'
  BY <1>1, <1>2, LifeNumbers DEF EndpointsInv, TypeOK, StartInv
<1>5. NewLives' /\ OfferInv'
  BY <1>1, <1>2, <1>3, LifeNumbers DEF EndpointsInv, NewLives, OfferInv, Lives
<1>6. RunningInv' /\ WrittenInv'
  BY <1>1, <1>2, <1>3 DEF RunningInv, WrittenInv, Holds, Serving
<1>7. RuleInv'
  BY <1>1, <1>2, <1>3 DEF EndpointsInv, RuleInv
<1> QED BY <1>4, <1>5, <1>6, <1>7 DEF EndpointsInv

(* Whoever ends a mapping takes nothing away from it yet. *)
LEMMA CancelKeeps ==
  ASSUME EndpointsInv,
         (\E on \in BOOLEAN : SetPortMap(on)) \/ \E l \in Lives : EndWithNode(l)
  PROVE  EndpointsInv'
<1>1. /\ UNCHANGED <<life, up, start, gen, running, addr, rule, cascade, loop, offer, live, self, reg>>
      /\ enabled' \in BOOLEAN
  BY DEF SetPortMap, EndWithNode, nodeVars, stateVars, EndpointsInv, TypeOK
<1>2. cancelled \subseteq cancelled' /\ cancelled' \subseteq Lives
  BY LifeNumbers DEF SetPortMap, EndWithNode, EndpointsInv, TypeOK, RunningInv
<1>3. TypeOK'
  BY <1>1, <1>2 DEF EndpointsInv, TypeOK
<1>4. StartInv' /\ NewLives' /\ OfferInv' /\ RunningInv' /\ RuleInv'
  BY <1>1 DEF EndpointsInv, StartInv, NewLives, OfferInv, RunningInv, RuleInv
<1>5. WrittenInv'
  BY <1>1, <1>2 DEF EndpointsInv, WrittenInv, Holds
<1> QED BY <1>3, <1>4, <1>5 DEF EndpointsInv

-----------------------------------------------------------------------------
(* The cascade *)

(* A cascade that goes on without its loop: an offer may be new, and one that  *)
(* it comes to hold is on its way out.                                        *)
LEMMA CascadeKeeps ==
  ASSUME EndpointsInv, NEW l \in Lives, NEW to \in {"offering", "holding", "closed"},
         cascade[l] # "none", cascade' = [cascade EXCEPT ![l] = to],
         UNCHANGED <<nodeVars, stateVars, rule, loop, cancelled, live, self, reg>>,
         offer' = offer \/ (to = "offering" /\ \E e \in PortExts : offer' = [offer EXCEPT ![l] = e]),
         to # "closed" => offer'[l] \in PortExts,
         to = "offering" => loop[l] \notin {"allowing", "writing", "kicking"},
         to = "holding" => l \in cancelled
  PROVE  EndpointsInv'
<1>1. /\ UNCHANGED <<enabled, life, up, start, gen, running, addr, rule, loop, cancelled, live, self, reg>>
      /\ cascade'[l] = to
      /\ \A m \in Lives : m # l => cascade'[m] = cascade[m] /\ offer'[m] = offer[m]
  BY DEF nodeVars, stateVars, EndpointsInv, TypeOK
<1>2. TypeOK'
  BY <1>1 DEF EndpointsInv, TypeOK
<1>3. StartInv' /\ RunningInv' /\ RuleInv'
  BY <1>1 DEF EndpointsInv, StartInv, RunningInv, RuleInv
<1>4. NewLives'
  BY <1>1 DEF EndpointsInv, NewLives
<1>5. OfferInv'
  BY <1>1 DEF EndpointsInv, OfferInv
<1>6. WrittenInv'
  BY <1>1, LifeNumbers DEF EndpointsInv, WrittenInv, Holds
<1> QED BY <1>2, <1>3, <1>4, <1>5, <1>6 DEF EndpointsInv

(* The mapping goes from the cascade to the loop, which will write it down. *)
LEMMA HandOverKeeps ==
  ASSUME EndpointsInv, NEW l \in Lives, HandOver(l)
  PROVE  EndpointsInv'
<1>1. /\ cascade[l] = "offering" /\ loop[l] = "waiting"
      /\ cascade' = [cascade EXCEPT ![l] = "holding"]
      /\ loop' = [loop EXCEPT ![l] = "allowing"]
      /\ UNCHANGED <<enabled, life, up, start, gen, running, addr, rule, offer, cancelled, live, self, reg>>
  BY DEF HandOver, nodeVars, stateVars
<1>2. /\ cascade'[l] = "holding" /\ loop'[l] = "allowing"
      /\ \A m \in Lives : m # l => cascade'[m] = cascade[m] /\ loop'[m] = loop[m]
  BY <1>1 DEF EndpointsInv, TypeOK
<1>3. TypeOK' /\ StartInv'
  BY <1>1 DEF EndpointsInv, TypeOK, StartInv
<1>4. NewLives' /\ OfferInv'
  BY <1>1, <1>2 DEF EndpointsInv, NewLives, OfferInv
<1>5. RunningInv' /\ WrittenInv'
  BY <1>1, <1>2, LifeNumbers DEF EndpointsInv, RunningInv, WrittenInv, Holds, Serving
<1>6. RuleInv'
  BY <1>1, <1>2 DEF EndpointsInv, RuleInv
<1> QED BY <1>3, <1>4, <1>5, <1>6 DEF EndpointsInv

(* What the router answers reaches nobody but the loop of that life. *)
LEMMA CascadesKeep ==
  ASSUME EndpointsInv, NEW l \in Lives, Cascade(l) \/ Renewed(l)
  PROVE  EndpointsInv'
<1>1. /\ UNCHANGED <<nodeVars, stateVars, rule, loop, cancelled, live, self, reg>> \/ HandOver(l)
      /\ offer \in [Lives -> PortExts \cup {None}]
      /\ cascade[l] \in {"offering", "holding"} => offer[l] \in PortExts
      /\ loop[l] \in {"allowing", "writing", "kicking"} => cascade[l] \in {"holding", "closed"}
  BY DEF Cascade, Answered, Unanswered, GiveUpOffer, Unmap, Renewed,
         EndpointsInv, TypeOK, OfferInv
<1>2. CASE Answered(l)
  <2>1. /\ cascade[l] = "trying" /\ cascade' = [cascade EXCEPT ![l] = "offering"]
        /\ \E e \in PortExts : offer' = [offer EXCEPT ![l] = e]
    BY <1>2 DEF Answered
  <2> QED BY <1>1, <1>2, <2>1, CascadeKeeps DEF Answered
<1>3. CASE Unanswered(l)
  BY <1>3, CascadeKeeps DEF Unanswered
<1>4. CASE GiveUpOffer(l)
  BY <1>1, <1>4, CascadeKeeps DEF GiveUpOffer
<1>5. CASE Unmap(l)
  BY <1>5, CascadeKeeps DEF Unmap
<1>6. CASE Renewed(l)
  <2>1. /\ cascade[l] = "holding" /\ loop[l] = "waiting"
        /\ cascade' = [cascade EXCEPT ![l] = "offering"]
        /\ \E e \in PortExts : offer' = [offer EXCEPT ![l] = e]
    BY <1>6 DEF Renewed
  <2> QED BY <1>1, <1>6, <2>1, CascadeKeeps DEF Renewed
<1> QED BY <1>2, <1>3, <1>4, <1>5, <1>6, HandOverKeeps DEF Cascade

-----------------------------------------------------------------------------
(* portmapLoop *)

(* What every stage of a loop has in common. *)
LEMMA LoopMoves ==
  ASSUME EndpointsInv, NEW l \in Lives, loop[l] # "none",
         NEW to \in {"waiting", "writing", "kicking", "clearing", "leaving", "done"},
         loop' = [loop EXCEPT ![l] = to],
         UNCHANGED <<enabled, life, up, start, gen, cascade, cancelled, live, self>>,
         TypeOK'
  PROVE  /\ StartInv' /\ NewLives'
         /\ loop'[l] = to /\ \A m \in Lives : m # l => loop'[m] = loop[m]
<1>1. loop'[l] = to /\ \A m \in Lives : m # l => loop'[m] = loop[m]
  BY DEF EndpointsInv, TypeOK
<1>2. StartInv' /\ NewLives'
  BY <1>1 DEF EndpointsInv, StartInv, NewLives
<1> QED BY <1>1, <1>2

(* A loop that serves opens the firewall, writes down and wakes registration. *)
LEMMA WritingKeeps ==
  ASSUME EndpointsInv, NEW l \in Lives, AllowInbound(l) \/ WriteAddr(l) \/ Kick(l)
  PROVE  EndpointsInv'
<1>1. UNCHANGED <<enabled, life, up, start, gen, running, cascade, offer, cancelled, live, self>>
  BY DEF AllowInbound, WriteAddr, Kick, nodeVars, stateVars
<1>2. PICK to \in {"waiting", "writing", "kicking"} :
          /\ loop' = [loop EXCEPT ![l] = to]
          /\ loop[l] \in {"allowing", "writing", "kicking"}
          /\ to = "kicking" <=> loop[l] = "writing"
          /\ to = "waiting" => loop[l] = "kicking"
          /\ addr' = IF to = "kicking" THEN offer[l] ELSE addr
          /\ to # "writing" => rule' = rule
  BY DEF AllowInbound, WriteAddr, Kick, stateVars
<1>3. cascade[l] \in {"holding", "closed"} /\ offer[l] \in PortExts
  BY <1>2 DEF EndpointsInv, OfferInv
<1>4. TypeOK'
  <2>1. rule' \in {"none", "there", "stuck"} /\ reg' \in [at : {"none", "ready", "reading", "pausing"},
                                       kick : BOOLEAN, port : PortExts \cup {None}]
    BY DEF AllowInbound, WriteAddr, Kick, Kicked, EndpointsInv, TypeOK
  <2> QED BY <1>1, <1>2, <1>3, <2>1 DEF EndpointsInv, TypeOK
<1>5. /\ StartInv' /\ NewLives'
      /\ loop'[l] = to /\ \A m \in Lives : m # l => loop'[m] = loop[m]
  BY <1>1, <1>2, <1>4, LoopMoves
<1>6. OfferInv'
  BY <1>1, <1>2, <1>3, <1>5 DEF EndpointsInv, OfferInv
<1>7. RunningInv' /\ RuleInv'
  BY <1>1, <1>2, <1>5, LifeNumbers DEF EndpointsInv, RunningInv, Serving, RuleInv
<1>8. WrittenInv'
  <2>1. CASE to = "kicking"
    BY <1>2, <1>3, <2>1, NotMapped DEF WrittenInv
  <2>2. CASE to # "kicking"
    <3>1. addr' = addr /\ (Holds(l)' => Holds(l)) /\ \A m \in Lives : m # l => Holds(m)' = Holds(m)
      BY <1>1, <1>2, <1>5, <2>2 DEF Holds
    <3> QED BY <1>1, <3>1, LifeNumbers DEF EndpointsInv, WrittenInv
  <2> QED BY <2>1, <2>2
<1> QED BY <1>4, <1>5, <1>6, <1>7, <1>8 DEF EndpointsInv

(* A loop that ends tries to take the rule away, and takes the state away     *)
(* only if it is its own.                                                     *)
LEMMA CleaningKeeps ==
  ASSUME EndpointsInv, NEW l \in Lives,
         RemoveInbound(l) \/ ClearPortmapIfCurrent(l) \/ LastKick(l)
  PROVE  EndpointsInv'
<1>1. UNCHANGED <<enabled, life, up, start, gen, cascade, cancelled, live, self>>
  BY DEF RemoveInbound, ClearPortmapIfCurrent, LastKick, nodeVars, stateVars
<1>2. CASE RemoveInbound(l)
  <2>1. /\ loop[l] = "waiting" /\ cascade[l] = "closed" /\ rule' \in {"none", "stuck"}
        /\ loop' = [loop EXCEPT ![l] = "clearing"] /\ offer' = [offer EXCEPT ![l] = None]
        /\ UNCHANGED <<running, addr, reg>>
    BY <1>2 DEF RemoveInbound, Stuck, stateVars
  <2>2. TypeOK'
    BY <1>1, <2>1 DEF EndpointsInv, TypeOK
  <2>3. /\ StartInv' /\ NewLives'
        /\ loop'[l] = "clearing" /\ \A m \in Lives : m # l => loop'[m] = loop[m]
    BY <1>1, <2>1, <2>2, LoopMoves
  <2>4. OfferInv'
    BY <1>1, <2>1, <2>3 DEF EndpointsInv, TypeOK, OfferInv
  <2>5. RunningInv' /\ WrittenInv' /\ RuleInv'
    BY <1>1, <2>1, <2>3, LifeNumbers
       DEF EndpointsInv, RunningInv, WrittenInv, Holds, Serving, RuleInv
  <2> QED BY <2>2, <2>3, <2>4, <2>5 DEF EndpointsInv
<1>3. CASE ClearPortmapIfCurrent(l)
  <2>1. /\ loop[l] = "clearing" /\ loop' = [loop EXCEPT ![l] = "leaving"]
        /\ running' = IF gen = l THEN FALSE ELSE running
        /\ addr' = IF gen = l THEN None ELSE addr
        /\ UNCHANGED <<rule, offer, reg>>
    BY <1>3 DEF ClearPortmapIfCurrent
  <2>2. TypeOK'
    BY <1>1, <2>1 DEF EndpointsInv, TypeOK
  <2>3. /\ StartInv' /\ NewLives'
        /\ loop'[l] = "leaving" /\ \A m \in Lives : m # l => loop'[m] = loop[m]
    BY <1>1, <2>1, <2>2, LoopMoves
  <2>4. OfferInv' /\ RuleInv'
    BY <1>1, <2>1, <2>3 DEF EndpointsInv, OfferInv, RuleInv
  <2>5. RunningInv' /\ WrittenInv'
    BY <1>1, <2>1, <2>3, LifeNumbers DEF EndpointsInv, RunningInv, WrittenInv, Holds, Serving
  <2> QED BY <2>2, <2>3, <2>4, <2>5 DEF EndpointsInv
<1>4. CASE LastKick(l)
  <2>1. /\ loop[l] = "leaving" /\ loop' = [loop EXCEPT ![l] = "done"]
        /\ UNCHANGED <<running, addr, rule, offer>> /\ reg' = Kicked
    BY <1>4 DEF LastKick, stateVars
  <2>2. TypeOK'
    BY <1>1, <2>1 DEF EndpointsInv, TypeOK, Kicked
  <2>3. /\ StartInv' /\ NewLives'
        /\ loop'[l] = "done" /\ \A m \in Lives : m # l => loop'[m] = loop[m]
    BY <1>1, <2>1, <2>2, LoopMoves
  <2>4. OfferInv' /\ RuleInv'
    BY <1>1, <2>1, <2>3 DEF EndpointsInv, OfferInv, RuleInv
  <2>5. RunningInv' /\ WrittenInv'
    BY <1>1, <2>1, <2>3, LifeNumbers DEF EndpointsInv, RunningInv, WrittenInv, Holds, Serving
  <2> QED BY <2>2, <2>3, <2>4, <2>5 DEF EndpointsInv
<1> QED BY <1>2, <1>3, <1>4

-----------------------------------------------------------------------------
(* The registration only reads what the mapping writes. *)
LEMMA RegistrationKeeps ==
  ASSUME EndpointsInv, RegisterLoop \/ TimedRound
  PROVE  EndpointsInv'
<1>1. /\ UNCHANGED <<enabled, life, up, start, gen, running, addr, rule>>
      /\ UNCHANGED <<cascade, loop, offer, cancelled, live>>
  BY DEF RegisterLoop, FirstRound, KickedRound, TimedRound, Announce, ReadState,
         nodeVars, stateVars, mapVars
<1>2. TypeOK'
  <2>1. CASE Announce
    BY <1>1, <2>1 DEF Announce, PickExternal, EndpointsInv, TypeOK, Exts
  <2>2. CASE \E kick \in BOOLEAN : ReadState(kick)
    BY <1>1, <2>2 DEF ReadState, EndpointsInv, TypeOK
  <2>3. reg.kick \in BOOLEAN
    BY DEF EndpointsInv, TypeOK
  <2> QED BY <2>1, <2>2, <2>3 DEF RegisterLoop, FirstRound, KickedRound, TimedRound
<1>3. StartInv'
  BY <1>1 DEF EndpointsInv, StartInv
<1> QED BY <1>1, <1>2, <1>3, OutsideKeeps

(* The invariant holds in every reachable state. *)
LEMMA EndpointsInductive == Spec => []EndpointsInv
<1>1. Init => EndpointsInv
  <2> SUFFICES ASSUME Init PROVE EndpointsInv
    OBVIOUS
  <2>1. TypeOK
    <3>1. 0 \in 0..MaxLife /\ 0 \in 0..0
      BY LifeNumbers
    <3>2. NoReg \in [at : {"none", "ready", "reading", "pausing"},
                    kick : BOOLEAN, port : PortExts \cup {None}]
      BY DEF NoReg
    <3> QED BY <3>1, <3>2 DEF Init, TypeOK, Exts
  <2> QED BY <2>1 DEF Init, EndpointsInv, StartInv, NewLives, OfferInv, RunningInv, WrittenInv, RuleInv
<1>2. EndpointsInv /\ [Next]_vars => EndpointsInv'
  <2> SUFFICES ASSUME EndpointsInv, [Next]_vars PROVE EndpointsInv'
    OBVIOUS
  <2>1. CASE UNCHANGED vars
    <3>1. /\ UNCHANGED <<enabled, life, up, start, gen, running, addr, rule>>
          /\ UNCHANGED <<cascade, loop, offer, cancelled, live, self, reg>>
      BY <2>1 DEF vars, nodeVars, stateVars, mapVars
    <3>2. TypeOK' /\ StartInv'
      BY <3>1 DEF EndpointsInv, TypeOK, StartInv
    <3> QED BY <3>1, <3>2, OutsideKeeps
  <2> QED BY <2>1, NodeKeeps, StartPortMapKeeps, CancelKeeps, CascadesKeep, WritingKeeps,
             CleaningKeeps, RegistrationKeeps DEF Next, PortmapLoop
<1> QED BY <1>1, <1>2, PTL DEF Spec

(* Types, and s.portmapGen never ahead of the lives begun. *)
THEOREM TypeCorrect == Spec => []TypeOK
<1>1. EndpointsInv => TypeOK
  BY DEF EndpointsInv
<1> QED BY <1>1, EndpointsInductive, PTL

(* A slow clean-up of an earlier life wipes nothing of the current one's: a  *)
(* mapping that was written down is shown and can be switched off.           *)
THEOREM ShownMappingStays == Spec => []MappingIsShown
<1>1. EndpointsInv => MappingIsShown
  <2> SUFFICES ASSUME EndpointsInv, gen > 0, Holds(gen)
               PROVE  running /\ PortmapStatus \in {"off", "node is down", "works"}
    BY DEF MappingIsShown, Holds
  <2>1. running
    BY DEF EndpointsInv, RunningInv, Holds, Serving
  <2>2. addr # None
    BY DEF EndpointsInv, WrittenInv
  <2> QED BY <2>1, <2>2 DEF PortmapStatus, EndpointsInv, TypeOK
<1> QED BY <1>1, EndpointsInductive, PTL

(* A rule of the firewall outlives the loops only if netsh failed to remove  *)
(* it for one that was ending, after the last loop that opened it.           *)
THEOREM RulesAreRemoved == Spec => []NoRuleLeft
<1>1. EndpointsInv => NoRuleLeft
  BY DEF EndpointsInv, RuleInv, NoRuleLeft
<1> QED BY <1>1, EndpointsInductive, PTL

-----------------------------------------------------------------------------
(***************************************************************************)
(* The other half of nodeEndpoints, the addresses that the engine's own    *)
(* sources name, is module Reflex.  Its proof needs of a round under way   *)
(* what its property says between rounds: unless a signal hangs or is to   *)
(* come, the round has read what the sources say now.                      *)
(***************************************************************************)
CONSTANTS Servers, MaxMove, MaxWord
VARIABLES place, stunExt, selfReflex, relayReflex, stunReflex, stunPending, words,
          untold, reflexCh, reading, first, listed

Sources == INSTANCE Reflex WITH addr <- place, self <- first

Signalled == untold \/ reflexCh

NewsInv ==
    /\ reading = {} \/ \E r \in reading : reading = {r}
    /\ ~Signalled =>
           IF reading = {} THEN Sources!LiveOnes \subseteq listed
           ELSE \A r \in reading : r.live = Sources!LiveOnes

(* A word that changes what a source says is signalled after it. *)
LEMMA WordKeeps ==
  ASSUME NewsInv, UNCHANGED <<reflexCh, reading, listed>>,
         ~untold, untold' = TRUE \/ Sources!LiveOnes' = Sources!LiveOnes
  PROVE  NewsInv'
  BY DEF NewsInv, Signalled

(* A round reads what the sources say, and announces what it has read. *)
LEMMA RoundKeeps ==
  ASSUME NewsInv, Sources!KickedRound \/ Sources!TimedRound \/ Sources!Announce
  PROVE  NewsInv'
<1>1. CASE Sources!KickedRound \/ Sources!TimedRound
  <2> DEFINE r == [ext |-> Sources!PickExternal(first, Sources!LiveOnes),
                   live |-> Sources!LiveOnes]
  <2>1. reading' = {r} /\ r.live = Sources!LiveOnes
    BY <1>1 DEF Sources!KickedRound, Sources!TimedRound, Sources!ReadSources
  <2>2. Sources!LiveOnes' = Sources!LiveOnes
    BY <1>1 DEF Sources!KickedRound, Sources!TimedRound, Sources!ReadSources,
                Sources!LiveOnes, Sources!engineVars, Sources!None
  <2> HIDE DEF r
  <2> QED BY <2>1, <2>2 DEF NewsInv
<1>2. CASE Sources!Announce
  <2>1. PICK r \in reading : Sources!Announced(r) /\ reflexCh' = reflexCh
    BY <1>2 DEF Sources!Announce
  <2>2. /\ listed' = (r.live \cup {r.ext}) \ {Sources!None} /\ reading' = {} /\ untold' = untold
        /\ Sources!LiveOnes' = Sources!LiveOnes
    BY <2>1 DEF Sources!Announced, Sources!engineVars, Sources!LiveOnes, Sources!None
  <2>3. ~Signalled => Sources!LiveOnes \subseteq listed'
    BY <2>1, <2>2 DEF NewsInv, Sources!LiveOnes
  <2> QED BY <2>1, <2>2, <2>3 DEF NewsInv, Signalled
<1> QED BY <1>1, <1>2

(* However words, signals and rounds overlap, no address that a source names *)
(* stays unannounced once nothing is under way, for any servers, moves and   *)
(* words.                                                                    *)
THEOREM NoNewsIsLost == Sources!Spec => []Sources!NewsIsAnnounced
<1>1. Sources!Init => NewsInv
  BY DEF Sources!Init, NewsInv, Signalled, Sources!LiveOnes
<1>2. NewsInv /\ [Sources!Next]_(Sources!vars) => NewsInv'
  <2> SUFFICES ASSUME NewsInv, [Sources!Next]_(Sources!vars) PROVE NewsInv'
    OBVIOUS
  <2>1. CASE Sources!Move \/ Sources!Gossiped \/ Sources!Bound \/ Sources!ProbeSTUN
             \/ UNCHANGED Sources!vars
    <3>1. UNCHANGED <<selfReflex, relayReflex, stunReflex, untold, reflexCh, reading, listed>>
      BY <2>1 DEF Sources!Move, Sources!Gossiped, Sources!Bound, Sources!ProbeSTUN,
                  Sources!vars, Sources!engineVars, Sources!sessionVars
    <3> QED BY <3>1 DEF NewsInv, Signalled, Sources!LiveOnes, Sources!None
  <2>2. CASE Sources!Notify
    BY <2>2 DEF Sources!Notify, Sources!sessionVars, NewsInv, Signalled
  <2>3. ASSUME NEW a, Sources!HandleAddr(a) PROVE NewsInv'
    BY <2>3, WordKeeps DEF Sources!HandleAddr, Sources!Said, Sources!Changed,
                           Sources!LiveOnes, Sources!None, Sources!sessionVars
  <2>4. ASSUME NEW a, Sources!SetRelayReflex(a) PROVE NewsInv'
    BY <2>4, WordKeeps DEF Sources!SetRelayReflex, Sources!Said, Sources!Changed,
                           Sources!LiveOnes, Sources!None, Sources!sessionVars
  <2>5. ASSUME NEW a, NEW v, Sources!MatchSTUN(v, a) PROVE NewsInv'
    <3>1. ~untold /\ UNCHANGED <<selfReflex, relayReflex, reflexCh, reading, listed>>
      BY <2>5 DEF Sources!MatchSTUN, Sources!Said, Sources!sessionVars
    <3>2. \/ stunReflex' = a /\ untold' = (stunReflex # a)
          \/ stunReflex' = stunReflex
      BY <2>5 DEF Sources!MatchSTUN, Sources!Changed
    <3>3. untold' = TRUE \/ stunReflex' = stunReflex
      BY <3>2
    <3>4. untold' = TRUE \/ Sources!LiveOnes' = Sources!LiveOnes
      BY <3>1, <3>3 DEF Sources!LiveOnes, Sources!None
    <3> QED BY <3>1, <3>4, WordKeeps
  <2> QED BY <2>1, <2>2, <2>3, <2>4, <2>5, RoundKeeps DEF Sources!Next
<1>3. NewsInv => Sources!NewsIsAnnounced
  BY DEF NewsInv, Signalled, Sources!NewsIsAnnounced
<1> QED BY <1>1, <1>2, <1>3, PTL DEF Sources!Spec

=============================================================================
