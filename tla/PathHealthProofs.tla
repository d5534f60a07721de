-------------------------- MODULE PathHealthProofs --------------------------
(***************************************************************************)
(* Proofs about PathHealth for any networks and any thresholds in the      *)
(* order the code has them.  Besides types, the invariant says how old     *)
(* what an entry remembers may be: a learned entry was heard in its own    *)
(* network within LearnedExpire (LearnedIsHeard), and the wait of a listed *)
(* one is never longer than the time since an answer listed it             *)
(* (WaitIsWarranted), which is what forgetting relies on.  A path is never *)
(* younger than what was heard on it (PathIsOlder): the relay is usable by *)
(* the time the direct way goes stale.                                     *)
(***************************************************************************)
EXTENDS PathHealth, TLAPS

Entries == [Nets -> {"none", "listed", "learned"}]

WaitIsWarranted ==
    \A n \in Nets : peer[n] = "listed" =>
        /\ unlisted[n] # Never
        /\ absent[n] # Never => absent[n] <= unlisted[n]

PathIsOlder == lastRecv # Never => firstSeen # Never /\ firstSeen >= lastRecv

HealthInv == TypeOK /\ LearnedIsHeard /\ WaitIsWarranted /\ PathIsOlder

(* What a tick does to an age: it stays of its kind, and time passes. *)
LEMMA OlderAges ==
  ASSUME NEW cap \in Nat, NEW age \in Ages(cap)
  PROVE  /\ Older(age, cap) \in Ages(cap)
         /\ Older(age, cap) = Never <=> age = Never
         /\ Older(age, cap) >= age
  BY DEF Ages, Older, Never

(* Time passes alike for all ages. *)
LEMMA OlderMonotone ==
  ASSUME NEW cap \in Nat, NEW top \in Nat, cap <= top,
         NEW a \in 0..cap, NEW b \in 0..top, a <= b
  PROVE  Older(a, cap) <= Older(b, top)
  BY DEF Older, Never

(* An entry's ages go with it and stay otherwise. *)
LEMMA KeptAgesShape ==
  ASSUME NEW cap \in Nat, NEW ages \in [Nets -> Ages(cap)], NEW entries \in Entries
  PROVE  /\ KeptAges(ages, entries) \in [Nets -> Ages(cap)]
         /\ \A n \in Nets : entries[n] # "none" => KeptAges(ages, entries)[n] = ages[n]
  BY DEF KeptAges, Ages, Entries

(* acquirePath and releasePath: a path of the right shape, there while it is *)
(* held, and unchanged if it was there before.                               *)
LEMMA PathAfterShape ==
  ASSUME TypeOK, PathIsOlder, NEW entries \in Entries, NEW kept \in BOOLEAN
  PROVE  LET p == PathAfter(entries, kept)
             heldNow == kept \/ \E n \in Nets : entries[n] # "none"
         IN  /\ p[1] \in Ages(LearnedExpire)
             /\ p[2] \in Ages(PeerForget) /\ p[3] \in Ages(PeerForget)
             /\ p[2] # Never => p[1] # Never /\ p[1] >= p[2]
             /\ heldNow => p[1] # Never
             /\ heldNow /\ firstSeen # Never => p = <<firstSeen, lastRecv, lastRelayRecv>>
<1> DEFINE p == PathAfter(entries, kept)
<1>0. entries = Nothing <=> \A n \in Nets : entries[n] = "none"
  BY DEF Nothing, Entries
<1>1. CASE ~kept /\ \A n \in Nets : entries[n] = "none"
  <2>1. p = <<Never, Never, Never>>
    BY <1>0, <1>1 DEF PathAfter
  <2> QED BY <1>1, <2>1 DEF Ages
<1>2. CASE (kept \/ \E n \in Nets : entries[n] # "none") /\ firstSeen = Never
  <2>1. p = <<0, Never, Never>>
    BY <1>0, <1>2 DEF PathAfter
  <2> QED BY <1>2, <2>1, ThresholdsAssumption DEF Ages, Never
<1>3. CASE (kept \/ \E n \in Nets : entries[n] # "none") /\ firstSeen # Never
  <2>1. p = <<firstSeen, lastRecv, lastRelayRecv>>
    BY <1>0, <1>3 DEF PathAfter
  <2> QED BY <1>3, <2>1 DEF TypeOK, PathIsOlder
<1> QED BY <1>1, <1>2, <1>3

(* A frame credited to a path leaves it of its shape and its start alone. *)
LEMMA CreditedShape ==
  ASSUME NEW p, NEW way \in {"direct", "relay"},
         p[1] \in Ages(LearnedExpire) /\ p[1] # Never,
         p[2] \in Ages(PeerForget) /\ p[3] \in Ages(PeerForget),
         p[2] # Never => p[1] # Never /\ p[1] >= p[2]
  PROVE  LET c == Credited(p, way)
         IN  /\ c[1] = p[1] /\ c[2] \in {0, p[2]} /\ c[3] \in {0, p[3]}
             /\ c[2] \in Ages(PeerForget) /\ c[3] \in Ages(PeerForget)
             /\ c[2] # Never => c[1] # Never /\ c[1] >= c[2]
<1> DEFINE c == Credited(p, way)
<1>1. c = <<p[1], p[2], 0>> \/ c = <<p[1], 0, p[3]>>
  BY DEF Credited
<1>2. c[1] = p[1] /\ c[2] \in {0, p[2]} /\ c[3] \in {0, p[3]}
  BY <1>1
<1>3. 0 \in Ages(PeerForget)
  BY ThresholdsAssumption DEF Ages
<1> QED BY <1>2, <1>3 DEF Ages, Never

(* What entries and path must be after a step, in terms of the steps.  An    *)
(* entry leaves only with its ages, and the path is there for those left.    *)
LEMMA LeaveKeeps ==
  ASSUME HealthInv, NEW entries \in Entries,
         \A n \in Nets : entries[n] # "none" => entries[n] = peer[n] /\ n \in joined',
         peer' = entries, netRecv' = KeptAges(netRecv, entries),
         absent' = KeptAges(absent, entries), unlisted' = KeptAges(unlisted, entries),
         SetPath(PathAfter(entries, stray)),
         joined' \subseteq Nets, UNCHANGED <<stray, envVars>>,
         rd' \in ReaderStates, rd'.held = "live" => rd'.net \in joined'
  PROVE  HealthInv'
<1>1. /\ netRecv' \in [Nets -> Ages(LearnedExpire)]
      /\ absent' \in [Nets -> Ages(PeerForget)] /\ unlisted' \in [Nets -> Ages(PeerForget)]
      /\ \A n \in Nets : entries[n] # "none" =>
            netRecv'[n] = netRecv[n] /\ absent'[n] = absent[n] /\ unlisted'[n] = unlisted[n]
  BY KeptAgesShape, ThresholdsAssumption DEF HealthInv, TypeOK
<1>2. /\ firstSeen' \in Ages(LearnedExpire)
      /\ lastRecv' \in Ages(PeerForget) /\ lastRelayRecv' \in Ages(PeerForget)
      /\ (\E n \in Nets : entries[n] # "none") => firstSeen' # Never
      /\ PathIsOlder'
  <2>1. stray \in BOOLEAN
    BY DEF HealthInv, TypeOK
  <2> QED BY <2>1, PathAfterShape DEF HealthInv, SetPath, PathIsOlder
<1>3. TypeOK'
  BY <1>1, <1>2 DEF HealthInv, TypeOK, envVars, Entries
<1>4. LearnedIsHeard'
  BY <1>1 DEF HealthInv, LearnedIsHeard, Within
<1>5. WaitIsWarranted'
  BY <1>1 DEF HealthInv, WaitIsWarranted
<1> QED BY <1>2, <1>3, <1>4, <1>5 DEF HealthInv

(* Leaving a network takes the peer's entry there away, and an opened frame  *)
(* of it is one of a removed network.                                        *)
LEMMA RemoveNetworkKeeps ==
  ASSUME HealthInv, NEW n \in Nets, RemoveNetwork(n)
  PROVE  HealthInv'
<1> DEFINE entries == [peer EXCEPT ![n] = "none"]
<1>1. entries \in Entries /\ \A m \in Nets : entries[m] # "none" => entries[m] = peer[m] /\ m # n
  BY DEF HealthInv, TypeOK, Entries
<1>2. \A m \in Nets : entries[m] # "none" => entries[m] = peer[m] /\ m \in joined'
  BY <1>1 DEF RemoveNetwork, HealthInv, TypeOK
<1>3. joined' \subseteq Nets
  BY DEF RemoveNetwork, HealthInv, TypeOK
<1>4. rd' \in ReaderStates /\ (rd'.held = "live" => rd'.net \in joined')
  <2>1. rd \in ReaderStates /\ (rd.held = "live" => rd.net \in joined)
    BY DEF HealthInv, TypeOK
  <2>2. CASE rd.held = "live" /\ rd.net = n
    <3>1. rd' \in {[rd EXCEPT !.held = "with"], [rd EXCEPT !.held = "without"]}
      BY <2>2 DEF RemoveNetwork
    <3>2. rd \in [held : {"live", "with", "without"}, net : Nets]
      BY <2>1, <2>2 DEF ReaderStates, Idle
    <3> QED BY <3>1, <3>2 DEF ReaderStates
  <2>3. CASE ~(rd.held = "live" /\ rd.net = n)
    BY <2>1, <2>3 DEF RemoveNetwork
  <2> QED BY <2>2, <2>3
<1> QED BY <1>1, <1>2, <1>3, <1>4, LeaveKeeps DEF RemoveNetwork

(* SyncPeers with an answer: the peer is listed from now on. *)
LEMMA SyncListedKeeps ==
  ASSUME HealthInv, NEW n \in Nets, SyncListed(n)
  PROVE  HealthInv'
<1> DEFINE entries == [peer EXCEPT ![n] = "listed"]
<1>1. /\ entries \in Entries /\ entries[n] = "listed"
      /\ \A m \in Nets : m # n => entries[m] = peer[m]
  BY DEF HealthInv, TypeOK, Entries
<1>2. /\ unlisted'[n] = 0 /\ absent'[n] = Never
      /\ \A m \in Nets : m # n => unlisted'[m] = unlisted[m] /\ absent'[m] = absent[m]
      /\ unlisted' \in [Nets -> Ages(PeerForget)] /\ absent' \in [Nets -> Ages(PeerForget)]
  BY ThresholdsAssumption DEF SyncListed, HealthInv, TypeOK, Ages
<1>6. /\ firstSeen' \in Ages(LearnedExpire) /\ firstSeen' # Never
      /\ lastRecv' \in Ages(PeerForget) /\ lastRelayRecv' \in Ages(PeerForget)
      /\ PathIsOlder'
  <2>1. stray \in BOOLEAN
    BY DEF HealthInv, TypeOK
  <2> QED BY <1>1, <2>1, PathAfterShape DEF SyncListed, HealthInv, SetPath, PathIsOlder
<1>3. TypeOK'
  <2>1. \A m \in Nets : entries[m] # "none" => m \in joined
    BY <1>1 DEF SyncListed, HealthInv, TypeOK
  <2>2. \A m \in Nets \ SignalNets : entries[m] # "listed"
    BY <1>1 DEF SyncListed, HealthInv, TypeOK
  <2>3. (\E m \in Nets : entries[m] # "none") => firstSeen' # Never
    BY <1>6
  <2> QED BY <1>1, <1>2, <1>6, <2>1, <2>2, <2>3
          DEF SyncListed, HealthInv, TypeOK, readerVars, envVars, Entries
<1>4. LearnedIsHeard'
  BY <1>1 DEF SyncListed, HealthInv, LearnedIsHeard, Within
<1>5. WaitIsWarranted'
  BY <1>1, <1>2 DEF SyncListed, HealthInv, WaitIsWarranted, Never
<1> QED BY <1>3, <1>4, <1>5, <1>6 DEF HealthInv

(* An answer without the peer either starts the wait, when it is no longer   *)
(* than the time since the peer was listed, or ends it.                      *)
LEMMA SyncUnlistedKeeps ==
  ASSUME HealthInv, NEW n \in Nets, SyncUnlisted(n)
  PROVE  HealthInv'
<1>1. CASE absent[n] < PeerForget /\ absent' = [absent EXCEPT ![n] = AbsentAfterMiss(n)]
           /\ UNCHANGED <<peer, netRecv, unlisted, pathVars>>
  <2>1. /\ absent' \in [Nets -> Ages(PeerForget)]
        /\ absent'[n] = IF absent[n] = Never THEN 0 ELSE absent[n]
        /\ \A m \in Nets : m # n => absent'[m] = absent[m]
    BY <1>1, ThresholdsAssumption DEF HealthInv, TypeOK, Ages, AbsentAfterMiss
  <2>2. TypeOK'
    BY <1>1, <2>1 DEF SyncUnlisted, HealthInv, TypeOK, pathVars, readerVars, envVars
  <2>3. LearnedIsHeard'
    BY <1>1 DEF HealthInv, LearnedIsHeard, Within
  <2>4. unlisted[n] \in Ages(PeerForget)
    BY DEF HealthInv, TypeOK
  <2>5. WaitIsWarranted'
    BY <1>1, <2>1, <2>4, ThresholdsAssumption DEF HealthInv, WaitIsWarranted, Ages, Never
  <2>6. PathIsOlder'
    BY <1>1 DEF HealthInv, PathIsOlder, pathVars
  <2> QED BY <2>2, <2>3, <2>5, <2>6 DEF HealthInv
<1>2. CASE LET entries == [peer EXCEPT ![n] = "none"] IN
           /\ peer' = entries /\ netRecv' = KeptAges(netRecv, entries)
           /\ absent' = KeptAges(absent, entries) /\ unlisted' = KeptAges(unlisted, entries)
           /\ SetPath(PathAfter(entries, stray))
  <2> DEFINE entries == [peer EXCEPT ![n] = "none"]
  <2>1. entries \in Entries /\ \A m \in Nets : entries[m] # "none" => entries[m] = peer[m] /\ m # n
    BY DEF HealthInv, TypeOK, Entries
  <2>2. \A m \in Nets : entries[m] # "none" => entries[m] = peer[m] /\ m \in joined'
    BY <2>1 DEF SyncUnlisted, HealthInv, TypeOK
  <2>3. joined' \subseteq Nets
    BY DEF SyncUnlisted, HealthInv, TypeOK
  <2>4. rd' \in ReaderStates /\ (rd'.held = "live" => rd'.net \in joined')
    BY DEF SyncUnlisted, HealthInv, TypeOK, readerVars
  <2> QED BY <1>2, <2>1, <2>2, <2>3, <2>4, LeaveKeeps DEF SyncUnlisted, readerVars
<1> QED BY <1>1, <1>2 DEF SyncUnlisted

(* netToTun: whoever is heard in a network is heard of it just now. *)
LEMMA CreditFrameKeeps ==
  ASSUME HealthInv, NEW way \in {"direct", "relay"}, CreditFrame(way)
  PROVE  HealthInv'
<1> DEFINE n == rd.net
           entries == IF peer[n] = "none" THEN [peer EXCEPT ![n] = "learned"] ELSE peer
           p == PathAfter(entries, stray)
           c == Credited(p, way)
<1>0. n \in joined /\ n \in Nets
  BY DEF CreditFrame, HealthInv, TypeOK
<1>1. /\ entries \in Entries /\ entries[n] # "none"
      /\ \A m \in Nets : m # n => entries[m] = peer[m]
      /\ entries[n] = "listed" => peer[n] = "listed"
  BY <1>0 DEF HealthInv, TypeOK, Entries
<1>2. /\ netRecv' \in [Nets -> Ages(LearnedExpire)]
      /\ netRecv'[n] = 0 /\ \A m \in Nets : m # n => netRecv'[m] = netRecv[m]
  BY <1>0, ThresholdsAssumption DEF CreditFrame, HealthInv, TypeOK, Ages
<1>3. /\ firstSeen' \in Ages(LearnedExpire) /\ firstSeen' # Never
      /\ lastRecv' \in Ages(PeerForget) /\ lastRelayRecv' \in Ages(PeerForget)
      /\ PathIsOlder'
  <2>1. /\ p[1] \in Ages(LearnedExpire) /\ p[1] # Never
        /\ p[2] \in Ages(PeerForget) /\ p[3] \in Ages(PeerForget)
        /\ p[2] # Never => p[1] # Never /\ p[1] >= p[2]
    <3>1. stray \in BOOLEAN /\ \E m \in Nets : entries[m] # "none"
      BY <1>0, <1>1 DEF HealthInv, TypeOK
    <3> QED BY <1>1, <3>1, PathAfterShape DEF HealthInv
  <2>2. /\ c[1] = p[1] /\ c[2] \in {0, p[2]} /\ c[3] \in {0, p[3]}
        /\ c[2] \in Ages(PeerForget) /\ c[3] \in Ages(PeerForget)
        /\ c[2] # Never => c[1] # Never /\ c[1] >= c[2]
    BY <2>1, CreditedShape
  <2>3. firstSeen' = c[1] /\ lastRecv' = c[2] /\ lastRelayRecv' = c[3]
    BY DEF CreditFrame, SetPath
  <2> QED BY <2>1, <2>2, <2>3 DEF PathIsOlder
<1>4. TypeOK'
  <2>1. /\ peer' = entries /\ rd' = Idle
        /\ UNCHANGED <<joined, absent, unlisted, stray, envVars>>
    BY DEF CreditFrame
  <2>2. \A m \in Nets : entries[m] # "none" => m \in joined
    BY <1>0, <1>1 DEF HealthInv, TypeOK
  <2>3. \A m \in Nets \ SignalNets : entries[m] # "listed"
    BY <1>1 DEF HealthInv, TypeOK
  <2>4. rd' \in ReaderStates /\ rd'.held # "live"
    BY <2>1 DEF ReaderStates, Idle
  <2> QED BY <1>1, <1>2, <1>3, <2>1, <2>2, <2>3, <2>4 DEF HealthInv, TypeOK, envVars, Entries
<1>5. LearnedIsHeard'
  BY <1>1, <1>2, ThresholdsAssumption DEF CreditFrame, HealthInv, LearnedIsHeard, Within, Never
<1>6. WaitIsWarranted'
  BY <1>1 DEF CreditFrame, HealthInv, WaitIsWarranted
<1> QED BY <1>3, <1>4, <1>5, <1>6 DEF HealthInv

(* The entry of a network that is gone changes only the path. *)
LEMMA LearnStrayKeeps ==
  ASSUME HealthInv, NEW way \in {"direct", "relay"}, LearnStray(way)
  PROVE  HealthInv'
<1> DEFINE p == PathAfter(peer, TRUE)
           c == Credited(p, way)
<1>1. /\ p[1] \in Ages(LearnedExpire) /\ p[1] # Never
      /\ p[2] \in Ages(PeerForget) /\ p[3] \in Ages(PeerForget)
      /\ p[2] # Never => p[1] # Never /\ p[1] >= p[2]
  <2>1. peer \in Entries
    BY DEF HealthInv, TypeOK, Entries
  <2> QED BY <2>1, PathAfterShape DEF HealthInv
<1>2. /\ c[1] = p[1] /\ c[2] \in {0, p[2]} /\ c[3] \in {0, p[3]}
      /\ c[2] \in Ages(PeerForget) /\ c[3] \in Ages(PeerForget)
      /\ c[2] # Never => c[1] # Never /\ c[1] >= c[2]
  BY <1>1, CreditedShape
<1>3. firstSeen' = c[1] /\ lastRecv' = c[2] /\ lastRelayRecv' = c[3]
  BY DEF LearnStray, SetPath
<1>4. TypeOK'
  <2>1. rd' \in ReaderStates /\ rd'.held # "live" /\ stray' \in BOOLEAN
    BY DEF LearnStray, ReaderStates, Idle
  <2> QED BY <1>1, <1>2, <1>3, <2>1 DEF LearnStray, HealthInv, TypeOK, entryVars, envVars
<1>5. LearnedIsHeard' /\ WaitIsWarranted'
  BY DEF LearnStray, HealthInv, LearnedIsHeard, WaitIsWarranted, Within, entryVars
<1>6. PathIsOlder'
  BY <1>1, <1>2, <1>3 DEF PathIsOlder
<1> QED BY <1>4, <1>5, <1>6 DEF HealthInv

(* Steps that leave entries and path alone. *)
LEMMA QuietKeeps ==
  ASSUME HealthInv, UNCHANGED <<joined, entryVars, pathVars>>,
         rd' \in ReaderStates, rd'.held = "live" => rd'.net \in joined, stray' \in BOOLEAN,
         peerIn' \subseteq Nets, registered' \subseteq SignalNets
  PROVE  HealthInv'
<1>1. TypeOK'
  BY DEF HealthInv, TypeOK, entryVars, pathVars
<1>2. LearnedIsHeard' /\ WaitIsWarranted' /\ PathIsOlder'
  BY DEF HealthInv, LearnedIsHeard, WaitIsWarranted, PathIsOlder, Within, entryVars, pathVars
<1> QED BY <1>1, <1>2 DEF HealthInv

(* A tick ages what an entry remembers alike, and the learned entry that is  *)
(* too old goes with it.                                                     *)
LEMMA MaintenanceKeeps ==
  ASSUME HealthInv, Maintenance
  PROVE  HealthInv'
<1> DEFINE entries == [n \in Nets |-> IF Expired(n) THEN "none" ELSE peer[n]]
           p == PathAfter(entries, stray)
           Aged(ages, cap) == [n \in Nets |-> Older(ages[n], cap)]
<1>1. entries \in Entries /\ \A n \in Nets : entries[n] # "none" => entries[n] = peer[n] /\ ~Expired(n)
  BY DEF HealthInv, TypeOK, Entries
<1>2. /\ Aged(netRecv, LearnedExpire) \in [Nets -> Ages(LearnedExpire)]
      /\ Aged(absent, PeerForget) \in [Nets -> Ages(PeerForget)]
      /\ Aged(unlisted, PeerForget) \in [Nets -> Ages(PeerForget)]
  BY OlderAges, ThresholdsAssumption DEF HealthInv, TypeOK
<1>3. /\ peer' = entries /\ netRecv' = KeptAges(Aged(netRecv, LearnedExpire), entries)
      /\ absent' = KeptAges(Aged(absent, PeerForget), entries)
      /\ unlisted' = KeptAges(Aged(unlisted, PeerForget), entries)
      /\ firstSeen' = Older(p[1], LearnedExpire)
      /\ lastRecv' = Older(p[2], PeerForget) /\ lastRelayRecv' = Older(p[3], PeerForget)
      /\ UNCHANGED <<joined, readerVars, envVars>>
  BY DEF Maintenance, SetPath
<1>4. /\ netRecv' \in [Nets -> Ages(LearnedExpire)]
      /\ absent' \in [Nets -> Ages(PeerForget)] /\ unlisted' \in [Nets -> Ages(PeerForget)]
      /\ \A n \in Nets : entries[n] # "none" =>
            /\ netRecv'[n] = Older(netRecv[n], LearnedExpire)
            /\ absent'[n] = Older(absent[n], PeerForget)
            /\ unlisted'[n] = Older(unlisted[n], PeerForget)
  BY <1>1, <1>2, <1>3, KeptAgesShape, ThresholdsAssumption
<1>8. /\ firstSeen' \in Ages(LearnedExpire)
      /\ lastRecv' \in Ages(PeerForget) /\ lastRelayRecv' \in Ages(PeerForget)
      /\ (\E n \in Nets : entries[n] # "none") => firstSeen' # Never
      /\ PathIsOlder'
  <2>1. /\ p[1] \in Ages(LearnedExpire) /\ p[2] \in Ages(PeerForget) /\ p[3] \in Ages(PeerForget)
        /\ (\E n \in Nets : entries[n] # "none") => p[1] # Never
        /\ p[2] # Never => p[1] # Never /\ p[1] >= p[2]
    <3>1. stray \in BOOLEAN
      BY DEF HealthInv, TypeOK
    <3> QED BY <1>1, <3>1, PathAfterShape DEF HealthInv
  <2>2. /\ firstSeen' \in Ages(LearnedExpire) /\ (firstSeen' = Never <=> p[1] = Never)
        /\ lastRecv' \in Ages(PeerForget) /\ (lastRecv' = Never <=> p[2] = Never)
        /\ lastRelayRecv' \in Ages(PeerForget)
    BY <1>3, <2>1, OlderAges, ThresholdsAssumption
  <2>3. ASSUME lastRecv' # Never PROVE firstSeen' >= lastRecv'
    <3>1. p[2] \in 0..PeerForget /\ p[1] \in 0..LearnedExpire /\ p[2] <= p[1]
      BY <2>1, <2>2, <2>3 DEF Ages
    <3>2. Older(p[2], PeerForget) <= Older(p[1], LearnedExpire)
      BY <3>1, OlderMonotone, ThresholdsAssumption
    <3>3. lastRecv' \in Int /\ firstSeen' \in Int
      BY <2>2 DEF Ages, Never
    <3> QED BY <1>3, <3>2, <3>3
  <2> QED BY <2>1, <2>2, <2>3 DEF PathIsOlder
<1>5. TypeOK'
  BY <1>1, <1>3, <1>4, <1>8 DEF HealthInv, TypeOK, readerVars, envVars, Entries
<1>6. LearnedIsHeard'
  <2> SUFFICES ASSUME NEW n \in Nets, entries[n] = "learned"
               PROVE  Within(netRecv'[n], LearnedExpire)
    BY <1>3 DEF LearnedIsHeard
  <2>1. netRecv[n] # Never /\ peer[n] = "learned" /\ ~Expired(n)
    BY <1>1 DEF HealthInv, LearnedIsHeard, Within
  <2>2. Older(netRecv[n], LearnedExpire) < LearnedExpire
    BY <2>1, OlderAges, ThresholdsAssumption DEF Expired, LastHeardIn, HealthInv, TypeOK, Ages, Never
  <2> QED BY <1>4, <2>1, <2>2, OlderAges, ThresholdsAssumption DEF Within, HealthInv, TypeOK
<1>7. WaitIsWarranted'
  <2> SUFFICES ASSUME NEW n \in Nets, entries[n] = "listed"
               PROVE  /\ unlisted'[n] # Never
                      /\ absent'[n] # Never => absent'[n] <= unlisted'[n]
    BY <1>3 DEF WaitIsWarranted
  <2>1. /\ unlisted[n] # Never
        /\ absent[n] # Never => absent[n] <= unlisted[n]
        /\ unlisted[n] \in Ages(PeerForget) /\ absent[n] \in Ages(PeerForget)
    BY <1>1 DEF HealthInv, WaitIsWarranted, TypeOK
  <2>2. unlisted[n] \in 0..PeerForget /\ (absent[n] # Never => absent[n] \in 0..PeerForget)
    BY <2>1 DEF Ages
  <2>3. /\ Older(unlisted[n], PeerForget) # Never
        /\ Older(absent[n], PeerForget) # Never => absent[n] # Never
    BY <2>1, OlderAges, ThresholdsAssumption
  <2>4. absent[n] # Never => Older(absent[n], PeerForget) <= Older(unlisted[n], PeerForget)
    BY <2>1, <2>2, OlderMonotone, ThresholdsAssumption
  <2> QED BY <1>4, <2>3, <2>4
<1> QED BY <1>5, <1>6, <1>7, <1>8 DEF HealthInv

(* The invariant holds in every reachable state. *)
LEMMA HealthInductive == Spec => []HealthInv
<1>1. Init => HealthInv
  <2> SUFFICES ASSUME Init PROVE HealthInv
    OBVIOUS
  <2>1. /\ peer \in Entries /\ \A n \in Nets : peer[n] = "none"
        /\ netRecv \in [Nets -> Ages(LearnedExpire)]
        /\ absent \in [Nets -> Ages(PeerForget)] /\ unlisted \in [Nets -> Ages(PeerForget)]
    BY DEF Init, Nothing, NeverIn, Entries, Ages
  <2>2. rd \in ReaderStates /\ rd.held # "live" /\ stray \in BOOLEAN
    BY DEF Init, ReaderStates, Idle
  <2>3. TypeOK
    BY <2>1, <2>2 DEF Init, TypeOK, Entries, Ages
  <2>4. LearnedIsHeard /\ WaitIsWarranted /\ PathIsOlder
    BY <2>1 DEF Init, LearnedIsHeard, WaitIsWarranted, PathIsOlder
  <2> QED BY <2>3, <2>4 DEF HealthInv
<1>2. HealthInv /\ [Next]_vars => HealthInv'
  <2> SUFFICES ASSUME HealthInv, [Next]_vars PROVE HealthInv'
    OBVIOUS
  <2>0. /\ rd \in ReaderStates /\ (rd.held = "live" => rd.net \in joined) /\ stray \in BOOLEAN
        /\ joined \subseteq Nets /\ peerIn \subseteq Nets /\ registered \subseteq SignalNets
    BY DEF HealthInv, TypeOK
  <2>1. ASSUME NEW n \in Nets, AddNetworkRelay(n) PROVE HealthInv'
    BY <2>1 DEF AddNetworkRelay, HealthInv, TypeOK, LearnedIsHeard, WaitIsWarranted, PathIsOlder,
                Within, entryVars, pathVars, readerVars, envVars
  <2>2. ASSUME NEW n \in Nets, Round(n) PROVE HealthInv'
    BY <2>2, SyncListedKeeps, SyncUnlistedKeeps DEF Round
  <2>3. ASSUME NEW n \in Nets, OpenFrame(n) PROVE HealthInv'
    <3>1. rd' \in ReaderStates /\ (rd'.held = "live" => rd'.net \in joined)
      BY <2>0, <2>3 DEF OpenFrame, ReaderStates
    <3> QED BY <2>0, <2>3, <3>1, QuietKeeps DEF OpenFrame, envVars
  <2>4. CASE DropFrame
    <3>1. rd' \in ReaderStates /\ (rd'.held = "live" => rd'.net \in joined)
      BY <2>4 DEF DropFrame, ReaderStates, Idle
    <3> QED BY <2>0, <2>4, <3>1, QuietKeeps DEF DropFrame, envVars
  <2>5. CASE Panic
    BY <2>0, <2>5, ThresholdsAssumption
       DEF Panic, SetPath, HealthInv, TypeOK, LearnedIsHeard, WaitIsWarranted, PathIsOlder, Ages,
           Nothing, NeverIn, ReaderStates, Idle, envVars
  <2>6. CASE EndFrame
    BY <2>4, <2>5, <2>6, CreditFrameKeeps, LearnStrayKeeps DEF EndFrame
  <2>7. CASE PeerMoves
    <3>1. peerIn' \subseteq Nets /\ registered' \subseteq SignalNets
      BY <2>0, <2>7 DEF PeerMoves
    <3> QED BY <2>0, <2>7, <3>1, QuietKeeps DEF PeerMoves, readerVars
  <2>8. CASE UNCHANGED vars
    BY <2>0, <2>8, QuietKeeps DEF vars, readerVars, envVars
  <2> QED BY <2>1, <2>2, <2>3, <2>6, <2>7, <2>8, RemoveNetworkKeeps, MaintenanceKeeps DEF Next
<1> QED BY <1>1, <1>2, PTL DEF Spec

-----------------------------------------------------------------------------
(* Type correctness for any networks and thresholds: only a network that is  *)
(* joined has the peer, and a peer in some network has a path.               *)
THEOREM TypeCorrect == Spec => []TypeOK
<1>1. HealthInv => TypeOK
  BY DEF HealthInv
<1> QED BY <1>1, HealthInductive, PTL

(* A peer known from traffic alone stays only by frames of that network. *)
THEOREM LearnedStaysByItsFrames == Spec => []LearnedIsHeard
<1>1. HealthInv => LearnedIsHeard
  BY DEF HealthInv
<1> QED BY <1>1, HealthInductive, PTL

(* Signalling drops a peer only after peerForget without being listed and    *)
(* without a word from it on any way.                                        *)
THEOREM GoneBeforeForgotten == Spec => ForgottenWhenGone
<1>1. ASSUME HealthInv, [Next]_vars, NEW n \in Nets,
             peer[n] = "listed", peer'[n] = "none", n \in joined'
      PROVE  unlisted[n] >= PeerForget /\ LastHeard >= PeerForget
  <2>1. peer \in Entries
    BY <1>1 DEF HealthInv, TypeOK, Entries
  <2>2. CASE SyncUnlisted(n)
    <3>1. absent[n] >= PeerForget /\ LastHeard >= PeerForget
      BY <1>1, <2>1, <2>2 DEF SyncUnlisted
    <3>2. /\ unlisted[n] \in Ages(PeerForget) /\ absent[n] \in Ages(PeerForget)
          /\ absent[n] # Never => absent[n] <= unlisted[n]
      BY <1>1 DEF HealthInv, TypeOK, WaitIsWarranted
    <3> QED BY <3>1, <3>2, ThresholdsAssumption DEF Ages, Never
  <2>3. ASSUME NEW m \in Nets, SyncUnlisted(m), m # n PROVE FALSE
    BY <1>1, <2>1, <2>3 DEF SyncUnlisted, Entries
  <2>4. ASSUME NEW m \in Nets, SyncListed(m) PROVE FALSE
    BY <1>1, <2>1, <2>4 DEF SyncListed, Entries
  <2>5. ASSUME NEW m \in Nets, RemoveNetwork(m) PROVE FALSE
    <3>1. m # n
      BY <1>1, <2>5 DEF RemoveNetwork
    <3> QED BY <1>1, <2>1, <2>5, <3>1 DEF RemoveNetwork, Entries
  <2>6. ASSUME NEW way \in {"direct", "relay"}, CreditFrame(way) PROVE FALSE
    BY <1>1, <2>1, <2>6 DEF CreditFrame, Entries
  <2>7. ASSUME Maintenance PROVE FALSE
    BY <1>1, <2>1, <2>7 DEF Maintenance, Expired, Entries
  <2>8. ASSUME Panic PROVE FALSE
    BY <1>1, <2>8 DEF Panic
  <2>9. ASSUME \/ \E m \in Nets : AddNetworkRelay(m) \/ OpenFrame(m)
               \/ DropFrame \/ \E way \in {"direct", "relay"} : LearnStray(way)
               \/ PeerMoves \/ UNCHANGED vars
        PROVE  FALSE
    BY <1>1, <2>9
       DEF AddNetworkRelay, OpenFrame, DropFrame, LearnStray, PeerMoves, vars, entryVars
  <2> QED BY <1>1, <2>2, <2>3, <2>4, <2>5, <2>6, <2>7, <2>8, <2>9 DEF Next, Round, EndFrame
<1>2. HealthInv /\ [Next]_vars =>
          [\A n \in Nets : peer[n] = "listed" /\ peer'[n] = "none" /\ n \in joined'
               => unlisted[n] >= PeerForget /\ LastHeard >= PeerForget]_vars
  BY <1>1
<1> QED BY <1>2, HealthInductive, PTL DEF Spec, ForgottenWhenGone

(* The path of a peer that some network keeps through a step: its start      *)
(* stays, and the direct way is confirmed anew, left alone or a tick older.  *)
LEMMA PathThroughStep ==
  ASSUME HealthInv, [Next]_vars, NEW n \in Nets, peer[n] # "none", peer'[n] # "none"
  PROVE  /\ firstSeen \in 0..LearnedExpire /\ firstSeen' >= firstSeen
         /\ lastRecv' \in {0, lastRecv, Older(lastRecv, PeerForget)}
<1>1. /\ TypeOK /\ PathIsOlder /\ firstSeen # Never /\ stray \in BOOLEAN
      /\ firstSeen \in Ages(LearnedExpire) /\ lastRecv \in Ages(PeerForget)
  BY DEF HealthInv, TypeOK
<1>2. peer \in Entries /\ firstSeen \in 0..LearnedExpire
  BY <1>1 DEF TypeOK, Entries, Ages, Never
<1>3. ASSUME NEW entries \in Entries, peer' = entries
      PROVE  PathAfter(entries, stray) = <<firstSeen, lastRecv, lastRelayRecv>>
  BY <1>1, <1>3, PathAfterShape
<1>4. ASSUME NEW entries \in Entries, peer' = entries, SetPath(PathAfter(entries, stray))
      PROVE  UNCHANGED <<firstSeen, lastRecv>>
  BY <1>3, <1>4 DEF SetPath
<1>5. ASSUME NEW m \in Nets, RemoveNetwork(m) \/ SyncListed(m) \/ SyncUnlisted(m)
      PROVE  UNCHANGED <<firstSeen, lastRecv>>
  <2>1. [peer EXCEPT ![m] = "none"] \in Entries /\ [peer EXCEPT ![m] = "listed"] \in Entries
    BY <1>2 DEF Entries
  <2>2. CASE RemoveNetwork(m)
    BY <1>4, <2>1, <2>2 DEF RemoveNetwork
  <2>3. CASE SyncListed(m)
    BY <1>4, <2>1, <2>3 DEF SyncListed
  <2>4. CASE SyncUnlisted(m)
    BY <1>4, <2>1, <2>4 DEF SyncUnlisted, pathVars
  <2> QED BY <1>5, <2>2, <2>3, <2>4
<1>6. ASSUME NEW p, NEW way \in {"direct", "relay"}, p = <<firstSeen, lastRecv, lastRelayRecv>>,
             SetPath(Credited(p, way))
      PROVE  firstSeen' = firstSeen /\ lastRecv' \in {0, lastRecv}
  BY <1>6 DEF SetPath, Credited
<1>7. ASSUME NEW way \in {"direct", "relay"}, CreditFrame(way)
      PROVE  firstSeen' = firstSeen /\ lastRecv' \in {0, lastRecv}
  <2> DEFINE entries == IF peer[rd.net] = "none" THEN [peer EXCEPT ![rd.net] = "learned"] ELSE peer
  <2>1. entries \in Entries /\ peer' = entries
    BY <1>2, <1>7 DEF CreditFrame, Entries
  <2>2. PathAfter(entries, stray) = <<firstSeen, lastRecv, lastRelayRecv>>
    BY <1>3, <2>1
  <2> QED BY <1>6, <1>7, <2>2 DEF CreditFrame
<1>8. ASSUME NEW way \in {"direct", "relay"}, LearnStray(way)
      PROVE  firstSeen' = firstSeen /\ lastRecv' \in {0, lastRecv}
  <2>1. PathAfter(peer, TRUE) = <<firstSeen, lastRecv, lastRelayRecv>>
    BY <1>1, <1>2, PathAfterShape
  <2> QED BY <1>6, <1>8, <2>1 DEF LearnStray
<1>9. CASE Maintenance
  <2> DEFINE entries == [m \in Nets |-> IF Expired(m) THEN "none" ELSE peer[m]]
             p == PathAfter(entries, stray)
  <2>1. entries \in Entries /\ peer' = entries
    BY <1>2, <1>9 DEF Maintenance, Entries
  <2>2. p = <<firstSeen, lastRecv, lastRelayRecv>>
    BY <1>3, <2>1
  <2>3. firstSeen' = Older(p[1], LearnedExpire) /\ lastRecv' = Older(p[2], PeerForget)
    BY <1>9 DEF Maintenance, SetPath
  <2> QED BY <1>1, <1>2, <2>2, <2>3, OlderAges, ThresholdsAssumption
<1>10. ~Panic
  BY DEF Panic, Nothing
<1>11. CASE \/ \E m \in Nets : AddNetworkRelay(m) \/ OpenFrame(m)
            \/ DropFrame \/ PeerMoves \/ UNCHANGED vars
  BY <1>2, <1>11 DEF AddNetworkRelay, OpenFrame, DropFrame, PeerMoves, vars, pathVars
<1> QED BY <1>2, <1>5, <1>7, <1>8, <1>9, <1>10, <1>11 DEF Next, Round, EndFrame

(* Networks that come and go leave the path to a peer as it is while one of  *)
(* them keeps the peer.                                                      *)
THEOREM PathOutlivesNetworks == Spec => PathKeptWhole
<1>1. ASSUME HealthInv, [Next]_vars, \E n \in Nets : peer[n] # "none" /\ peer'[n] # "none"
      PROVE  /\ lastRecv # Never => lastRecv' # Never
             /\ firstSeen' >= firstSeen
  <2>1. /\ firstSeen' >= firstSeen
        /\ lastRecv' \in {0, lastRecv, Older(lastRecv, PeerForget)}
    BY <1>1, PathThroughStep
  <2>2. lastRecv \in Ages(PeerForget)
    BY <1>1 DEF HealthInv, TypeOK
  <2> QED BY <2>1, <2>2, OlderAges, ThresholdsAssumption DEF Never
<1>2. HealthInv /\ [Next]_vars =>
          [(\E n \in Nets : peer[n] # "none" /\ peer'[n] # "none") =>
               /\ lastRecv # Never => lastRecv' # Never
               /\ firstSeen' >= firstSeen]_vars
  BY <1>1
<1> QED BY <1>2, HealthInductive, PTL DEF Spec, PathKeptWhole

(* A peer that a network has a way to is not lost between the direct path    *)
(* and the relay: by the time the first is given up, after peerTimeout of    *)
(* silence, the path is old enough for the second.                           *)
THEOREM WayIsKept == Spec => WayHolds
<1>1. ASSUME HealthInv, HealthInv', [Next]_vars, NEW n \in Nets, peer[n] # "none", peer'[n] # "none"
      PROVE  /\ n \in RelayNets /\ Way(n) # "dropped" => Way(n)' # "dropped"
             /\ Way(n) = "direct" /\ Way(n)' # "direct" => lastRecv + 1 >= PeerTimeout
  <2>1. /\ firstSeen \in 0..LearnedExpire /\ firstSeen' >= firstSeen
        /\ lastRecv' \in {0, lastRecv, Older(lastRecv, PeerForget)}
    BY <1>1, PathThroughStep
  <2>2. /\ lastRecv \in Ages(PeerForget) /\ lastRecv' \in Ages(PeerForget)
        /\ firstSeen' \in Ages(LearnedExpire) /\ firstSeen' # Never
        /\ lastRecv' # Never => firstSeen' >= lastRecv'
    BY <1>1 DEF HealthInv, TypeOK, PathIsOlder
  <2>3. ASSUME DirectAddr, ~DirectAddr'
        PROVE  lastRecv + 1 >= PeerTimeout /\ UsableRelay'
    <3>1. lastRecv \in Nat /\ lastRecv < PeerTimeout /\ lastRecv < PeerForget
      BY <2>2, <2>3, ThresholdsAssumption DEF DirectAddr, Within, Ages, Never
    <3>2. lastRecv' # 0 /\ lastRecv' # lastRecv
      BY <2>3, <3>1, ThresholdsAssumption DEF DirectAddr, Within, Never
    <3>3. lastRecv' = lastRecv + 1 /\ lastRecv' >= PeerTimeout
      BY <2>1, <2>3, <3>1, <3>2, ThresholdsAssumption DEF DirectAddr, Within, Older, Never
    <3> QED BY <2>2, <3>1, <3>3, ThresholdsAssumption DEF UsableRelay, Ages, Never
  <2>4. UsableRelay => UsableRelay'
    BY <2>1, <2>2, ThresholdsAssumption DEF UsableRelay, Ages, Never
  <2> QED BY <2>3, <2>4 DEF Way
<1>2. HealthInv /\ HealthInv' /\ [Next]_vars =>
          [\A n \in Nets : peer[n] # "none" /\ peer'[n] # "none" =>
            /\ n \in RelayNets /\ Way(n) # "dropped" => Way(n)' # "dropped"
            /\ Way(n) = "direct" /\ Way(n)' # "direct" => lastRecv + 1 >= PeerTimeout]_vars
  BY <1>1
<1> QED BY <1>2, HealthInductive, PTL DEF Spec, WayHolds
=============================================================================
