-------------------------- MODULE AntiReplayProofs --------------------------
(***************************************************************************)
(* Proofs about AntiReplay for every window, every number of goroutines    *)
(* and network objects.  The receiver's argument rests on WindowExact; the *)
(* sender's on CountersOrdered: the counters of an object lie between its  *)
(* seed and the seed of its successor.                                     *)
(***************************************************************************)
EXTENDS AntiReplay, FiniteSetTheorems, TLAPS

(* Bit positions are the naturals below Window. *)
LEMMA OffsetsFacts == \A i : i \in Offsets <=> (i \in Nat /\ i < Window)
  BY WindowAssumption DEF Offsets

(* Type correctness of every reachable state. *)
THEOREM TypeCorrect == Spec => []TypeOK
<1>1. Init => TypeOK
  BY BoundsAssumption DEF Init, TypeOK, Gens
<1>2. ASSUME TypeOK, [Next]_vars PROVE TypeOK'
  <2> USE <1>2 DEF TypeOK
  <2>1. CASE Tick
    BY <2>1 DEF Tick, recvVars
  <2>2. CASE AddNetworkRelay
    BY <2>2, BoundsAssumption DEF AddNetworkRelay, recvVars, Gens
  <2>3. CASE RemoveNetwork
    BY <2>3 DEF RemoveNetwork, recvVars
  <2>4. CASE Crash
    BY <2>4 DEF Crash, recvVars
  <2>5. ASSUME NEW t \in Threads, Pick(t) PROVE TypeOK'
    BY <2>5 DEF Pick, recvVars
  <2>6. ASSUME NEW t \in Threads, Seal(t) PROVE TypeOK'
    <3>1. holds[t] \in Gens
      BY <2>6 DEF Seal
    <3>2. [gen |-> holds[t], by |-> t, ctr |-> ctr[holds[t]] + 1] \in Frame
      BY <3>1 DEF Frame
    <3> QED BY <2>6, <3>1, <3>2 DEF Seal, recvVars
  <2>7. ASSUME NEW t \in Threads, WriteFrame(t) PROVE TypeOK'
    BY <2>7 DEF WriteFrame, recvVars
  <2>8. ASSUME NEW f \in wire, Deliver(f) PROVE TypeOK'
    <3>1. f.ctr \in Nat
      BY DEF Frame
    <3>2. accepted' = accepted \cup {f.ctr} /\ delivered' = delivered + 1
      BY <2>8 DEF Deliver
    <3>3. Slide(f.ctr) \/ Mark(f.ctr)
      BY <2>8 DEF Deliver
    <3>4. UNCHANGED <<clock, present, gen, seed, ctr, holds, sealed, wire>>
      BY <2>8 DEF Deliver, sendVars
    <3>5. recvMax' \in Nat /\ recvBits' \subseteq Offsets
      <4>1. CASE Slide(f.ctr)
        BY <3>1, <4>1, OffsetsFacts, WindowAssumption DEF Slide, ShiftBits
      <4>2. CASE Mark(f.ctr)
        <5>1. recvMax - f.ctr \in Offsets
          BY <3>1, <4>2, OffsetsFacts DEF Mark, InWindow
        <5> QED BY <4>2, <5>1 DEF Mark
      <4> QED BY <3>3, <4>1, <4>2
    <3>6. accepted' \subseteq Nat
      BY <3>1, <3>2
    <3>7. delivered' \in Nat
      BY <3>2
    <3> QED BY <3>4, <3>5, <3>6, <3>7
  <2>9. CASE Forget
    BY <2>9 DEF Forget, sendVars
  <2>10. CASE UNCHANGED vars
    BY <2>10 DEF vars, sendVars, recvVars
  <2> QED BY <2>1, <2>2, <2>3, <2>4, <2>5, <2>6, <2>7, <2>8, <2>9, <2>10 DEF Next
<1> QED BY <1>1, <1>2, PTL DEF Spec

-----------------------------------------------------------------------------
(* The receiver *)

WindowInv == WindowExact /\ AtMostOnce /\ IsFiniteSet(accepted)

(* A counter the window lets through was not accepted before. *)
LEMMA AcceptableIsNew ==
  ASSUME TypeOK, WindowExact, NEW c \in Nat, Acceptable(c) PROVE c \notin accepted
<1>1. CASE c > recvMax
  BY <1>1 DEF WindowExact, TypeOK
<1>2. CASE InWindow(c)
  <2>1. recvMax - c \in Offsets /\ recvMax - c <= recvMax /\ recvMax - (recvMax - c) = c
    BY <1>2, OffsetsFacts DEF InWindow, TypeOK
  <2> QED BY <1>2, <2>1 DEF InWindow, WindowExact
<1> QED BY <1>1, <1>2 DEF Acceptable

(* Index arithmetic of a slide from m to c: bit i of the new window is bit   *)
(* i - (c - m) of the old one.                                               *)
LEMMA SlideIndex ==
  ASSUME NEW c \in Nat, NEW m \in Nat, NEW i \in Nat, c > m, i <= c, c - i <= m
  PROVE  /\ i - (c - m) \in Nat /\ i - (c - m) <= i /\ i - (c - m) <= m
         /\ m - (i - (c - m)) = c - i
         /\ i = (i - (c - m)) + (c - m)
  OBVIOUS

(* Sliding or marking keeps the bits equal to the accepted counters. *)
LEMMA WindowStep ==
  ASSUME TypeOK, WindowExact, NEW c \in Nat, Slide(c) \/ Mark(c),
         accepted' = accepted \cup {c}
  PROVE  WindowExact'
<1>1. c \in Nat /\ recvMax \in Nat /\ accepted \subseteq Nat /\ recvBits \subseteq Nat
  BY OffsetsFacts DEF TypeOK
<1>2. accepted' = accepted \cup {c}
  OBVIOUS
<1>3. \A i : i \in recvBits <=> (i \in Nat /\ i < Window /\ i <= recvMax /\ recvMax - i \in accepted)
  BY OffsetsFacts DEF WindowExact
<1>4. CASE Slide(c)
  <2>1. recvMax' = c /\ c > recvMax /\ recvBits' = ShiftBits(recvBits, c - recvMax) \cup {0}
    BY <1>4 DEF Slide
  <2>2. \A d \in accepted' : d <= recvMax'
    BY <1>1, <1>2, <2>1 DEF WindowExact
  <2>3. ASSUME NEW i, i \in recvBits'
        PROVE i \in Offsets /\ i <= recvMax' /\ recvMax' - i \in accepted'
    <3>1. CASE i = 0
      BY <3>1, <1>1, <1>2, <2>1, OffsetsFacts, WindowAssumption
    <3>2. CASE i # 0
      <4>1. PICK j \in recvBits : i = j + (c - recvMax) /\ i \in Offsets
        BY <3>2, <2>1, <2>3 DEF ShiftBits
      <4>2. recvMax - j \in accepted /\ j <= recvMax
        BY <1>3, <4>1
      <4> QED BY <4>1, <4>2, <1>1, <1>2, <2>1
    <3> QED BY <3>1, <3>2
  <2>4. ASSUME NEW i \in Offsets, i <= recvMax', recvMax' - i \in accepted'
        PROVE i \in recvBits'
    <3>1. i \in Nat /\ i < Window
      BY OffsetsFacts
    <3>2. CASE i = 0
      BY <3>2, <2>1
    <3>3. CASE i # 0
      <4>1. c - i \in accepted /\ c - i <= recvMax
        BY <3>1, <3>3, <2>4, <2>1, <1>1, <1>2 DEF WindowExact
      <4> DEFINE j == i - (c - recvMax)
      <4>2. j \in Nat /\ j < Window /\ j <= recvMax /\ recvMax - j = c - i
        <5>1. c > recvMax /\ i <= c
          BY <2>1, <2>4
        <5> QED BY <4>1, <5>1, <3>1, <1>1, SlideIndex, WindowAssumption
      <4>3. j \in recvBits
        BY <4>1, <4>2, <1>3
      <4>4. i = j + (c - recvMax)
        BY <3>1, <1>1, <2>1, <2>4, <4>1, SlideIndex
      <4> HIDE DEF j
      <4> QED BY <4>3, <4>4, <2>1 DEF ShiftBits
    <3> QED BY <3>2, <3>3
  <2> QED BY <2>2, <2>3, <2>4 DEF WindowExact
<1>5. CASE Mark(c)
  <2>1. /\ recvMax' = recvMax /\ recvBits' = recvBits \cup {recvMax - c}
        /\ c <= recvMax /\ recvMax - c < Window
    BY <1>5 DEF Mark, InWindow
  <2>2. \A d \in accepted' : d <= recvMax'
    BY <1>1, <1>2, <2>1 DEF WindowExact
  <2>3. \A i : i \in recvBits' <=>
                 (i \in Nat /\ i < Window /\ i <= recvMax' /\ recvMax' - i \in accepted')
    BY <1>1, <1>2, <1>3, <2>1
  <2> QED BY <2>2, <2>3, OffsetsFacts DEF WindowExact
<1> QED BY <1>4, <1>5

(* The window invariant holds in every reachable state (acceptCounter). *)
LEMMA WindowInductive == Spec => []WindowInv
<1>1. Init => WindowInv
  BY FS_EmptySet DEF Init, WindowInv, WindowExact, AtMostOnce
<1>2. ASSUME TypeOK, TypeOK', WindowInv, [Next]_vars PROVE WindowInv'
  <2>1. CASE UNCHANGED recvVars
    BY <1>2, <2>1 DEF WindowInv, WindowExact, AtMostOnce, recvVars
  <2>2. CASE Forget
    BY <2>2, FS_EmptySet DEF Forget, WindowInv, WindowExact, AtMostOnce
  <2>3. ASSUME NEW f \in wire, Deliver(f) PROVE WindowInv'
    <3>1. f.ctr \in Nat
      BY <1>2 DEF TypeOK, Frame
    <3>2. Acceptable(f.ctr)
      BY <2>3 DEF Deliver, Slide, Mark, Acceptable
    <3>3. f.ctr \notin accepted
      BY <1>2, <3>1, <3>2, AcceptableIsNew DEF WindowInv
    <3>4. IsFiniteSet(accepted') /\ Cardinality(accepted') = Cardinality(accepted) + 1
      BY <1>2, <2>3, <3>3, FS_AddElement DEF Deliver, WindowInv
    <3>5. WindowExact'
      BY <1>2, <2>3, <3>1, WindowStep DEF WindowInv, Deliver
    <3> QED BY <1>2, <2>3, <3>4, <3>5 DEF WindowInv, AtMostOnce, Deliver
  <2> QED
    BY <1>2, <2>1, <2>2, <2>3
    DEF Next, vars, Tick, AddNetworkRelay, RemoveNetwork, Crash, Pick, Seal, WriteFrame
<1> QED BY <1>1, <1>2, TypeCorrect, PTL DEF Spec

(* acceptCounter lets a counter through at most once per peerState. *)
THEOREM NoReplay == Spec => []AtMostOnce
<1>1. WindowInv => AtMostOnce
  BY DEF WindowInv
<1> QED BY <1>1, WindowInductive, PTL

(* acceptCounter rejects nothing new that is within the window. *)
THEOREM NothingLostInWindow == Spec => []NoFalseDrop
<1>1. TypeOK /\ WindowInv => NoFalseDrop
  <2> SUFFICES ASSUME TypeOK, WindowInv, NEW f \in wire,
                      f.ctr \notin accepted, recvMax < f.ctr + Window
               PROVE  Acceptable(f.ctr)
    BY DEF NoFalseDrop
  <2>1. f.ctr \in Nat /\ recvMax \in Nat
    BY DEF TypeOK, Frame
  <2>2. CASE f.ctr <= recvMax
    <3>1. recvMax - f.ctr < Window /\ recvMax - (recvMax - f.ctr) = f.ctr
      BY <2>1, <2>2, WindowAssumption
    <3>2. recvMax - f.ctr \notin recvBits
      BY <3>1 DEF WindowInv, WindowExact
    <3> QED BY <2>2, <3>1, <3>2 DEF Acceptable, InWindow
  <2> QED BY <2>1, <2>2 DEF Acceptable
<1> QED BY <1>1, TypeCorrect, WindowInductive, PTL
-----------------------------------------------------------------------------
(* The sender *)

(* Seeds and counters follow the order of the network objects: what an object *)
(* has sealed stays at or below the seed of every later object.               *)
CountersOrdered ==
    /\ \A g \in 1..gen : seed[g] <= ctr[g] /\ ctr[g] <= clock
    /\ \A g, h \in 1..gen : g < h => seed[g] <= seed[h] /\ ctr[g] <= seed[h]
    /\ \A t \in Threads : holds[t] <= gen

FramesNumbered ==
    \A f \in Frames : f.gen <= gen /\ seed[f.gen] < f.ctr /\ f.ctr <= ctr[f.gen]

SenderInv == CountersOrdered /\ FramesNumbered /\ UniqueCounters

(* Every frame sealed or written is a frame. *)
LEMMA FramesType == ASSUME TypeOK PROVE Frames \subseteq Frame
  BY DEF TypeOK, Frames

(* A step that adds no frame and neither moves a counter nor a seed of an    *)
(* existing object keeps the numbering.                                      *)
LEMMA NumberingKept ==
  ASSUME TypeOK, FramesNumbered, UniqueCounters, Frames' \subseteq Frames,
         gen <= gen', \A g \in 1..gen : seed'[g] = seed[g] /\ ctr[g] = ctr'[g],
         gen' \in Gens
  PROVE  FramesNumbered' /\ UniqueCounters'
<1>1. UniqueCounters'
  BY DEF UniqueCounters
<1>2. ASSUME NEW f \in Frames'
      PROVE f.gen <= gen' /\ seed'[f.gen] < f.ctr /\ f.ctr <= ctr'[f.gen]
  <2>1. f \in Frames /\ f \in Frame
    BY FramesType
  <2>2. f.gen \in 1..gen /\ f.gen <= gen'
    BY <2>1 DEF FramesNumbered, Frame, TypeOK, Gens
  <2> QED BY <2>1, <2>2 DEF FramesNumbered
<1> QED BY <1>1, <1>2 DEF FramesNumbered

(* The counter a goroutine takes is above those of its object and below      *)
(* those of every later one.                                                 *)
LEMMA SealNumbers ==
  ASSUME TypeOK, SenderInv, NEW t \in Threads, Seal(t)
  PROVE  SenderInv'
<1> DEFINE g == holds[t]
           new == [gen |-> g, by |-> t, ctr |-> ctr[g] + 1]
<1>1. g \in 1..gen /\ g \in Gens /\ gen \in Nat /\ gen <= MaxGen
  BY DEF Seal, TypeOK, SenderInv, CountersOrdered, Gens
<1>2. ctr' = [ctr EXCEPT ![g] = ctr[g] + 1] /\ sealed' = [sealed EXCEPT ![t] = {new}]
  BY DEF Seal
<1>3. UNCHANGED <<clock, gen, seed, holds, wire>>
  BY DEF Seal
<1>4. ctr[g] < Horizon(g)
  BY DEF Seal
<1>5. /\ ctr \in [Gens -> Nat] /\ seed \in [Gens -> Nat] /\ clock \in Nat
      /\ 1..gen \subseteq Gens
  <2>1. 1..gen \subseteq Gens
    BY <1>1, BoundsAssumption DEF Gens
  <2> QED BY <2>1 DEF TypeOK
<1>6. ctr'[g] = ctr[g] + 1 /\ \A h \in Gens : h # g => ctr'[h] = ctr[h]
  BY <1>1, <1>2, <1>5
<1>7. ctr[g] + 1 <= clock /\ \A h \in 1..gen : g < h => ctr[g] + 1 <= seed[h]
  <2>1. CASE g = gen
    BY <1>1, <1>4, <1>5, <2>1 DEF Horizon
  <2>2. CASE g < gen
    <3>1. g + 1 \in 1..gen /\ ctr[g] + 1 <= seed[g + 1]
      BY <1>1, <1>4, <1>5, <2>2 DEF Horizon
    <3>2. seed[g + 1] <= clock
      BY <1>5, <3>1 DEF SenderInv, CountersOrdered
    <3>3. \A h \in 1..gen : g < h => seed[g + 1] <= seed[h]
      <4> SUFFICES ASSUME NEW h \in 1..gen, g < h PROVE seed[g + 1] <= seed[h]
        OBVIOUS
      <4>1. CASE h = g + 1
        BY <4>1, <1>5, <3>1
      <4>2. CASE g + 1 < h
        BY <4>2, <3>1 DEF SenderInv, CountersOrdered
      <4> QED BY <4>1, <4>2, <1>1
    <3>4. ctr[g] \in Nat /\ \A h \in 1..gen : seed[h] \in Nat
      BY <1>1, <1>5
    <3> HIDE DEF g
    <3> QED BY <1>5, <3>1, <3>2, <3>3, <3>4
  <2> QED BY <1>1, <2>1, <2>2
<1>8. CountersOrdered'
  <2>1. \A h \in 1..gen' : seed'[h] <= ctr'[h] /\ ctr'[h] <= clock'
    BY <1>1, <1>3, <1>5, <1>6, <1>7 DEF SenderInv, CountersOrdered
  <2>2. \A k, h \in 1..gen' : k < h => seed'[k] <= seed'[h] /\ ctr'[k] <= seed'[h]
    BY <1>1, <1>3, <1>5, <1>6, <1>7 DEF SenderInv, CountersOrdered
  <2> QED BY <1>3, <2>1, <2>2 DEF SenderInv, CountersOrdered
<1>9. Frames' \subseteq Frames \cup {new}
  <2>1. \A u \in Threads : u # t => sealed'[u] = sealed[u]
    BY <1>2 DEF TypeOK
  <2>2. sealed'[t] = {new}
    BY <1>2 DEF TypeOK
  <2> QED BY <1>3, <2>1, <2>2 DEF Frames
<1>10. new.gen = g /\ new.ctr = ctr[g] + 1
  OBVIOUS
<1> HIDE DEF new
<1>11. FramesNumbered'
  <2> SUFFICES ASSUME NEW f \in Frames'
               PROVE  f.gen <= gen' /\ seed'[f.gen] < f.ctr /\ f.ctr <= ctr'[f.gen]
    BY DEF FramesNumbered
  <2>1. CASE f = new
    BY <2>1, <1>1, <1>3, <1>5, <1>6, <1>10 DEF SenderInv, CountersOrdered
  <2>2. CASE f \in Frames
    <3>1. f.gen \in Gens /\ f.ctr \in Nat
      BY <2>2, FramesType DEF Frame
    <3>2. f.gen <= gen /\ seed[f.gen] < f.ctr /\ f.ctr <= ctr[f.gen]
      BY <2>2 DEF SenderInv, FramesNumbered
    <3> QED BY <3>1, <3>2, <1>3, <1>5, <1>6
  <2> QED BY <1>9, <2>1, <2>2
<1>12. UniqueCounters'
  <2>1. ASSUME NEW f \in Frames PROVE f.ctr # new.ctr
    <3>1. f.gen \in 1..gen /\ f.gen \in Gens /\ f.ctr \in Nat
      BY <1>1, FramesType DEF Frame, SenderInv, FramesNumbered, Gens
    <3>2. seed[f.gen] < f.ctr /\ f.ctr <= ctr[f.gen]
      BY DEF SenderInv, FramesNumbered
    <3>3. CASE f.gen = g
      BY <3>1, <3>2, <3>3, <1>5, <1>10
    <3>4. CASE f.gen < g
      <4>1. ctr[f.gen] <= seed[g] /\ seed[g] <= ctr[g]
        BY <3>1, <3>4, <1>1 DEF SenderInv, CountersOrdered
      <4> QED BY <4>1, <3>1, <3>2, <1>1, <1>5, <1>10
    <3>5. CASE f.gen > g
      <4>1. ctr[g] + 1 <= seed[f.gen]
        BY <3>1, <3>5, <1>1, <1>7
      <4> QED BY <4>1, <3>1, <3>2, <1>1, <1>5, <1>10
    <3> QED BY <3>1, <3>3, <3>4, <3>5, <1>1
  <2> QED BY <1>9, <2>1 DEF SenderInv, UniqueCounters
<1> QED BY <1>8, <1>11, <1>12 DEF SenderInv

(* The numbering invariant of the sender holds in every reachable state. *)
LEMMA SenderInductive == Spec => []SenderInv
<1>1. Init => SenderInv
  BY BoundsAssumption DEF Init, SenderInv, CountersOrdered, FramesNumbered,
     UniqueCounters, Frames, Gens
<1>2. ASSUME TypeOK, TypeOK', SenderInv, [Next]_vars PROVE SenderInv'
  <2> USE <1>2
  <2>0. gen \in Nat /\ gen <= MaxGen /\ gen \in Gens /\ 1..gen \subseteq Gens
    BY BoundsAssumption DEF TypeOK, Gens
  <2>1. CASE UNCHANGED sendVars
    BY <2>1 DEF sendVars, SenderInv, CountersOrdered, FramesNumbered, UniqueCounters, Frames
  <2>2. CASE Tick
    <3>1. Frames' = Frames /\ UNCHANGED <<gen, seed, ctr, holds>> /\ clock' = clock + 1
      BY <2>2 DEF Tick, Frames
    <3>2. FramesNumbered' /\ UniqueCounters'
      BY <3>1, <2>0, NumberingKept DEF SenderInv
    <3>3. CountersOrdered'
      BY <3>1, <2>0 DEF SenderInv, CountersOrdered, TypeOK
    <3> QED BY <3>2, <3>3 DEF SenderInv
  <2>3. CASE AddNetworkRelay
    <3>1. Frames' = Frames /\ UNCHANGED <<clock, holds>> /\ gen' = gen + 1
      BY <2>3 DEF AddNetworkRelay, Frames
    <3>2. gen' \in Gens
      BY DEF TypeOK
    <3>3. \A g \in 1..gen : seed'[g] = seed[g] /\ ctr[g] = ctr'[g]
      BY <2>0, <2>3, <3>1 DEF AddNetworkRelay, TypeOK
    <3>4. seed'[gen'] = clock /\ ctr'[gen'] = clock
      BY <2>3, <3>1, <3>2 DEF AddNetworkRelay, TypeOK
    <3>5. FramesNumbered' /\ UniqueCounters'
      BY <3>1, <3>2, <3>3, <2>0, NumberingKept DEF SenderInv
    <3>6. clock \in Nat /\ \A g \in 1..gen : seed[g] \in Nat /\ ctr[g] \in Nat
      BY <2>0 DEF TypeOK
    <3>7. \A g \in 1..gen' : g \in 1..gen \/ g = gen'
      BY <3>1, <2>0
    <3>8. \A g \in 1..gen' : seed'[g] <= ctr'[g] /\ ctr'[g] <= clock'
      BY <3>1, <3>3, <3>4, <3>6, <3>7 DEF SenderInv, CountersOrdered
    <3>9. ASSUME NEW g \in 1..gen', NEW h \in 1..gen', g < h
          PROVE  seed'[g] <= seed'[h] /\ ctr'[g] <= seed'[h]
      <4>1. g \in 1..gen
        BY <3>1, <3>9, <2>0
      <4>2. CASE h \in 1..gen
        BY <4>1, <4>2, <3>3, <3>9 DEF SenderInv, CountersOrdered
      <4>3. CASE h = gen'
        BY <4>1, <4>3, <3>3, <3>4, <3>6 DEF SenderInv, CountersOrdered
      <4> QED BY <3>7, <4>2, <4>3
    <3>10. \A t \in Threads : holds'[t] <= gen'
      <4> TAKE t \in Threads
      <4>1. holds[t] <= gen /\ holds[t] \in Nat /\ holds'[t] = holds[t]
        BY <3>1 DEF SenderInv, CountersOrdered, TypeOK, Gens
      <4> QED BY <4>1, <3>1, <2>0
    <3> QED BY <3>5, <3>8, <3>9, <3>10 DEF SenderInv, CountersOrdered
  <2>4. CASE RemoveNetwork
    BY <2>4 DEF RemoveNetwork, SenderInv, CountersOrdered, FramesNumbered, UniqueCounters, Frames
  <2>5. CASE Crash
    <3>1. Frames' \subseteq Frames /\ UNCHANGED <<gen, seed, ctr, clock>>
      BY <2>5 DEF Crash, Frames
    <3>2. FramesNumbered' /\ UniqueCounters'
      BY <3>1, <2>0, NumberingKept DEF SenderInv
    <3>3. \A t \in Threads : holds'[t] <= gen'
      BY <2>5, <2>0, <3>1 DEF Crash
    <3> QED BY <3>1, <3>2, <3>3 DEF SenderInv, CountersOrdered
  <2>6. ASSUME NEW t \in Threads, Pick(t) PROVE SenderInv'
    <3>1. Frames' = Frames /\ UNCHANGED <<gen, seed, ctr, clock>>
      BY <2>6 DEF Pick, Frames
    <3>2. FramesNumbered' /\ UniqueCounters'
      BY <3>1, <2>0, NumberingKept DEF SenderInv
    <3>3. \A u \in Threads : holds'[u] <= gen'
      BY <2>6, <2>0, <3>1 DEF Pick, SenderInv, CountersOrdered, TypeOK
    <3> QED BY <3>1, <3>2, <3>3 DEF SenderInv, CountersOrdered
  <2>7. ASSUME NEW t \in Threads, Seal(t) PROVE SenderInv'
    BY <2>7, SealNumbers
  <2>8. ASSUME NEW t \in Threads, WriteFrame(t) PROVE SenderInv'
    <3>1. Frames' \subseteq Frames
      <4>1. wire' = wire \cup sealed[t] /\ \A u \in Threads : sealed'[u] \subseteq sealed[u]
        BY <2>8 DEF WriteFrame, TypeOK
      <4> QED BY <4>1 DEF Frames
    <3>2. UNCHANGED <<gen, seed, ctr, clock>>
      BY <2>8 DEF WriteFrame
    <3>3. FramesNumbered' /\ UniqueCounters'
      BY <3>1, <3>2, <2>0, NumberingKept DEF SenderInv
    <3>4. \A u \in Threads : holds'[u] <= gen'
      BY <2>8, <2>0, <3>2 DEF WriteFrame, SenderInv, CountersOrdered, TypeOK
    <3> QED BY <3>2, <3>3, <3>4 DEF SenderInv, CountersOrdered
  <2>9. ASSUME NEW f \in wire, Deliver(f) PROVE SenderInv'
    BY <2>1, <2>9 DEF Deliver
  <2>10. CASE Forget
    BY <2>1, <2>10 DEF Forget
  <2> QED
    BY <2>1, <2>2, <2>3, <2>4, <2>5, <2>6, <2>7, <2>8, <2>9, <2>10 DEF Next, vars
<1> QED BY <1>1, <1>2, TypeCorrect, PTL DEF Spec

(* A sender never uses a counter twice in a network, across goroutines,      *)
(* re-created networks and restarts.                                         *)
THEOREM CountersNeverReused == Spec => []UniqueCounters
<1>1. SenderInv => UniqueCounters
  BY DEF SenderInv
<1> QED BY <1>1, SenderInductive, PTL

(* recvMax is the counter of a frame on the wire, once there is one. *)
MaxFromWire == recvMax = 0 \/ \E h \in wire : h.ctr = recvMax

(* Only frames of the same or a later network object can age a frame out.    *)
THEOREM RestartIsHeard == Spec => []RestartHeard
<1>1. Init => MaxFromWire
  BY DEF Init, MaxFromWire
<1>2. MaxFromWire /\ [Next]_vars => MaxFromWire'
  BY DEF MaxFromWire, Next, vars, sendVars, recvVars, Tick, AddNetworkRelay, RemoveNetwork,
     Crash, Pick, Seal, WriteFrame, Deliver, Slide, Mark, Forget
<1>3. ASSUME TypeOK, SenderInv, MaxFromWire PROVE RestartHeard
  <2> SUFFICES ASSUME NEW f \in wire, f.ctr + Window <= recvMax
               PROVE  \E h \in wire : h.ctr = recvMax /\ h.gen >= f.gen
    BY DEF RestartHeard
  <2>1. f \in Frame /\ f \in Frames /\ recvMax \in Nat /\ gen \in Gens
    BY <1>3 DEF TypeOK, Frames
  <2>2. PICK h \in wire : h.ctr = recvMax
    BY <1>3, <2>1, WindowAssumption DEF MaxFromWire, Frame
  <2>3. h \in Frame /\ h \in Frames
    BY <1>3 DEF TypeOK, Frames
  <2>4. f.gen \in 1..gen /\ h.gen \in 1..gen
    BY <1>3, <2>1, <2>3 DEF SenderInv, FramesNumbered, Frame, Gens
  <2>5. CASE h.gen < f.gen
    <3>1. ctr[h.gen] <= seed[f.gen] /\ seed[f.gen] < f.ctr /\ h.ctr <= ctr[h.gen]
      BY <1>3, <2>1, <2>3, <2>4, <2>5 DEF SenderInv, CountersOrdered, FramesNumbered
    <3>2. ctr[h.gen] \in Nat /\ seed[f.gen] \in Nat /\ f.ctr \in Nat /\ h.ctr \in Nat
      BY <1>3, <2>1, <2>3 DEF TypeOK, Frame
    <3> QED BY <3>1, <3>2, <2>1, <2>2, WindowAssumption
  <2> QED BY <2>1, <2>2, <2>3, <2>4, <2>5 DEF Frame, Gens
<1> QED BY <1>1, <1>2, <1>3, TypeCorrect, SenderInductive, PTL DEF Spec
=============================================================================
