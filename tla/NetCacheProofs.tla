--------------------------- MODULE NetCacheProofs ---------------------------
(***************************************************************************)
(* Proofs about NetCache for any goroutines, addresses, sizes and times.   *)
(* First Save, where it does not matter what is in the lists: only one     *)
(* saver is in the file part (Alone), and what it has written so far is    *)
(* what it copied (Progress).  Then the lists: every one there is, in      *)
(* memory, in a Save under way and in the files, is in order (CacheInv),   *)
(* because a restart may read any of them.  What the loop of Kept keeps is *)
(* proved by induction over its turns (KeptWithin), with the set of the    *)
(* turns it holds for (NatInd).  The last part is about the other list of  *)
(* addresses made by a loop, in module Mesh.                               *)
(***************************************************************************)
EXTENDS NetCache, FiniteSetTheorems, SequenceTheorems, WellFoundedInduction, TLAPS

FilePart == {"locked", "writing", "written", "renamed"}

Shape ==
    /\ at \in [Savers -> FilePart \cup {"idle", "copied"}]
    /\ snap = [s \in Savers |-> snap[s]]

Alone == \A s \in Savers : at[s] \in FilePart => saveMu = {s}

Progress ==
    /\ \A s \in Savers : at[s] = "written" => tmp = Whole(snap[s])
    /\ \A s \in Savers : at[s] = "renamed" => file = Whole(snap[s])

SaveInv == Shape /\ Alone /\ Progress /\ FileNeverTorn

(* One saver moves from one step of the file part to the next. *)
LEMMA OthersStay ==
  ASSUME SaveInv, NEW s \in Savers, NEW to \in FilePart \cup {"idle", "copied"},
         at' = [at EXCEPT ![s] = to], at[s] \in FilePart, snap' = snap
  PROVE  /\ Shape'
         /\ \A u \in Savers : u # s => at'[u] = at[u] /\ at[u] \notin FilePart
         /\ at'[s] = to /\ saveMu = {s}
<1>1. at \in [Savers -> FilePart \cup {"idle", "copied"}] /\ snap = [u \in Savers |-> snap[u]]
  BY DEF SaveInv, Shape
<1>2. at' \in [Savers -> FilePart \cup {"idle", "copied"}]
  BY <1>1
<1>3. snap' = [u \in Savers |-> snap'[u]]
  BY <1>1
<1>4. at'[s] = to /\ \A u \in Savers : u # s => at'[u] = at[u]
  BY <1>1
<1>5. saveMu = {s} /\ \A u \in Savers : u # s => at[u] \notin FilePart
  BY DEF SaveInv, Alone
<1> QED BY <1>2, <1>3, <1>4, <1>5 DEF Shape

(* Every step of a Save keeps the invariant. *)
LEMMA SaveStep ==
  ASSUME SaveInv, NEW s \in Savers,
         Copy(s) \/ Lock(s) \/ Truncate(s) \/ Fill(s) \/ Rename(s) \/ Fail(s) \/ Clean(s)
  PROVE  SaveInv'
<1>1. at \in [Savers -> FilePart \cup {"idle", "copied"}] /\ snap = [u \in Savers |-> snap[u]]
  BY DEF SaveInv, Shape
<1>2. CASE Copy(s)
  <2>1. at' = [at EXCEPT ![s] = "copied"] /\ UNCHANGED <<saveMu, tmp, file>>
        /\ \A u \in Savers : u # s => snap'[u] = snap[u]
    BY <1>1, <1>2 DEF Copy
  <2>2. snap' = [u \in Savers |-> snap'[u]]
    BY <1>1, <1>2 DEF Copy
  <2>3. Shape'
    BY <1>1, <2>1, <2>2 DEF Shape
  <2>4. \A u \in Savers : at'[u] \in FilePart => u # s /\ at'[u] = at[u]
    BY <1>1, <2>1 DEF FilePart
  <2>5. Alone' /\ FileNeverTorn'
    BY <2>1, <2>4 DEF SaveInv, Alone, FileNeverTorn
  <2>6. Progress'
    BY <2>1, <2>4 DEF SaveInv, Progress, FilePart
  <2> QED BY <2>3, <2>5, <2>6 DEF SaveInv
<1>3. CASE Lock(s)
  <2>1. at' = [at EXCEPT ![s] = "locked"] /\ saveMu = {} /\ saveMu' = {s}
        /\ UNCHANGED <<snap, tmp, file>>
    BY <1>3 DEF Lock
  <2>2. \A u \in Savers : at[u] \notin FilePart
    BY <2>1 DEF SaveInv, Alone
  <2>3. Shape'
    BY <1>1, <2>1 DEF Shape, FilePart
  <2>4. \A u \in Savers : at'[u] \in FilePart => u = s
    BY <1>1, <2>1, <2>2
  <2>5. Alone' /\ FileNeverTorn'
    BY <2>1, <2>4 DEF SaveInv, Alone, FileNeverTorn
  <2>6. at'[s] = "locked"
    BY <1>1, <2>1
  <2>7. Progress'
    BY <2>4, <2>6 DEF Progress, FilePart
  <2> QED BY <2>3, <2>5, <2>7 DEF SaveInv
<1>4. CASE Truncate(s)
  <2>1. at' = [at EXCEPT ![s] = "writing"] /\ at[s] \in FilePart /\ UNCHANGED <<snap, saveMu, file>>
    BY <1>4 DEF Truncate, FilePart
  <2>2. /\ Shape' /\ at'[s] = "writing" /\ saveMu = {s}
        /\ \A u \in Savers : u # s => at'[u] \notin FilePart
    BY <2>1, OthersStay DEF FilePart
  <2>3. Alone' /\ FileNeverTorn'
    BY <2>1, <2>2 DEF SaveInv, Alone, FileNeverTorn
  <2>4. Progress'
    BY <2>2 DEF Progress, FilePart
  <2> QED BY <2>2, <2>3, <2>4 DEF SaveInv
<1>5. CASE Fill(s)
  <2>1. at' = [at EXCEPT ![s] = "written"] /\ at[s] \in FilePart /\ UNCHANGED <<snap, saveMu, file>>
        /\ tmp' = Whole(snap[s])
    BY <1>5 DEF Fill, FilePart
  <2>2. /\ Shape' /\ at'[s] = "written" /\ saveMu = {s}
        /\ \A u \in Savers : u # s => at'[u] \notin FilePart
    BY <2>1, OthersStay DEF FilePart
  <2>3. Alone' /\ FileNeverTorn'
    BY <2>1, <2>2 DEF SaveInv, Alone, FileNeverTorn
  <2>4. Progress'
    BY <2>1, <2>2 DEF Progress, FilePart, Whole
  <2> QED BY <2>2, <2>3, <2>4 DEF SaveInv
<1>6. CASE Rename(s)
  <2>1. at' = [at EXCEPT ![s] = "renamed"] /\ at[s] = "written" /\ UNCHANGED <<snap, saveMu, tmp>>
        /\ file' = tmp
    BY <1>6 DEF Rename
  <2>2. /\ Shape' /\ at'[s] = "renamed" /\ saveMu = {s}
        /\ \A u \in Savers : u # s => at'[u] \notin FilePart
    BY <2>1, OthersStay DEF FilePart
  <2>3. file' = Whole(snap[s])
    BY <2>1 DEF SaveInv, Progress
  <2>4. Alone' /\ FileNeverTorn'
    BY <2>1, <2>2, <2>3 DEF Alone, FileNeverTorn, Whole
  <2>5. Progress'
    BY <2>1, <2>2, <2>3 DEF Progress, FilePart, Whole
  <2> QED BY <2>2, <2>4, <2>5 DEF SaveInv
<1>7. CASE Fail(s) \/ Clean(s)
  <2>1. at' = [at EXCEPT ![s] = "idle"] /\ at[s] \in FilePart /\ UNCHANGED <<snap, tmp, file>>
    BY <1>7 DEF Fail, Clean, FilePart
  <2>2. /\ Shape' /\ at'[s] = "idle"
        /\ \A u \in Savers : u # s => at'[u] \notin FilePart
    BY <2>1, OthersStay DEF FilePart
  <2>3. \A u \in Savers : at'[u] \notin FilePart
    BY <2>2 DEF FilePart
  <2>4. Alone' /\ Progress' /\ FileNeverTorn'
    BY <2>1, <2>3 DEF SaveInv, Alone, Progress, FileNeverTorn, FilePart
  <2> QED BY <2>2, <2>4 DEF SaveInv
<1> QED BY <1>2, <1>3, <1>4, <1>5, <1>6, <1>7

(* The invariant of Save holds in every reachable state. *)
LEMMA SaveInductive == Spec => []SaveInv
<1>1. Init => SaveInv
  BY DEF Init, SaveInv, Shape, Alone, Progress, FileNeverTorn, FilePart, Whole
<1>2. SaveInv /\ [Next]_vars => SaveInv'
  <2> SUFFICES ASSUME SaveInv, [Next]_vars PROVE SaveInv'
    OBVIOUS
  <2>1. CASE Open
    <3>1. at' = [s \in Savers |-> "idle"] /\ snap' = [s \in Savers |-> <<>>] /\ file' = file
      BY <2>1 DEF Open
    <3> QED BY <3>1 DEF SaveInv, Shape, Alone, Progress, FileNeverTorn, FilePart
  <2>2. CASE Tick \/ (\E a \in Addrs : Put(a)) \/ UNCHANGED vars
    <3>1. UNCHANGED <<at, snap, saveMu, tmp, file>>
      BY <2>2 DEF Tick, Put, vars, saveVars
    <3> QED BY <3>1 DEF SaveInv, Shape, Alone, Progress, FileNeverTorn, Whole
  <2> QED BY <2>1, <2>2, SaveStep DEF Next
<1> QED BY <1>1, <1>2, PTL DEF Spec

(* The file that Open reads is never partly written, for any number of       *)
(* overlapping Saves and at whatever step the process ends.                  *)
THEOREM FileWhole == Spec => []FileNeverTorn
<1>1. SaveInv => FileNeverTorn
  BY DEF SaveInv
<1> QED BY <1>1, SaveInductive, PTL

-----------------------------------------------------------------------------
(* The loop of Kept *)

(* A set of numbers that has zero, and with a number the next, has them all. *)
LEMMA NatInd ==
  ASSUME NEW T \in SUBSET Nat, 0 \in T, \A n \in T : n + 1 \in T
  PROVE  T = Nat
<1> DEFINE less == {ss \in Nat \X Nat : ss[1] < ss[2]}
           rest == Nat \ T
<1> SUFFICES ASSUME rest # {} PROVE FALSE
  OBVIOUS
<1>1. IsWellFoundedOn(less, Nat)
  BY NatLessThanWellFounded DEF OpToRel
<1>2. \A m, n \in Nat : m < n => <<m, n>> \in less
  OBVIOUS
<1> HIDE DEF less
<1>3. rest \subseteq Nat
  OBVIOUS
<1>4. PICK n \in rest : \A m \in rest : <<m, n>> \notin less
  <2> HIDE DEF rest
  <2> QED BY <1>1, <1>3, WFMin
<1>5. n # 0 /\ n - 1 \in Nat /\ n - 1 < n /\ n = (n - 1) + 1
  BY <1>4
<1>6. n - 1 \in T
  BY <1>2, <1>4, <1>5
<1> QED BY <1>4, <1>5, <1>6

(* What the first n turns of the loop of Kept have kept. *)
KeptTo(l, keep, n, g) ==
    g = [i \in 0..n |-> IF i = 0 THEN <<>>
            ELSE IF l[i] \in keep THEN Append(g[i - 1], l[i]) ELSE g[i - 1]]

(* The loop may run for any number of turns. *)
LEMMA KeptExists ==
  ASSUME NEW l, NEW keep, NEW n \in Nat
  PROVE  \E g : KeptTo(l, keep, n, g)
<1> DEFINE T == {m \in Nat : \E g : KeptTo(l, keep, m, g)}
<1>1. 0 \in T
  <2>1. KeptTo(l, keep, 0, [i \in 0..0 |-> <<>>])
    BY DEF KeptTo
  <2> QED BY <2>1
<1>2. ASSUME NEW m \in T PROVE m + 1 \in T
  <2>1. m \in Nat /\ m + 1 \in Nat
    OBVIOUS
  <2>2. PICK g : KeptTo(l, keep, m, g)
    OBVIOUS
  <2> DEFINE next == IF l[m + 1] \in keep THEN Append(g[m], l[m + 1]) ELSE g[m]
             h == [i \in 0..m + 1 |-> IF i <= m THEN g[i] ELSE next]
  <2>3. \A i \in 0..m : g[i] = IF i = 0 THEN <<>>
            ELSE IF l[i] \in keep THEN Append(g[i - 1], l[i]) ELSE g[i - 1]
    BY <2>2 DEF KeptTo
  <2>4. \A i \in 0..m : h[i] = g[i]
    BY <2>1
  <2>5. h[m + 1] = next
    BY <2>1
  <2>6. ASSUME NEW i \in 0..m + 1
        PROVE  h[i] = IF i = 0 THEN <<>>
                      ELSE IF l[i] \in keep THEN Append(h[i - 1], l[i]) ELSE h[i - 1]
    <3>1. CASE i = 0
      BY <2>1, <2>3, <2>4, <3>1
    <3>2. CASE i \in 1..m
      <4>1. i \in 0..m /\ i - 1 \in 0..m /\ i # 0
        BY <2>1, <3>2
      <4> HIDE DEF h
      <4> QED BY <2>3, <2>4, <4>1
    <3>3. CASE i = m + 1
      <4>1. i # 0 /\ i - 1 = m /\ m \in 0..m
        BY <2>1, <3>3
      <4>2. h[i - 1] = g[m]
        BY <2>4, <4>1
      <4> HIDE DEF h
      <4> QED BY <2>5, <3>3, <4>1, <4>2
    <3> QED BY <2>1, <3>1, <3>2, <3>3
  <2>7. KeptTo(l, keep, m + 1, h)
    <3>1. h = [i \in 0..m + 1 |-> h[i]]
      OBVIOUS
    <3> HIDE DEF h
    <3> QED BY <2>6, <3>1 DEF KeptTo
  <2> HIDE DEF h
  <2> QED BY <2>1, <2>7
<1>3. T = Nat
  <2> HIDE DEF T
  <2>1. T \subseteq Nat
    BY DEF T
  <2> QED BY <1>1, <1>2, <2>1, NatInd
<1> QED BY <1>3

(* Kept is what the loop has kept in the end. *)
LEMMA KeptIs ==
  ASSUME NEW l, NEW keep, Len(l) \in Nat
  PROVE  \E g : KeptTo(l, keep, Len(l), g) /\ Kept(l, keep) = g[Len(l)]
<1> DEFINE kept[i \in 0..Len(l)] ==
            IF i = 0 THEN <<>>
            ELSE IF l[i] \in keep THEN Append(kept[i - 1], l[i]) ELSE kept[i - 1]
<1>1. Kept(l, keep) = kept[Len(l)]
  BY DEF Kept
<1>2. kept = CHOOSE g : KeptTo(l, keep, Len(l), g)
  BY DEF KeptTo
<1>3. KeptTo(l, keep, Len(l), kept)
  <2> HIDE DEF kept
  <2> QED BY <1>2, KeptExists
<1> QED BY <1>1, <1>3

-----------------------------------------------------------------------------
(* The lists *)

Short(l) == l \in Seq(Entry) /\ Len(l) <= MaxPerPeer

Ordered(l) ==
    \A i, j \in 1..Len(l) : i < j => l[i].seen >= l[j].seen /\ l[i].addr # l[j].addr

SeenBy(l, c) == \A i \in 1..Len(l) : l[i].seen <= c

Good(l, c) == Short(l) /\ Ordered(l) /\ SeenBy(l, c)

(* The sizes are numbers. *)
LEMMA Sizes == MaxPerPeer \in Nat \ {0} /\ TTL \in Nat /\ MaxClock \in Nat
  BY SizesAssumption

(* Lists are the sequences that are no longer than they may be. *)
LEMMA ListIsShort ==
  ASSUME NEW l
  PROVE  /\ l \in Lists <=> Short(l)
         /\ Short(l) => Len(l) \in Nat /\ DOMAIN l = 1..Len(l) /\ \A i \in 1..Len(l) : l[i] \in Entry
<1> DEFINE entry == Entry
<1> HIDE DEF entry
<1>1. ASSUME l \in Seq(entry)
      PROVE  Len(l) \in Nat /\ l \in [1..Len(l) -> entry]
  BY <1>1, LenProperties
<1>2. ASSUME l \in Seq(entry), Len(l) <= MaxPerPeer
      PROVE  l \in UNION {[1..k -> entry] : k \in 0..MaxPerPeer}
  <2>1. Len(l) \in 0..MaxPerPeer /\ l \in [1..Len(l) -> entry]
    BY <1>1, <1>2, Sizes
  <2> DEFINE n == Len(l)
  <2> HIDE DEF n
  <2>2. n \in 0..MaxPerPeer /\ l \in [1..n -> entry]
    BY <2>1 DEF n
  <2> QED BY <2>2
<1>3. ASSUME NEW k \in 0..MaxPerPeer, l \in [1..k -> entry]
      PROVE  l \in Seq(entry) /\ Len(l) <= MaxPerPeer
  <2>1. k \in Nat /\ k <= MaxPerPeer
    BY <1>3, Sizes
  <2>2. l \in Seq(entry)
    BY <1>3, <2>1, SeqDef
  <2>3. Len(l) = k
    BY <1>3, <2>1, <2>2, LenProperties
  <2> QED BY <2>1, <2>2, <2>3
<1>4. Short(l) <=> l \in Seq(entry) /\ Len(l) <= MaxPerPeer
  BY DEF Short, entry
<1>5. Lists = UNION {[1..k -> entry] : k \in 0..MaxPerPeer}
  BY DEF Lists, entry
<1>6. l \in Lists <=> Short(l)
  BY <1>2, <1>3, <1>4, <1>5
<1>7. Short(l) => Len(l) \in Nat /\ DOMAIN l = 1..Len(l) /\ \A i \in 1..Len(l) : l[i] \in Entry
  BY <1>1, <1>4 DEF entry
<1> QED BY <1>6, <1>7

(* k has entries of the first n of l, in their order. *)
Within(k, l, n) ==
    /\ k \in Seq(Entry) /\ Len(k) <= n
    /\ \A i \in 1..Len(k) : \E p \in 1..n : k[i] = l[p]
    /\ \A i, j \in 1..Len(k) : i < j => \E p, q \in 1..n : p < q /\ k[i] = l[p] /\ k[j] = l[q]

(* A turn of the loop leaves the entry out or puts it last. *)
LEMMA OneTurn ==
  ASSUME NEW l, NEW n \in Nat, l[n + 1] \in Entry, NEW k, Within(k, l, n)
  PROVE  Within(k, l, n + 1) /\ Within(Append(k, l[n + 1]), l, n + 1)
<1> DEFINE entry == Entry
           e == l[n + 1]
           more == Append(k, e)
<1>1. k \in Seq(entry) /\ e \in entry /\ Len(k) \in Nat /\ Len(k) <= n
  BY LenProperties DEF Within
<1>2. n + 1 \in Nat /\ n + 1 \in 1..n + 1 /\ \A p \in 1..n : p \in 1..n + 1 /\ p < n + 1
  OBVIOUS
<1>3. Within(k, l, n + 1)
  BY <1>1, <1>2 DEF Within
<1>4. /\ more \in Seq(entry) /\ Len(more) = Len(k) + 1
      /\ \A i \in 1..Len(k) : more[i] = k[i]
      /\ more[Len(k) + 1] = e
  <2> HIDE DEF entry, e
  <2> QED BY <1>1, AppendProperties DEF more
<1> HIDE DEF more, e
<1>5. \A i \in 1..Len(more) : i \in 1..Len(k) \/ i = Len(k) + 1
  BY <1>1, <1>4
<1>6. ASSUME NEW i \in 1..Len(more) PROVE \E p \in 1..n + 1 : more[i] = l[p]
  <2>1. CASE i \in 1..Len(k)
    BY <1>2, <1>4, <2>1 DEF Within
  <2>2. CASE i = Len(k) + 1
    BY <1>2, <1>4, <2>2 DEF e
  <2> QED BY <1>5, <2>1, <2>2
<1>7. ASSUME NEW i \in 1..Len(more), NEW j \in 1..Len(more), i < j
      PROVE  \E p, q \in 1..n + 1 : p < q /\ more[i] = l[p] /\ more[j] = l[q]
  <2>1. i \in 1..Len(k)
    BY <1>1, <1>4, <1>7
  <2>2. CASE j \in 1..Len(k)
    <3>1. PICK p \in 1..n, q \in 1..n : p < q /\ k[i] = l[p] /\ k[j] = l[q]
      BY <1>7, <2>1, <2>2 DEF Within
    <3>2. p \in 1..n + 1 /\ q \in 1..n + 1 /\ more[i] = l[p] /\ more[j] = l[q]
      BY <1>2, <1>4, <2>1, <2>2, <3>1
    <3> QED BY <3>1, <3>2
  <2>3. CASE j = Len(k) + 1
    <3>1. PICK p \in 1..n : k[i] = l[p]
      BY <2>1 DEF Within
    <3>2. p \in 1..n + 1 /\ p < n + 1 /\ more[i] = l[p] /\ more[j] = l[n + 1]
      BY <1>2, <1>4, <2>1, <2>3, <3>1 DEF e
    <3> QED BY <1>2, <3>2
  <2> QED BY <1>5, <2>2, <2>3
<1>8. Len(more) <= n + 1 /\ more \in Seq(Entry)
  BY <1>1, <1>4 DEF entry
<1>9. Within(more, l, n + 1)
  BY <1>6, <1>7, <1>8 DEF Within
<1> QED BY <1>3, <1>9 DEF more, e

(* What is kept are entries of the list, in their order. *)
LEMMA KeptWithin ==
  ASSUME NEW l \in Seq(Entry), NEW keep
  PROVE  Within(Kept(l, keep), l, Len(l))
<1>1. Len(l) \in Nat /\ \A i \in 1..Len(l) : l[i] \in Entry
  <2> DEFINE entry == Entry
  <2> HIDE DEF entry
  <2>1. l \in Seq(entry)
    BY DEF entry
  <2>2. Len(l) \in Nat /\ l \in [1..Len(l) -> entry]
    BY <2>1, LenProperties
  <2> QED BY <2>2 DEF entry
<1>2. PICK g : KeptTo(l, keep, Len(l), g) /\ Kept(l, keep) = g[Len(l)]
  BY <1>1, KeptIs
<1>3. \A i \in 0..Len(l) :
        g[i] = IF i = 0 THEN <<>>
               ELSE IF l[i] \in keep THEN Append(g[i - 1], l[i]) ELSE g[i - 1]
  BY <1>2 DEF KeptTo
<1> DEFINE T == {n \in Nat : n <= Len(l) => Within(g[n], l, n)}
<1>4. 0 \in T
  <2>1. g[0] = <<>>
    BY <1>1, <1>3
  <2>2. Within(<<>>, l, 0)
    BY EmptySeq DEF Within
  <2> QED BY <2>1, <2>2
<1>5. ASSUME NEW n \in T PROVE n + 1 \in T
  <2>1. n \in Nat /\ n + 1 \in Nat
    OBVIOUS
  <2>2. ASSUME n + 1 <= Len(l) PROVE Within(g[n + 1], l, n + 1)
    <3>1. n <= Len(l) /\ n + 1 \in 0..Len(l) /\ n + 1 \in 1..Len(l) /\ n + 1 # 0 /\ (n + 1) - 1 = n
      BY <1>1, <2>1, <2>2
    <3>2. Within(g[n], l, n) /\ l[n + 1] \in Entry
      BY <1>1, <3>1
    <3>3. Within(g[n], l, n + 1) /\ Within(Append(g[n], l[n + 1]), l, n + 1)
      BY <2>1, <3>2, OneTurn
    <3>4. g[n + 1] = IF l[n + 1] \in keep THEN Append(g[n], l[n + 1]) ELSE g[n]
      BY <1>3, <3>1
    <3> QED BY <3>3, <3>4
  <2> QED BY <2>1, <2>2
<1>6. T = Nat
  <2> HIDE DEF T
  <2>1. T \subseteq Nat
    BY DEF T
  <2> QED BY <1>4, <1>5, <2>1, NatInd
<1>7. Within(g[Len(l)], l, Len(l))
  BY <1>1, <1>6
<1> QED BY <1>2, <1>7

(* A good list in terms of its entries. *)
LEMMA GoodFacts ==
  ASSUME NEW l, NEW c, Good(l, c)
  PROVE  /\ l \in Seq(Entry) /\ Len(l) \in Nat /\ Len(l) <= MaxPerPeer
         /\ \A i \in 1..Len(l) :
                l[i] \in Entry /\ l[i].addr \in Addrs /\ l[i].seen \in Nat /\ l[i].seen <= c
<1>1. Short(l) /\ \A i \in 1..Len(l) : l[i].seen <= c
  BY DEF Good, SeenBy
<1>2. l \in Seq(Entry) /\ Len(l) <= MaxPerPeer
  BY <1>1 DEF Short
<1>3. Len(l) \in Nat /\ \A i \in 1..Len(l) : l[i] \in Entry
  BY <1>1, ListIsShort
<1>4. \A e \in Entry : e.addr \in Addrs /\ e.seen \in Nat
  BY Sizes DEF Entry
<1> QED BY <1>1, <1>2, <1>3, <1>4

(* Time passes, and a list stays good. *)
LEMMA GoodLater ==
  ASSUME NEW l, NEW c \in Nat, NEW d \in Nat, c <= d, Good(l, c)
  PROVE  Good(l, d)
  BY GoodFacts DEF Good, SeenBy

(* Nothing is a good list. *)
LEMMA GoodEmpty ==
  ASSUME NEW c
  PROVE  Good(<<>>, c)
<1>1. <<>> \in Seq(Entry) /\ Len(<<>>) = 0 /\ 0 <= MaxPerPeer
  BY EmptySeq, Sizes
<1> QED BY <1>1 DEF Good, Short, Ordered, SeenBy

(* Leaving entries out keeps a list good. *)
LEMMA GoodKept ==
  ASSUME NEW l, NEW c, Good(l, c), NEW keep
  PROVE  Good(Kept(l, keep), c)
<1> DEFINE k == Kept(l, keep)
<1>1. Within(k, l, Len(l)) /\ Len(l) \in Nat /\ Len(l) <= MaxPerPeer
  BY GoodFacts, KeptWithin
<1> HIDE DEF k
<1>2. k \in Seq(Entry) /\ Len(k) <= Len(l) /\ Len(k) \in Nat
  <2> DEFINE entry == Entry
  <2> HIDE DEF entry
  <2>1. k \in Seq(entry)
    BY <1>1 DEF Within, entry
  <2> QED BY <1>1, <2>1, LenProperties DEF Within, entry
<1>3. Short(k)
  BY <1>1, <1>2, Sizes DEF Short
<1>4. SeenBy(k, c)
  BY <1>1 DEF Within, SeenBy, Good
<1>5. Ordered(k)
  <2> SUFFICES ASSUME NEW i \in 1..Len(k), NEW j \in 1..Len(k), i < j
               PROVE  k[i].seen >= k[j].seen /\ k[i].addr # k[j].addr
    BY DEF Ordered
  <2>1. PICK p \in 1..Len(l), q \in 1..Len(l) : p < q /\ k[i] = l[p] /\ k[j] = l[q]
    BY <1>1 DEF Within
  <2> QED BY <2>1 DEF Good, Ordered
<1> QED BY <1>3, <1>4, <1>5 DEF Good, k

(* An entry that is as new as any and has an address of its own, put first. *)
LEMMA Prepended ==
  ASSUME NEW l, NEW c \in 0..MaxClock, Good(l, c), NEW a \in Addrs,
         \A i \in 1..Len(l) : l[i].addr # a
  PROVE  LET more == <<[addr |-> a, seen |-> c]>> \o l IN
         /\ more \in Seq(Entry) /\ Len(more) = Len(l) + 1 /\ Ordered(more) /\ SeenBy(more, c)
<1> DEFINE entry == Entry
           e == [addr |-> a, seen |-> c]
           one == <<e>>
           more == one \o l
<1>1. e \in entry /\ e.addr = a /\ e.seen = c /\ c \in Nat
  BY Sizes DEF Entry
<1>2. /\ l \in Seq(entry) /\ Len(l) \in Nat
      /\ \A i \in 1..Len(l) : l[i].seen \in Nat /\ l[i].seen <= c
  BY GoodFacts
<1> HIDE DEF entry, e
<1>3. one \in Seq(entry) /\ Len(one) = 1 /\ one[1] = e
  BY <1>1
<1> HIDE DEF one
<1>4. /\ more \in Seq(entry) /\ Len(more) = Len(l) + 1
      /\ more[1] = e
      /\ \A i \in 2..Len(l) + 1 : more[i] = l[i - 1]
  <2>1. /\ more \in Seq(entry) /\ Len(more) = Len(one) + Len(l)
        /\ \A i \in 1..Len(one) + Len(l) :
              more[i] = IF i <= Len(one) THEN one[i] ELSE l[i - Len(one)]
    BY <1>2, <1>3, ConcatProperties
  <2> HIDE DEF more
  <2> QED BY <1>2, <1>3, <2>1
<1> HIDE DEF more
<1>5. \A i \in 1..Len(more) : i = 1 \/ (i \in 2..Len(l) + 1 /\ i - 1 \in 1..Len(l))
  BY <1>2, <1>4
<1>6. SeenBy(more, c)
  BY <1>1, <1>2, <1>4, <1>5 DEF SeenBy
<1>7. Ordered(more)
  <2> SUFFICES ASSUME NEW i \in 1..Len(more), NEW j \in 1..Len(more), i < j
               PROVE  more[i].seen >= more[j].seen /\ more[i].addr # more[j].addr
    BY DEF Ordered
  <2>1. j \in 2..Len(l) + 1 /\ j - 1 \in 1..Len(l) /\ more[j] = l[j - 1]
    BY <1>4, <1>5
  <2>2. CASE i = 1
    BY <1>1, <1>2, <1>4, <2>1, <2>2
  <2>3. CASE i # 1
    <3>1. i - 1 \in 1..Len(l) /\ more[i] = l[i - 1] /\ i - 1 < j - 1
      BY <1>2, <1>4, <1>5, <2>1, <2>3
    <3> QED BY <2>1, <3>1 DEF Good, Ordered
  <2> QED BY <2>2, <2>3
<1> QED BY <1>4, <1>6, <1>7 DEF more, one, e, entry

(* The first entries of a list, as many as there may be. *)
LEMMA GoodNewest ==
  ASSUME NEW l \in Seq(Entry), NEW c, Ordered(l), SeenBy(l, c)
  PROVE  Good(Newest(l), c)
<1> DEFINE entry == Entry
           n == IF Len(l) < MaxPerPeer THEN Len(l) ELSE MaxPerPeer
           k == SubSeq(l, 1, n)
<1> HIDE DEF entry
<1>1. l \in Seq(entry) /\ Len(l) \in Nat /\ l \in [1..Len(l) -> entry]
  BY LenProperties DEF entry
<1>2. n \in Nat /\ n <= Len(l) /\ n <= MaxPerPeer
  BY <1>1, Sizes
<1> HIDE DEF n
<1>3. \A i \in 1..n : i \in 1..Len(l) /\ l[i] \in entry
  BY <1>1, <1>2
<1>4. k \in Seq(entry) /\ Len(k) = n /\ \A i \in 1..n : k[i] = l[i]
  BY <1>1, <1>2, <1>3, SubSeqProperties
<1> HIDE DEF k
<1>5. Short(k)
  BY <1>2, <1>4 DEF Short, entry
<1>6. Ordered(k) /\ SeenBy(k, c)
  BY <1>3, <1>4 DEF Ordered, SeenBy
<1>7. Newest(l) = k
  BY DEF Newest, k, n
<1> QED BY <1>5, <1>6, <1>7 DEF Good

(* A list without one of its entries; the address of that one is gone. *)
LEMMA GoodRemoved ==
  ASSUME NEW l, NEW c, Good(l, c), NEW m \in 1..Len(l)
  PROVE  LET rest == RemoveAt(l, m) IN
         /\ Good(rest, c) /\ Len(rest) = Len(l) - 1
         /\ \A i \in 1..Len(rest) : rest[i].addr # l[m].addr
<1> DEFINE entry == Entry
           left == SubSeq(l, 1, m - 1)
           right == SubSeq(l, m + 1, Len(l))
           rest == left \o right
<1>1. /\ l \in Seq(entry) /\ Len(l) \in Nat /\ Len(l) <= MaxPerPeer
      /\ \A i \in 1..Len(l) : l[i] \in entry
  BY GoodFacts
<1> HIDE DEF entry
<1>2. left \in Seq(entry) /\ Len(left) = m - 1 /\ \A i \in 1..m - 1 : left[i] = l[i]
  BY <1>1, SubSeqProperties
<1>3. /\ right \in Seq(entry) /\ Len(right) = Len(l) - m
      /\ \A i \in 1..Len(l) - m : right[i] = l[i + m]
  BY <1>1, SubSeqProperties
<1> HIDE DEF left, right
<1>4. /\ rest \in Seq(entry) /\ Len(rest) = Len(l) - 1
      /\ \A i \in 1..Len(l) - 1 : rest[i] = IF i < m THEN l[i] ELSE l[i + 1]
  <2>1. /\ rest \in Seq(entry) /\ Len(rest) = Len(left) + Len(right)
        /\ \A i \in 1..Len(left) + Len(right) :
              rest[i] = IF i <= Len(left) THEN left[i] ELSE right[i - Len(left)]
    BY <1>2, <1>3, ConcatProperties
  <2> HIDE DEF rest
  <2>2. Len(left) + Len(right) = Len(l) - 1 /\ Len(left) = m - 1
    BY <1>1, <1>2, <1>3
  <2>3. ASSUME NEW i \in 1..Len(l) - 1
        PROVE  rest[i] = IF i < m THEN l[i] ELSE l[i + 1]
    <3>1. CASE i < m
      <4>1. i \in 1..m - 1 /\ i <= Len(left)
        BY <1>1, <2>2, <3>1
      <4> QED BY <1>2, <2>1, <2>2, <3>1, <4>1
    <3>2. CASE ~(i < m)
      <4>1. /\ ~(i <= Len(left)) /\ i - Len(left) \in 1..Len(l) - m
            /\ (i - Len(left)) + m = i + 1
        BY <1>1, <2>2, <3>2
      <4>2. rest[i] = right[i - Len(left)]
        BY <2>1, <2>2, <4>1
      <4> QED BY <1>3, <3>2, <4>1, <4>2
    <3> QED BY <3>1, <3>2
  <2> QED BY <2>1, <2>2, <2>3
<1>5. rest = RemoveAt(l, m)
  BY DEF rest, left, right, RemoveAt
<1> HIDE DEF rest
<1>6. \A i \in 1..Len(rest) : \E p \in 1..Len(l) \ {m} :
          rest[i] = l[p] /\ p = IF i < m THEN i ELSE i + 1
  BY <1>1, <1>4
<1>7. SeenBy(rest, c)
  BY <1>6 DEF SeenBy, Good
<1>8. Ordered(rest)
  <2> SUFFICES ASSUME NEW i \in 1..Len(rest), NEW j \in 1..Len(rest), i < j
               PROVE  rest[i].seen >= rest[j].seen /\ rest[i].addr # rest[j].addr
    BY DEF Ordered
  <2>1. PICK p \in 1..Len(l), q \in 1..Len(l) : p < q /\ rest[i] = l[p] /\ rest[j] = l[q]
    BY <1>1, <1>4, <1>6
  <2> QED BY <2>1 DEF Good, Ordered
<1>9. \A i \in 1..Len(rest) : rest[i].addr # l[m].addr
  <2> SUFFICES ASSUME NEW i \in 1..Len(rest) PROVE rest[i].addr # l[m].addr
    OBVIOUS
  <2>1. PICK p \in 1..Len(l) \ {m} : rest[i] = l[p]
    BY <1>6
  <2>2. p < m \/ m < p
    BY <1>1, <2>1
  <2> QED BY <2>1, <2>2 DEF Good, Ordered
<1>10. Short(rest)
  <2>1. Len(rest) <= MaxPerPeer
    BY <1>1, <1>4, Sizes
  <2> QED BY <1>4, <2>1 DEF Short, entry
<1> QED BY <1>4, <1>5, <1>7, <1>8, <1>9, <1>10 DEF Good

-----------------------------------------------------------------------------
(* All lists there are: in memory, in the Saves under way, in the files *)

CacheInv ==
    /\ TypeOK
    /\ Good(entries, clock)
    /\ \A s \in Savers : Good(snap[s], clock)
    /\ Good(tmp.list, clock) /\ Good(file.list, clock)

(* What types say of the clock and of the two files. *)
LEMMA FileTypes ==
  ASSUME CacheInv
  PROVE  /\ clock \in 0..MaxClock /\ clock \in Nat
         /\ tmp = [whole |-> tmp.whole, list |-> tmp.list] /\ tmp.whole \in BOOLEAN
         /\ file = [whole |-> file.whole, list |-> file.list] /\ file.whole \in BOOLEAN
         /\ at \in [Savers -> {"idle", "copied", "locked", "writing", "written", "renamed"}]
         /\ snap \in [Savers -> Lists] /\ saveMu \subseteq Savers /\ dirty \in BOOLEAN
         /\ late \subseteq Addrs
  BY Sizes DEF CacheInv, TypeOK, Content

(* A good list in a file. *)
LEMMA GoodContent ==
  ASSUME NEW l, NEW c, Good(l, c), NEW whole \in BOOLEAN
  PROVE  l \in Lists /\ [whole |-> whole, list |-> l] \in Content
<1>1. l \in Lists
  BY ListIsShort DEF Good
<1> QED BY <1>1 DEF Content

(* Time goes on, and the lists are as they were. *)
LEMMA TickKeeps ==
  ASSUME CacheInv, clock' \in 0..MaxClock, clock <= clock',
         UNCHANGED <<saveVars, tmp, file>>, Good(entries', clock'), dirty' \in BOOLEAN,
         late' \subseteq Addrs
  PROVE  CacheInv'
<1>1. clock \in Nat /\ clock' \in Nat
  BY FileTypes, Sizes
<1>2. (\A s \in Savers : Good(snap'[s], clock')) /\ Good(tmp'.list, clock') /\ Good(file'.list, clock')
  BY <1>1, GoodLater DEF CacheInv, saveVars
<1>3. entries' \in Lists
  BY ListIsShort DEF Good
<1>4. TypeOK'
  BY <1>3 DEF CacheInv, TypeOK, saveVars
<1> QED BY <1>2, <1>4 DEF CacheInv

(* An address is put first: the list stays in order, with it once. *)
LEMMA PutKeeps ==
  ASSUME CacheInv, NEW a \in Addrs, Put(a)
  PROVE  CacheInv'
<1>1. clock' \in 0..MaxClock /\ clock <= clock' /\ clock \in Nat /\ clock' \in Nat
  BY FileTypes, Sizes DEF Put
<1>6. late' \subseteq Addrs
  BY FileTypes DEF Put
<1>2. Good(entries, clock')
  BY <1>1, GoodLater DEF CacheInv
<1>3. Len(entries) \in Nat /\ Len(entries) <= MaxPerPeer /\ DOMAIN entries = 1..Len(entries)
  BY <1>2, GoodFacts, ListIsShort DEF Good
<1> DEFINE new == [addr |-> a, seen |-> clock']
<1>4. CASE Refresh(a)
  <2>1. PICK i \in 1..Len(entries) : entries[i].addr = a /\ entries' = New(a) \o RemoveAt(entries, i)
    BY <1>3, <1>4 DEF Refresh, FirstWith
  <2> DEFINE rest == RemoveAt(entries, i)
  <2>2. Good(rest, clock') /\ Len(rest) = Len(entries) - 1 /\ \A j \in 1..Len(rest) : rest[j].addr # a
    BY <1>2, <2>1, GoodRemoved
  <2>3. entries' = <<new>> \o rest
    BY <2>1 DEF New
  <2> HIDE DEF rest
  <2>4. /\ entries' \in Seq(Entry) /\ Len(entries') = Len(rest) + 1
        /\ Ordered(entries') /\ SeenBy(entries', clock')
    BY <1>1, <2>2, <2>3, Prepended
  <2>5. Len(entries') <= MaxPerPeer
    BY <1>3, <2>2, <2>4, Sizes
  <2>6. Good(entries', clock')
    BY <2>4, <2>5 DEF Good, Short
  <2> QED BY <1>1, <1>6, <2>6, TickKeeps DEF Put
<1>5. CASE Add(a)
  <2> DEFINE more == <<new>> \o entries
  <2>1. entries' = Newest(more) /\ \A i \in 1..Len(entries) : entries[i].addr # a
    BY <1>3, <1>5 DEF Add, Unknown, New
  <2>2. more \in Seq(Entry) /\ Ordered(more) /\ SeenBy(more, clock')
    BY <1>1, <1>2, <2>1, Prepended
  <2> HIDE DEF more
  <2>3. Good(entries', clock')
    BY <2>1, <2>2, GoodNewest
  <2> QED BY <1>1, <1>6, <2>3, TickKeeps DEF Put
<1> QED BY <1>4, <1>5 DEF Put

(* A Save copies what has not expired and writes what it has copied. *)
LEMMA SaveKeeps ==
  ASSUME CacheInv, NEW s \in Savers,
         Copy(s) \/ Lock(s) \/ Truncate(s) \/ Fill(s) \/ Rename(s) \/ Fail(s) \/ Clean(s)
  PROVE  CacheInv'
<1> DEFINE stages == {"idle", "copied", "locked", "writing", "written", "renamed"}
<1>1. /\ clock' = clock /\ entries' = entries /\ dirty' \in BOOLEAN
      /\ saveMu' \subseteq Savers /\ at' \in [Savers -> stages] /\ late' \subseteq Addrs
  <2>1. clock' = clock /\ entries' = entries /\ dirty' \in {dirty, FALSE}
    BY DEF Copy, Lock, Truncate, Fill, Rename, Fail, Clean, memVars
  <2>2. \E to \in stages : at' = [at EXCEPT ![s] = to]
    BY DEF Copy, Lock, Truncate, Fill, Rename, Fail, Clean
  <2>3. saveMu' \in {saveMu, {s}, saveMu \ {s}}
    BY DEF Copy, Lock, Truncate, Fill, Rename, Fail, Clean
  <2>4. late' \in {late, {}}
    BY DEF Copy, Lock, Truncate, Fill, Rename, Fail, Clean
  <2> QED BY <2>1, <2>2, <2>3, <2>4, FileTypes
<1>2. snap' \in [Savers -> Lists] /\ \A u \in Savers : Good(snap'[u], clock)
  <2>1. CASE Copy(s)
    <3>1. snap' = [snap EXCEPT ![s] = Unexpired(entries)]
      BY <2>1 DEF Copy
    <3>2. Good(Unexpired(entries), clock)
      BY GoodKept DEF CacheInv, Unexpired
    <3>3. Unexpired(entries) \in Lists
      BY <3>2, ListIsShort DEF Good
    <3> HIDE DEF stages
    <3> QED BY <3>1, <3>2, <3>3, FileTypes DEF CacheInv
  <2>2. CASE ~Copy(s)
    <3>1. snap' = snap
      BY <2>2 DEF Lock, Truncate, Fill, Rename, Fail, Clean
    <3> QED BY <3>1, FileTypes DEF CacheInv
  <2> QED BY <2>1, <2>2
<1>3. tmp' \in Content /\ Good(tmp'.list, clock)
  <2>1. tmp' \in {tmp, Torn, Whole(snap[s])}
    BY DEF Copy, Lock, Truncate, Fill, Rename, Fail, Clean
  <2>2. Torn \in Content /\ Good(Torn.list, clock)
    BY GoodEmpty, GoodContent DEF Torn
  <2>3. Whole(snap[s]) \in Content /\ Good(Whole(snap[s]).list, clock)
    BY GoodContent DEF CacheInv, Whole
  <2> QED BY <2>1, <2>2, <2>3 DEF CacheInv, TypeOK
<1>4. file' \in Content /\ Good(file'.list, clock)
  <2>1. file' \in {file, tmp}
    BY DEF Copy, Lock, Truncate, Fill, Rename, Fail, Clean
  <2> QED BY <2>1 DEF CacheInv, TypeOK
<1>5. TypeOK'
  BY <1>1, <1>2, <1>3, <1>4 DEF CacheInv, TypeOK
<1> QED BY <1>1, <1>2, <1>3, <1>4, <1>5 DEF CacheInv

(* What a new process reads was a list of an earlier one. *)
LEMMA OpenKeeps ==
  ASSUME CacheInv, Open
  PROVE  CacheInv'
<1>1. /\ entries' \in {file.list, <<>>} /\ clock' = clock /\ tmp' = tmp /\ file' = file
      /\ snap' = [s \in Savers |-> <<>>] /\ at' = [s \in Savers |-> "idle"]
      /\ saveMu' = {} /\ dirty' = FALSE /\ late' = {}
  BY DEF Open
<1>2. Good(entries', clock')
  BY <1>1, GoodEmpty DEF CacheInv
<1>3. <<>> \in Lists /\ Good(<<>>, clock)
  BY GoodEmpty, ListIsShort DEF Good
<1>4. snap' \in [Savers -> Lists] /\ \A s \in Savers : Good(snap'[s], clock')
  BY <1>1, <1>3
<1>5. entries' \in Lists
  BY <1>2, ListIsShort DEF Good
<1>6. TypeOK'
  BY <1>1, <1>4, <1>5 DEF CacheInv, TypeOK
<1> QED BY <1>1, <1>2, <1>4, <1>6 DEF CacheInv

(* The invariant holds in every reachable state. *)
LEMMA CacheInductive == Spec => []CacheInv
<1>1. Init => CacheInv
  <2> SUFFICES ASSUME Init PROVE CacheInv
    OBVIOUS
  <2>1. Good(<<>>, clock) /\ Good(<<>>, 0) /\ <<>> \in Lists
    BY GoodEmpty, ListIsShort DEF Good
  <2>2. Whole(<<>>) \in Content /\ Whole(<<>>).list = <<>>
    BY <2>1, GoodContent DEF Whole
  <2>3. /\ clock \in 0..MaxClock /\ entries \in Lists /\ dirty \in BOOLEAN
        /\ snap \in [Savers -> Lists] /\ saveMu \subseteq Savers
    <3>1. clock \in 0..MaxClock /\ dirty \in BOOLEAN /\ saveMu \subseteq Savers
      <4>1. clock = 0 /\ dirty = FALSE /\ saveMu = {}
        BY DEF Init
      <4>2. 0 \in 0..MaxClock
        BY Sizes
      <4> QED BY <4>1, <4>2, Zenon
    <3>2. entries \in Lists /\ snap \in [Savers -> Lists]
      <4> DEFINE lists == Lists
      <4> HIDE DEF lists
      <4>1. <<>> \in lists
        BY <2>1 DEF lists
      <4>2. entries \in lists /\ snap \in [Savers -> lists]
        BY <4>1 DEF Init
      <4> QED BY <4>2 DEF lists
    <3> QED BY <3>1, <3>2
  <2>4. at \in [Savers -> {"idle", "copied", "locked", "writing", "written", "renamed"}]
    BY DEF Init
  <2>5. TypeOK
    BY <2>2, <2>3, <2>4 DEF Init, TypeOK
  <2> QED BY <2>1, <2>2, <2>5 DEF Init, CacheInv
<1>2. CacheInv /\ [Next]_vars => CacheInv'
  <2> SUFFICES ASSUME CacheInv, [Next]_vars PROVE CacheInv'
    OBVIOUS
  <2>1. CASE Tick
    <3>1. clock' \in 0..MaxClock /\ clock <= clock' /\ clock \in Nat /\ clock' \in Nat
      BY <2>1, FileTypes, Sizes DEF Tick
    <3>2. /\ Good(entries', clock') /\ dirty' \in BOOLEAN /\ UNCHANGED <<saveVars, tmp, file>>
          /\ late' \subseteq Addrs
      BY <2>1, <3>1, GoodLater, FileTypes DEF Tick, CacheInv
    <3> QED BY <3>1, <3>2, TickKeeps
  <2>2. CASE UNCHANGED vars
    BY <2>2 DEF vars, memVars, saveVars, CacheInv, TypeOK
  <2> QED BY <2>1, <2>2, PutKeeps, SaveKeeps, OpenKeeps DEF Next
<1> QED BY <1>1, <1>2, PTL DEF Spec

(* Types: no list is longer than maxPerPeer, in memory or in a file. *)
THEOREM TypeCorrect == Spec => []TypeOK
<1>1. CacheInv => TypeOK
  BY DEF CacheInv
<1> QED BY <1>1, CacheInductive, PTL

(* Get offers the address confirmed last first and each address once, also   *)
(* after any number of restarts and overlapping Saves, for any length of the *)
(* list and any time to live.                                                *)
THEOREM FreshestFirst == Spec => []FreshFirst
<1>1. CacheInv => FreshFirst
  <2> SUFFICES ASSUME CacheInv PROVE FreshFirst
    OBVIOUS
  <2>1. Good(entries, clock) /\ DOMAIN entries = 1..Len(entries)
    BY ListIsShort DEF CacheInv, Good
  <2> QED BY <2>1 DEF FreshFirst, Good, Ordered
<1> QED BY <1>1, CacheInductive, PTL

-----------------------------------------------------------------------------
(* What a Save copies and what the file has *)

In(e, l) == \E i \in 1..Len(l) : l[i] = e

(* An entry put last is in a list, and those that were in it stay in it. *)
LEMMA Appended ==
  ASSUME NEW k \in Seq(Entry), NEW e \in Entry
  PROVE  In(e, Append(k, e)) /\ \A o : In(o, k) => In(o, Append(k, e))
<1> DEFINE entry == Entry
           more == Append(k, e)
<1> HIDE DEF entry
<1>1. k \in Seq(entry) /\ e \in entry /\ Len(k) \in Nat
  BY LenProperties DEF entry
<1>2. Len(more) = Len(k) + 1 /\ more[Len(k) + 1] = e /\ \A i \in 1..Len(k) : more[i] = k[i]
  BY <1>1, AppendProperties
<1> HIDE DEF more
<1>3. Len(k) + 1 \in 1..Len(more) /\ \A i \in 1..Len(k) : i \in 1..Len(more)
  BY <1>1, <1>2
<1>4. In(e, more) /\ \A o : In(o, k) => In(o, more)
  BY <1>2, <1>3 DEF In
<1> QED BY <1>4 DEF more

(* Nothing that is to be kept is left out. *)
LEMMA KeptHas ==
  ASSUME NEW l \in Seq(Entry), NEW keep
  PROVE  \A p \in 1..Len(l) : l[p] \in keep => In(l[p], Kept(l, keep))
<1>1. Len(l) \in Nat /\ \A i \in 1..Len(l) : l[i] \in Entry
  <2> DEFINE entry == Entry
  <2> HIDE DEF entry
  <2>1. l \in Seq(entry)
    BY DEF entry
  <2>2. Len(l) \in Nat /\ l \in [1..Len(l) -> entry]
    BY <2>1, LenProperties
  <2> QED BY <2>2 DEF entry
<1>2. PICK g : KeptTo(l, keep, Len(l), g) /\ Kept(l, keep) = g[Len(l)]
  BY <1>1, KeptIs
<1>3. \A i \in 0..Len(l) :
        g[i] = IF i = 0 THEN <<>>
               ELSE IF l[i] \in keep THEN Append(g[i - 1], l[i]) ELSE g[i - 1]
  BY <1>2 DEF KeptTo
<1> DEFINE Has(n) == g[n] \in Seq(Entry) /\ \A p \in 1..n : l[p] \in keep => In(l[p], g[n])
           T == {n \in Nat : n <= Len(l) => Has(n)}
<1>4. 0 \in T
  <2>1. g[0] = <<>>
    BY <1>1, <1>3
  <2>2. <<>> \in Seq(Entry)
    BY EmptySeq
  <2>3. g[0] \in Seq(Entry)
    BY <2>1, <2>2, Zenon
  <2>4. \A p \in 1..0 : FALSE
    OBVIOUS
  <2>5. Has(0)
    BY <2>3, <2>4, Zenon
  <2> HIDE DEF Has
  <2> QED BY <2>5
<1>5. ASSUME NEW n \in T PROVE n + 1 \in T
  <2>1. n \in Nat /\ n + 1 \in Nat
    OBVIOUS
  <2>2. ASSUME n + 1 <= Len(l) PROVE Has(n + 1)
    <3>1. n <= Len(l) /\ n + 1 \in 0..Len(l) /\ n + 1 \in 1..Len(l) /\ n + 1 # 0 /\ (n + 1) - 1 = n
      BY <1>1, <2>1, <2>2
    <3>2. Has(n) /\ l[n + 1] \in Entry
      BY <1>1, <3>1
    <3>3. g[n + 1] = IF l[n + 1] \in keep THEN Append(g[n], l[n + 1]) ELSE g[n]
      BY <1>3, <3>1
    <3>4. \A p \in 1..n + 1 : p \in 1..n \/ p = n + 1
      BY <2>1
    <3>5. CASE l[n + 1] \in keep
      <4>1. g[n + 1] \in Seq(Entry)
        <5> DEFINE entry == Entry
        <5> HIDE DEF entry
        <5>1. g[n] \in Seq(entry) /\ l[n + 1] \in entry
          BY <3>2 DEF entry
        <5>2. Append(g[n], l[n + 1]) \in Seq(entry)
          BY <5>1, AppendProperties
        <5> QED BY <3>3, <3>5, <5>2 DEF entry
      <4>2. In(l[n + 1], g[n + 1]) /\ \A o : In(o, g[n]) => In(o, g[n + 1])
        BY <3>2, <3>3, <3>5, Appended
      <4> QED BY <3>2, <3>4, <4>1, <4>2
    <3>6. CASE l[n + 1] \notin keep
      BY <3>2, <3>3, <3>4, <3>6
    <3> QED BY <3>5, <3>6
  <2> QED BY <2>1, <2>2
<1>6. T = Nat
  <2> HIDE DEF T
  <2>1. T \subseteq Nat
    BY DEF T
  <2> QED BY <1>4, <1>5, <2>1, NatInd
<1>7. Has(Len(l))
  BY <1>1, <1>6
<1> QED BY <1>2, <1>7

(* What is left of a list without one of its entries was in it. *)
LEMMA RemovedFrom ==
  ASSUME NEW entry, NEW l \in Seq(entry), NEW m \in 1..Len(l), NEW less, less = RemoveAt(l, m)
  PROVE  less \in Seq(entry) /\ \A i \in 1..Len(less) : \E q \in 1..Len(l) : less[i] = l[q]
<1> DEFINE left == SubSeq(l, 1, m - 1)
           right == SubSeq(l, m + 1, Len(l))
           rest == left \o right
<1>1. Len(l) \in Nat /\ \A i \in 1..Len(l) : l[i] \in entry
  BY LenProperties, ElementOfSeq
<1>2. left \in Seq(entry) /\ Len(left) = m - 1 /\ \A i \in 1..m - 1 : left[i] = l[i]
  BY <1>1, SubSeqProperties
<1>3. /\ right \in Seq(entry) /\ Len(right) = Len(l) - m
      /\ \A i \in 1..Len(l) - m : right[i] = l[i + m]
  BY <1>1, SubSeqProperties
<1> HIDE DEF left, right
<1>4. /\ rest \in Seq(entry) /\ Len(rest) = Len(left) + Len(right)
      /\ \A i \in 1..Len(left) + Len(right) :
            rest[i] = IF i <= Len(left) THEN left[i] ELSE right[i - Len(left)]
  BY <1>2, <1>3, ConcatProperties
<1>5. rest = RemoveAt(l, m)
  BY DEF rest, left, right, RemoveAt
<1> HIDE DEF rest
<1>6. ASSUME NEW i \in 1..Len(rest) PROVE \E q \in 1..Len(l) : rest[i] = l[q]
  <2>1. CASE i <= Len(left)
    <3>1. i \in 1..m - 1 /\ i \in 1..Len(l) /\ i \in 1..Len(left) + Len(right)
      BY <1>1, <1>2, <1>3, <1>4, <2>1
    <3> QED BY <1>2, <1>4, <2>1, <3>1
  <2>2. CASE ~(i <= Len(left))
    <3>1. /\ i - Len(left) \in 1..Len(l) - m /\ (i - Len(left)) + m \in 1..Len(l)
          /\ i \in 1..Len(left) + Len(right)
      BY <1>1, <1>2, <1>3, <1>4, <2>2
    <3>2. rest[i] = right[i - Len(left)] /\ right[i - Len(left)] = l[(i - Len(left)) + m]
      BY <1>3, <1>4, <2>2, <3>1
    <3> QED BY <3>1, <3>2
  <2> QED BY <2>1, <2>2
<1> QED BY <1>4, <1>5, <1>6

(* A Put disturbs no other address: what is left of the others was there. *)
LEMMA OthersAsBefore ==
  ASSUME CacheInv, NEW a \in Addrs, Put(a), NEW j \in 1..Len(entries'), entries'[j].addr # a
  PROVE  \E i \in 1..Len(entries) : entries'[j] = entries[i]
<1> DEFINE entry == Entry
           one == <<[addr |-> a, seen |-> clock']>>
<1>1. /\ entries \in Seq(entry) /\ Len(entries) \in Nat /\ DOMAIN entries = 1..Len(entries)
      /\ clock' \in 0..MaxClock
  BY GoodFacts, ListIsShort, FileTypes, Sizes DEF CacheInv, Good, Put
<1>2. one \in Seq(entry) /\ Len(one) = 1 /\ one[1].addr = a
  BY <1>1 DEF Entry
<1> HIDE DEF entry, one
<1>3. ASSUME NEW l \in Seq(entry), NEW k \in 1..Len(one \o l), (one \o l)[k].addr # a
      PROVE  \E i \in 1..Len(l) : (one \o l)[k] = l[i]
  <2> DEFINE more == one \o l
  <2>4. /\ more \in Seq(entry) /\ Len(more) = Len(one) + Len(l)
        /\ \A i \in 1..Len(one) + Len(l) :
              more[i] = IF i <= Len(one) THEN one[i] ELSE l[i - Len(one)]
    BY <1>2, ConcatProperties
  <2>5. Len(l) \in Nat
    BY LenProperties
  <2> HIDE DEF more
  <2>1. /\ Len(l) \in Nat /\ Len(more) = 1 + Len(l)
        /\ \A i \in 1..1 + Len(l) : more[i] = IF i <= 1 THEN one[i] ELSE l[i - 1]
    BY <1>2, <2>4, <2>5
  <2>2. k \in 1..1 + Len(l) /\ k # 1
    BY <1>2, <1>3, <2>1 DEF more
  <2>3. k - 1 \in 1..Len(l) /\ ~(k <= 1)
    BY <2>1, <2>2
  <2> QED BY <2>1, <2>2, <2>3 DEF more
<1>4. CASE Refresh(a)
  <2>1. PICK m \in 1..Len(entries) : entries' = one \o RemoveAt(entries, m)
    BY <1>1, <1>4 DEF Refresh, New, one
  <2> DEFINE rest == RemoveAt(entries, m)
  <2>5. rest = RemoveAt(entries, m)
    OBVIOUS
  <2> HIDE DEF rest
  <2>2. /\ rest \in Seq(entry)
        /\ \A i \in 1..Len(rest) : \E q \in 1..Len(entries) : rest[i] = entries[q]
    BY ONLY <1>1, <2>5, RemovedFrom
  <2>3. entries' = one \o rest
    BY <2>1 DEF rest
  <2>4. PICK i \in 1..Len(rest) : entries'[j] = rest[i]
    BY <1>3, <2>2, <2>3
  <2> QED BY <2>2, <2>4
<1>5. CASE Add(a)
  <2> DEFINE more == one \o entries
             n == IF Len(more) < MaxPerPeer THEN Len(more) ELSE MaxPerPeer
  <2>1. entries' = SubSeq(more, 1, n)
    BY <1>5 DEF Add, New, Newest, one
  <2>2. more \in Seq(entry) /\ Len(more) \in Nat
    BY <1>1, <1>2, ConcatProperties, LenProperties
  <2> HIDE DEF more
  <2>3. n \in Nat /\ n <= Len(more)
    BY <2>2, Sizes
  <2> HIDE DEF n
  <2>4. \A i \in 1..n : more[i] \in entry
    BY <2>2, <2>3, ElementOfSeq
  <2>5. Len(entries') = n /\ \A i \in 1..n : entries'[i] = more[i]
    BY <2>1, <2>2, <2>3, <2>4, SubSeqProperties
  <2>6. j \in 1..Len(more) /\ entries'[j] = more[j]
    BY <2>2, <2>3, <2>5
  <2> QED BY <1>1, <1>3, <2>6 DEF more
<1> QED BY <1>4, <1>5 DEF Put

(* A confirmation made while no Save was under way is in every copy made     *)
(* since, and in the file once nothing is dirty.                             *)
Saved(e) == (\A s \in Underway : In(e, snap[s])) /\ (~dirty => In(e, file.list))

SavedInv ==
    \A i \in 1..Len(entries) :
        entries[i].addr \notin late /\ clock - entries[i].seen < TTL => Saved(entries[i])

(* What is confirmed under way of a Save is late, and the rest as before. *)
LEMMA PutSaves ==
  ASSUME CacheInv, SavedInv, NEW a \in Addrs, Put(a)
  PROVE  SavedInv'
<1>1. dirty' = TRUE /\ snap' = snap /\ Underway' = Underway /\ clock' = clock + 1
  BY DEF Put, saveVars, Underway
<1>2. CASE Underway = {}
  BY <1>1, <1>2 DEF SavedInv, Saved
<1>3. CASE Underway # {}
  <2> SUFFICES ASSUME NEW j \in 1..Len(entries'), entries'[j].addr \notin late',
                      clock' - entries'[j].seen < TTL
               PROVE  \A s \in Underway : In(entries'[j], snap[s])
    BY <1>1 DEF SavedInv, Saved
  <2>1. entries'[j].addr # a /\ entries'[j].addr \notin late
    BY <1>3 DEF Put
  <2>2. PICK i \in 1..Len(entries) : entries'[j] = entries[i]
    BY <2>1, OthersAsBefore
  <2>3. clock - entries[i].seen < TTL
    <3>1. clock \in Nat /\ entries[i].seen \in Nat
      BY GoodFacts, FileTypes DEF CacheInv
    <3> QED BY <1>1, <2>2, <3>1, Sizes
  <2> QED BY <2>1, <2>2, <2>3 DEF SavedInv, Saved
<1> QED BY <1>2, <1>3

(* A copy has what has not expired, and what a Save writes it has copied. *)
LEMMA SaveSaves ==
  ASSUME CacheInv, SaveInv, SavedInv, NEW s \in Savers,
         Copy(s) \/ Lock(s) \/ Truncate(s) \/ Fill(s) \/ Rename(s) \/ Fail(s) \/ Clean(s)
  PROVE  SavedInv'
<1>1. entries' = entries /\ clock' = clock /\ at \in [Savers -> FilePart \cup {"idle", "copied"}]
  BY DEF Copy, Lock, Truncate, Fill, Rename, Fail, Clean, memVars, SaveInv, Shape
<1>2. CASE Copy(s)
  <2>1. /\ dirty /\ dirty' = dirty /\ snap' = [snap EXCEPT ![s] = Unexpired(entries)]
        /\ late' = IF Underway = {} THEN {} ELSE late
    BY <1>2 DEF Copy, memVars
  <2>2. snap'[s] = Unexpired(entries) /\ \A u \in Savers : u # s => snap'[u] = snap[u]
    BY <2>1, FileTypes
  <2>3. \A u \in Underway' : u \in Savers /\ (u = s \/ u \in Underway)
    BY <1>1, <1>2 DEF Copy, Underway
  <2> SUFFICES ASSUME NEW i \in 1..Len(entries), entries[i].addr \notin late',
                      clock - entries[i].seen < TTL, NEW u \in Underway'
               PROVE  In(entries[i], snap'[u])
    BY <1>1, <2>1 DEF SavedInv, Saved
  <2>4. CASE u = s
    <3>1. entries \in Seq(Entry) /\ entries[i] \in Entry
      BY GoodFacts DEF CacheInv
    <3>2. entries[i] \in {e \in Entry : clock - e.seen < TTL}
      BY <3>1
    <3> QED BY <2>2, <2>4, <3>1, <3>2, KeptHas DEF Unexpired
  <2>5. CASE u # s
    BY <2>1, <2>2, <2>3, <2>5 DEF SavedInv, Saved
  <2> QED BY <2>4, <2>5
<1>3. CASE Lock(s) \/ Truncate(s) \/ Fill(s) \/ Fail(s)
  <2>1. dirty' = dirty /\ snap' = snap /\ file' = file /\ late' = late
    BY <1>3 DEF Lock, Truncate, Fill, Fail, memVars
  <2>2. Underway' \subseteq Underway
    BY <1>1, <1>3 DEF Lock, Truncate, Fill, Fail, Underway
  <2> QED BY <1>1, <2>1, <2>2 DEF SavedInv, Saved
<1>4. CASE Rename(s)
  <2>1. dirty' = dirty /\ snap' = snap /\ late' = late /\ file' = tmp /\ at[s] = "written"
    BY <1>4 DEF Rename, memVars
  <2>2. file'.list = snap[s] /\ s \in Underway
    BY <2>1 DEF SaveInv, Progress, Whole, Underway
  <2>3. Underway' \subseteq Underway
    BY <1>1, <1>4 DEF Rename, Underway
  <2> QED BY <1>1, <2>1, <2>2, <2>3 DEF SavedInv, Saved
<1>5. CASE Clean(s)
  <2>1. snap' = snap /\ late' = late /\ file' = file /\ at[s] = "renamed"
    BY <1>5 DEF Clean
  <2>2. file.list = snap[s] /\ s \in Underway
    BY <2>1 DEF SaveInv, Progress, Whole, Underway
  <2>3. Underway' \subseteq Underway
    BY <1>1, <1>5 DEF Clean, Underway
  <2> QED BY <1>1, <2>1, <2>2, <2>3 DEF SavedInv, Saved
<1> QED BY <1>2, <1>3, <1>4, <1>5

(* What stays dirty until it is written: every confirmation but those made   *)
(* while a Save is under way, for any number of overlapping and failing      *)
(* Saves, ends of the process, sizes and times.                              *)
THEOREM OnlyLateConfirmationsAreLost == Spec => []OnlyLateIsLost
<1>1. Init => SavedInv
  <2>1. Init => Len(entries) = 0
    BY EmptySeq DEF Init
  <2> QED BY <2>1 DEF SavedInv
<1>2. CacheInv /\ SaveInv /\ SavedInv /\ [Next]_vars => SavedInv'
  <2> SUFFICES ASSUME CacheInv, SaveInv, SavedInv, [Next]_vars PROVE SavedInv'
    OBVIOUS
  <2>1. CASE Tick \/ UNCHANGED vars
    <3>1. /\ entries' = entries /\ dirty' = dirty /\ at' = at /\ snap' = snap /\ file' = file
          /\ late' = late /\ clock' \in {clock, clock + 1}
      BY <2>1 DEF Tick, vars, memVars, saveVars
    <3>2. \A i \in 1..Len(entries) : clock' - entries[i].seen < TTL => clock - entries[i].seen < TTL
      <4>1. clock \in Nat /\ \A i \in 1..Len(entries) : entries[i].seen \in Nat
        BY GoodFacts, FileTypes DEF CacheInv
      <4> QED BY <3>1, <4>1, Sizes
    <3> QED BY <3>1, <3>2 DEF SavedInv, Saved, Underway
  <2>2. CASE Open
    <3>1. entries' = file.list /\ file' = file /\ Underway' = {}
      BY <2>2 DEF Open, SaveInv, FileNeverTorn, Underway
    <3> QED BY <3>1 DEF SavedInv, Saved, In
  <2> QED BY <2>1, <2>2, PutSaves, SaveSaves DEF Next
<1>3. CacheInv /\ SavedInv => OnlyLateIsLost
  <2> SUFFICES ASSUME CacheInv, SavedInv, ~dirty, NEW i \in DOMAIN entries,
                      entries[i].addr \notin late, ~(clock - entries[i].seen >= TTL)
               PROVE  entries[i] \in Range(file.list)
    BY DEF OnlyLateIsLost
  <2>1. /\ i \in 1..Len(entries) /\ clock \in Nat /\ entries[i].seen \in Nat
        /\ DOMAIN file.list = 1..Len(file.list)
    BY GoodFacts, ListIsShort, FileTypes DEF CacheInv, Good
  <2>2. clock - entries[i].seen < TTL
    BY <2>1, Sizes
  <2>3. In(entries[i], file.list)
    BY <2>1, <2>2 DEF SavedInv, Saved
  <2> QED BY <2>1, <2>3 DEF In, Range
<1> QED BY <1>1, <1>2, <1>3, CacheInductive, SaveInductive, PTL DEF Spec

-----------------------------------------------------------------------------
(***************************************************************************)
(* The other list of addresses that a loop makes is that of the candidates *)
(* of a path, in module Mesh.  A turn of its loop keeps a list that is     *)
(* short and has nothing twice so (OneCandidate), and so does the loop.    *)
(* Beyond the types, a frame names only addresses that its sender has had  *)
(* (FramesInv), or what it teaches could not be an address of the peer.    *)
(***************************************************************************)
CONSTANTS Nodes, Narrow, MaxMove, MaxCands, MaxFrame
VARIABLES place, cut, hole, endpoints, active, heard, bound, frames

Paths == INSTANCE Mesh

(* The assumptions of Mesh. *)
TwoNodes ==
    /\ IsFiniteSet(Nodes) /\ Cardinality(Nodes) = 2 /\ Narrow \subseteq Nodes
    /\ MaxMove \in [Nodes -> Nat]
    /\ MaxCands \in Nat \ {0} /\ MaxFrame \in Nat \ {0}

Listed(l, S) == l \in Seq(S) /\ Len(l) <= MaxCands /\ Paths!IsInjective(l)

(* Addresses that a node has had. *)
Had(n) == 0..place[n]

(* A turn leaves the list as it is or puts one more candidate last. *)
LEMMA OneCandidate ==
  ASSUME TwoNodes, NEW S, NEW l, Listed(l, S), NEW a \in S
  PROVE  Listed(Paths!MergeCandidate(l, a), S)
<1>1. CASE a \in Paths!ToSet(l) \/ Len(l) >= MaxCands
  BY <1>1 DEF Paths!MergeCandidate
<1>2. CASE ~(a \in Paths!ToSet(l) \/ Len(l) >= MaxCands)
  <2> DEFINE more == Append(l, a)
  <2>1. /\ l \in Seq(S) /\ Len(l) \in Nat /\ l \in [1..Len(l) -> S]
    BY LenProperties DEF Listed
  <2>2. /\ more \in Seq(S) /\ Len(more) = Len(l) + 1
        /\ \A i \in 1..Len(l) : more[i] = l[i]
        /\ more[Len(l) + 1] = a
    BY <2>1, AppendProperties
  <2> HIDE DEF more
  <2>3. Len(more) <= MaxCands
    BY <1>2, <2>1, <2>2 DEF TwoNodes
  <2>4. \A i \in 1..Len(l) : l[i] # a
    BY <1>2, <2>1 DEF Paths!ToSet
  <2>5. ASSUME NEW i \in 1..Len(more), NEW j \in 1..Len(more), more[i] = more[j]
        PROVE  i = j
    <3>1. (i \in 1..Len(l) \/ i = Len(l) + 1) /\ (j \in 1..Len(l) \/ j = Len(l) + 1)
      BY <2>1, <2>2
    <3>2. \A p, q \in 1..Len(l) : l[p] = l[q] => p = q
      BY <2>1 DEF Listed, Paths!IsInjective
    <3> QED BY <2>2, <2>4, <2>5, <3>1, <3>2
  <2>6. Paths!IsInjective(more)
    <3>1. DOMAIN more = 1..Len(more)
      BY <2>2, LenProperties
    <3> QED BY <2>5, <3>1 DEF Paths!IsInjective
  <2>7. Listed(more, S)
    BY <2>2, <2>3, <2>6 DEF Listed
  <2> QED BY <1>2, <2>7 DEF Paths!MergeCandidate, more
<1> QED BY <1>1, <1>2

(* What the first n turns of the loop of Merged have listed. *)
MergedTo(all, n, g) ==
    g = [i \in 0..n |-> IF i = 0 THEN <<>> ELSE Paths!MergeCandidate(g[i - 1], all[i])]

(* The loop may run for any number of turns. *)
LEMMA MergedExists ==
  ASSUME NEW all, NEW n \in Nat
  PROVE  \E g : MergedTo(all, n, g)
<1> DEFINE T == {m \in Nat : \E g : MergedTo(all, m, g)}
<1>1. 0 \in T
  <2>1. MergedTo(all, 0, [i \in 0..0 |-> <<>>])
    BY DEF MergedTo
  <2> QED BY <2>1
<1>2. ASSUME NEW m \in T PROVE m + 1 \in T
  <2>1. m \in Nat /\ m + 1 \in Nat
    OBVIOUS
  <2>2. PICK g : MergedTo(all, m, g)
    OBVIOUS
  <2> DEFINE next == Paths!MergeCandidate(g[m], all[m + 1])
             h == [i \in 0..m + 1 |-> IF i <= m THEN g[i] ELSE next]
  <2>3. \A i \in 0..m : g[i] = IF i = 0 THEN <<>> ELSE Paths!MergeCandidate(g[i - 1], all[i])
    BY <2>2 DEF MergedTo
  <2>4. \A i \in 0..m : h[i] = g[i]
    BY <2>1
  <2>5. h[m + 1] = next
    BY <2>1
  <2>6. ASSUME NEW i \in 0..m + 1
        PROVE  h[i] = IF i = 0 THEN <<>> ELSE Paths!MergeCandidate(h[i - 1], all[i])
    <3>1. CASE i = 0
      BY <2>1, <2>3, <2>4, <3>1
    <3>2. CASE i \in 1..m
      <4>1. i \in 0..m /\ i - 1 \in 0..m /\ i # 0
        BY <2>1, <3>2
      <4> HIDE DEF h
      <4> QED BY <2>3, <2>4, <4>1
    <3>3. CASE i = m + 1
      <4>1. i # 0 /\ i - 1 = m /\ m \in 0..m
        BY <2>1, <3>3
      <4>2. h[i - 1] = g[m]
        BY <2>4, <4>1
      <4> HIDE DEF h
      <4> QED BY <2>5, <3>3, <4>1, <4>2
    <3> QED BY <2>1, <3>1, <3>2, <3>3
  <2>7. MergedTo(all, m + 1, h)
    <3>1. h = [i \in 0..m + 1 |-> h[i]]
      OBVIOUS
    <3> HIDE DEF h
    <3> QED BY <2>6, <3>1 DEF MergedTo
  <2> HIDE DEF h
  <2> QED BY <2>1, <2>7
<1>3. T = Nat
  <2> HIDE DEF T
  <2>1. T \subseteq Nat
    BY DEF T
  <2> QED BY <1>1, <1>2, <2>1, NatInd
<1> QED BY <1>3

(* Merged is what the loop has listed in the end. *)
LEMMA MergedIs ==
  ASSUME NEW all, Len(all) \in Nat
  PROVE  \E g : MergedTo(all, Len(all), g) /\ Paths!Merged(all) = g[Len(all)]
<1> DEFINE merged[i \in 0..Len(all)] ==
            IF i = 0 THEN <<>> ELSE Paths!MergeCandidate(merged[i - 1], all[i])
<1>1. Paths!Merged(all) = merged[Len(all)]
  BY DEF Paths!Merged
<1>2. merged = CHOOSE g : MergedTo(all, Len(all), g)
  BY DEF MergedTo
<1>3. MergedTo(all, Len(all), merged)
  <2> HIDE DEF merged
  <2> QED BY <1>2, MergedExists
<1> QED BY <1>1, <1>3

(* Whatever it merges, the loop makes a list that is short and has nothing twice. *)
LEMMA MergedListed ==
  ASSUME TwoNodes, NEW S, NEW all \in Seq(S)
  PROVE  Listed(Paths!Merged(all), S)
<1>1. Len(all) \in Nat /\ \A i \in 1..Len(all) : all[i] \in S
  BY LenProperties
<1>2. PICK merged : MergedTo(all, Len(all), merged) /\ Paths!Merged(all) = merged[Len(all)]
  BY <1>1, MergedIs
<1>5. \A i \in 0..Len(all) :
        merged[i] = IF i = 0 THEN <<>> ELSE Paths!MergeCandidate(merged[i - 1], all[i])
  BY <1>2 DEF MergedTo
<1> DEFINE T == {n \in Nat : n <= Len(all) => Listed(merged[n], S)}
<1>6. 0 \in T
  <2>1. merged[0] = <<>>
    BY <1>1, <1>5
  <2>2. Listed(<<>>, S)
    BY EmptySeq DEF Listed, Paths!IsInjective, TwoNodes
  <2> QED BY <2>1, <2>2
<1>7. ASSUME NEW n \in T PROVE n + 1 \in T
  <2>1. n \in Nat /\ n + 1 \in Nat
    OBVIOUS
  <2>2. ASSUME n + 1 <= Len(all) PROVE Listed(merged[n + 1], S)
    <3>1. /\ n <= Len(all) /\ n + 1 \in 0..Len(all) /\ n + 1 \in 1..Len(all)
          /\ n + 1 # 0 /\ (n + 1) - 1 = n
      BY <1>1, <2>1, <2>2
    <3>2. Listed(merged[n], S) /\ all[n + 1] \in S
      BY <1>1, <3>1
    <3>3. Listed(Paths!MergeCandidate(merged[n], all[n + 1]), S)
      BY <3>2, OneCandidate
    <3>4. merged[n + 1] = Paths!MergeCandidate(merged[n], all[n + 1])
      BY <1>5, <3>1
    <3> QED BY <3>3, <3>4
  <2> QED BY <2>1, <2>2
<1>8. T = Nat
  <2> HIDE DEF T
  <2>1. T \subseteq Nat
    BY DEF T
  <2> QED BY <1>6, <1>7, <2>1, NatInd
<1>9. Listed(merged[Len(all)], S)
  BY <1>1, <1>8
<1> QED BY <1>2, <1>9

(* A turn leaves what is in the list where it is, and the candidate is in it *)
(* afterwards unless the list is full.                                       *)
LEMMA TurnAdds ==
  ASSUME TwoNodes, NEW S, NEW l, Listed(l, S), NEW a \in S, NEW m, m = Paths!MergeCandidate(l, a)
  PROVE  /\ Len(l) \in Nat /\ Len(m) \in Nat /\ Len(l) <= Len(m) /\ Len(m) <= Len(l) + 1
         /\ \A i \in 1..Len(l) : m[i] = l[i]
         /\ Paths!ToSet(l) \subseteq Paths!ToSet(m)
         /\ a \in Paths!ToSet(m) \/ Len(l) = MaxCands
         /\ a \in Paths!ToSet(l) => m = l
<1>1. l \in Seq(S) /\ Len(l) \in Nat /\ Len(l) <= MaxCands /\ MaxCands \in Nat
  BY LenProperties DEF Listed, TwoNodes
<1>2. CASE a \in Paths!ToSet(l) \/ Len(l) >= MaxCands
  BY <1>1, <1>2 DEF Paths!MergeCandidate
<1>3. CASE ~(a \in Paths!ToSet(l) \/ Len(l) >= MaxCands)
  <2>1. m = Append(l, a)
    BY <1>3 DEF Paths!MergeCandidate
  <2>2. /\ m \in Seq(S) /\ Len(m) = Len(l) + 1 /\ m[Len(l) + 1] = a
        /\ \A i \in 1..Len(l) : m[i] = l[i]
    BY <1>1, <2>1, AppendProperties
  <2>3. DOMAIN l = 1..Len(l) /\ DOMAIN m = 1..Len(m)
    BY <1>1, <2>2, LenProperties
  <2>4. \A i \in DOMAIN l : i \in DOMAIN m /\ m[i] = l[i]
    BY <1>1, <2>2, <2>3
  <2>5. Len(l) + 1 \in DOMAIN m
    BY <1>1, <2>2, <2>3
  <2> QED BY <1>1, <1>3, <2>2, <2>4, <2>5 DEF Paths!ToSet
<1> QED BY <1>2, <1>3

(* The loop keeps the first candidate first, and the last one finds no room  *)
(* only where there is one too many of them and none comes again.            *)
LEMMA MergedLeads ==
  ASSUME TwoNodes, NEW S, NEW all \in Seq(S), Len(all) >= 1, Len(all) <= MaxCands + 1
  PROVE  /\ Paths!Merged(all)[1] = all[1]
         /\ \A j \in 1..Len(all) :
                \/ all[j] \in Paths!ToSet(Paths!Merged(all))
                \/ j = MaxCands + 1 /\ \A i \in 2..j : all[i] # all[1]
<1>1. /\ Len(all) \in Nat /\ \A i \in 1..Len(all) : all[i] \in S
      /\ MaxCands \in Nat /\ MaxCands # 0
  BY LenProperties DEF TwoNodes
<1>2. PICK g : MergedTo(all, Len(all), g) /\ Paths!Merged(all) = g[Len(all)]
  BY <1>1, MergedIs
<1>3. \A i \in 0..Len(all) :
        g[i] = IF i = 0 THEN <<>> ELSE Paths!MergeCandidate(g[i - 1], all[i])
  BY <1>2 DEF MergedTo
<1> DEFINE Again(k) == \E i \in 2..k : all[i] = all[1]
           Leads(k) ==
             /\ Listed(g[k], S) /\ Len(g[k]) \in 1..k /\ g[k][1] = all[1]
             /\ Again(k) => Len(g[k]) <= k - 1
             /\ \A j \in 1..k : all[j] \in Paths!ToSet(g[k]) \/ (j = MaxCands + 1 /\ ~Again(j))
           T == {n \in Nat : n + 1 <= Len(all) => Leads(n + 1)}
<1>4. ASSUME NEW k \in 0..(Len(all) - 1), Listed(g[k], S)
      PROVE  /\ Listed(g[k + 1], S)
             /\ Len(g[k]) \in Nat /\ Len(g[k + 1]) \in Nat
             /\ Len(g[k]) <= Len(g[k + 1]) /\ Len(g[k + 1]) <= Len(g[k]) + 1
             /\ \A i \in 1..Len(g[k]) : g[k + 1][i] = g[k][i]
             /\ Paths!ToSet(g[k]) \subseteq Paths!ToSet(g[k + 1])
             /\ all[k + 1] \in Paths!ToSet(g[k + 1]) \/ Len(g[k]) = MaxCands
             /\ all[k + 1] \in Paths!ToSet(g[k]) => g[k + 1] = g[k]
  <2>1. k + 1 \in 1..Len(all) /\ k + 1 \in 0..Len(all) /\ k + 1 # 0 /\ (k + 1) - 1 = k
    BY <1>1
  <2>2. all[k + 1] \in S /\ g[k + 1] = Paths!MergeCandidate(g[k], all[k + 1])
    BY <1>1, <1>3, <2>1
  <2>3. Listed(g[k + 1], S)
    BY <1>4, <2>2, OneCandidate
  <2> DEFINE l == g[k]
             m == g[k + 1]
  <2>4. Listed(l, S) /\ all[k + 1] \in S /\ m = Paths!MergeCandidate(l, all[k + 1])
    BY <1>4, <2>2
  <2> HIDE DEF l, m
  <2>5. /\ Len(l) \in Nat /\ Len(m) \in Nat /\ Len(l) <= Len(m) /\ Len(m) <= Len(l) + 1
        /\ \A i \in 1..Len(l) : m[i] = l[i]
        /\ Paths!ToSet(l) \subseteq Paths!ToSet(m)
        /\ all[k + 1] \in Paths!ToSet(m) \/ Len(l) = MaxCands
        /\ all[k + 1] \in Paths!ToSet(l) => m = l
    BY <2>4, TurnAdds
  <2> QED BY <2>3, <2>5 DEF l, m
<1>5. 0 \in T
  <2>1. 0 \in 0..(Len(all) - 1) /\ 1 \in 1..Len(all) /\ 0 \in 0..Len(all) /\ 1 \in 0..Len(all)
    BY <1>1
  <2>2. g[0] = <<>> /\ Len(g[0]) = 0
    BY <1>3, <2>1
  <2>3. Listed(g[0], S)
    BY <2>2, EmptySeq DEF Listed, Paths!IsInjective, TwoNodes
  <2>4. g[1] = Append(<<>>, all[1])
    <3>1. g[1] = Paths!MergeCandidate(<<>>, all[1])
      BY <1>3, <2>1, <2>2
    <3>2. ~(all[1] \in Paths!ToSet(<<>>) \/ Len(<<>>) >= MaxCands)
      BY <1>1 DEF Paths!ToSet
    <3> QED BY <3>1, <3>2 DEF Paths!MergeCandidate
  <2>5. g[1] = <<all[1]>> /\ Len(g[1]) = 1 /\ g[1][1] = all[1]
    BY <1>1, <2>1, <2>4
  <2>6. Listed(g[1], S)
    BY <1>4, <2>1, <2>3
  <2>7. all[1] \in Paths!ToSet(g[1])
    BY <2>5 DEF Paths!ToSet
  <2>8. ~Again(1) /\ \A j \in 1..1 : j = 1
    OBVIOUS
  <2>9. Leads(1)
    BY <1>1, <2>5, <2>6, <2>7, <2>8
  <2> HIDE DEF Leads
  <2> QED BY <1>1, <2>9
<1>6. ASSUME NEW n \in T PROVE n + 1 \in T
  <2> SUFFICES ASSUME (n + 1) + 1 <= Len(all) PROVE Leads((n + 1) + 1)
    <3> HIDE DEF Leads
    <3> QED OBVIOUS
  <2> DEFINE k == n + 1
  <2>1. /\ k \in Nat /\ k >= 1 /\ k \in 0..(Len(all) - 1) /\ k + 1 \in 1..Len(all)
        /\ k <= MaxCands /\ Leads(k)
    <3>1. n \in Nat
      OBVIOUS
    <3>2. k \in Nat /\ k >= 1 /\ k + 1 <= Len(all)
      BY <3>1
    <3>3. Leads(k)
      <4> HIDE DEF Leads
      <4> QED BY <1>1, <3>1
    <3> HIDE DEF k, Leads
    <3> QED BY <1>1, <3>2, <3>3
  <2> HIDE DEF k
  <2>2. /\ Listed(g[k + 1], S)
        /\ Len(g[k]) \in Nat /\ Len(g[k + 1]) \in Nat
        /\ Len(g[k]) <= Len(g[k + 1]) /\ Len(g[k + 1]) <= Len(g[k]) + 1
        /\ \A i \in 1..Len(g[k]) : g[k + 1][i] = g[k][i]
        /\ Paths!ToSet(g[k]) \subseteq Paths!ToSet(g[k + 1])
        /\ all[k + 1] \in Paths!ToSet(g[k + 1]) \/ Len(g[k]) = MaxCands
        /\ all[k + 1] \in Paths!ToSet(g[k]) => g[k + 1] = g[k]
    BY <1>4, <2>1
  <2>3. Len(g[k + 1]) \in 1..(k + 1) /\ g[k + 1][1] = all[1]
    <3>1. 1 \in 1..Len(g[k]) /\ g[k][1] = all[1] /\ Len(g[k]) <= k /\ Len(g[k]) >= 1
      BY <2>1
    <3>2. g[k + 1][1] = all[1]
      BY <2>2, <3>1
    <3> QED BY <2>1, <2>2, <3>1, <3>2
  <2>4. all[1] \in Paths!ToSet(g[k])
    <3>1. 1 \in DOMAIN g[k] /\ g[k][1] = all[1]
      BY <2>1, LenProperties DEF Listed
    <3> QED BY <3>1 DEF Paths!ToSet
  <2>5. ASSUME Again(k + 1) PROVE Len(g[k + 1]) <= k
    <3>1. PICK i \in 2..(k + 1) : all[i] = all[1]
      BY <2>5
    <3>2. CASE i = k + 1
      BY <2>1, <2>2, <2>4, <3>1, <3>2
    <3>3. CASE i # k + 1
      <4>1. Again(k)
        BY <2>1, <3>1, <3>3
      <4> QED BY <2>1, <2>2, <4>1
    <3> QED BY <3>2, <3>3
  <2>6. ASSUME NEW j \in 1..(k + 1)
        PROVE  all[j] \in Paths!ToSet(g[k + 1]) \/ (j = MaxCands + 1 /\ ~Again(j))
    <3>1. CASE j \in 1..k
      BY <2>1, <2>2, <3>1
    <3>2. CASE j = k + 1
      <4> SUFFICES ASSUME all[k + 1] \notin Paths!ToSet(g[k + 1])
                   PROVE  k = MaxCands /\ ~Again(k + 1)
        BY <2>1, <3>2
      <4>1. Len(g[k]) = MaxCands /\ k = MaxCands
        BY <1>1, <2>1, <2>2
      <4>2. all[k + 1] # all[1]
        BY <2>2, <2>4
      <4>3. ~Again(k)
        BY <2>1, <4>1
      <4> QED BY <2>1, <4>1, <4>2, <4>3
    <3> QED BY <2>1, <3>1, <3>2
  <2>7. Leads(k + 1)
    BY <2>1, <2>2, <2>3, <2>5, <2>6
  <2> QED BY <2>7 DEF k
<1>7. T = Nat
  <2> HIDE DEF T
  <2>1. T \subseteq Nat
    BY DEF T
  <2> QED BY <1>5, <1>6, <2>1, NatInd
<1>8. Leads(Len(all))
  <2>1. Len(all) - 1 \in Nat /\ (Len(all) - 1) + 1 = Len(all)
    BY <1>1
  <2>2. Len(all) - 1 \in T
    BY <1>7, <2>1
  <2> HIDE DEF Leads
  <2> QED BY <1>1, <2>1, <2>2
<1> QED BY <1>2, <1>8

DirectFrames(n) ==
    [to : {n}, via : {"direct"}, from : Had(Paths!Peer(n)), at : 0..MaxMove[n],
     kind : {"ping", "punch", "addr"}, cand : Had(Paths!Peer(n))]
RelayFrames(n) ==
    [to : {n}, via : {"relay"}, from : {Paths!None}, at : {Paths!None},
     kind : {"addr"}, cand : Had(Paths!Peer(n))]
FramesTo(n) == DirectFrames(n) \cup RelayFrames(n)

FramesInv ==
    /\ \A f \in frames : \E n \in Nodes : f \in FramesTo(n)
    /\ IsFiniteSet(frames) /\ Cardinality(frames) <= MaxFrame

PathInv(n) ==
    /\ Listed(endpoints[n], Had(Paths!Peer(n)))
    /\ active[n] \in {Paths!None} \cup Had(Paths!Peer(n))
    /\ heard[n] \in {"fresh", "suspect", "old"}
    /\ heard[n] # "old" => active[n] # Paths!None

RoadInv(n) ==
    /\ place[n] \in 0..MaxMove[n] /\ bound[n] \in Had(n)
    /\ hole[n] \subseteq Had(Paths!Peer(n))

Functions ==
    /\ place = [n \in Nodes |-> place[n]] /\ bound = [n \in Nodes |-> bound[n]]
    /\ hole = [n \in Nodes |-> hole[n]] /\ endpoints = [n \in Nodes |-> endpoints[n]]
    /\ active = [n \in Nodes |-> active[n]] /\ heard = [n \in Nodes |-> heard[n]]

MeshInv ==
    /\ cut \subseteq Narrow /\ Functions
    /\ \A n \in Nodes : RoadInv(n) /\ PathInv(n)
    /\ FramesInv

(* Each node is the peer of the other. *)
LEMMA PeerOfPeer ==
  ASSUME TwoNodes, NEW n \in Nodes
  PROVE  /\ Paths!Peer(n) \in Nodes /\ Paths!Peer(n) # n
         /\ Paths!Peer(Paths!Peer(n)) = n
         /\ \A m \in Nodes : m = n \/ m = Paths!Peer(n)
<1>1. IsFiniteSet(Nodes \ {n}) /\ Cardinality(Nodes \ {n}) = 1
  BY FS_RemoveElement DEF TwoNodes
<1>2. PICK m : Nodes \ {n} = {m}
  BY <1>1, FS_Singleton
<1>3. m \in Nodes /\ m # n /\ \A q \in Nodes : q = n \/ q = m
  BY <1>2
<1>4. Paths!Peer(n) = m
  BY <1>3 DEF Paths!Peer
<1>5. Paths!Peer(m) = n
  BY <1>3 DEF Paths!Peer
<1> QED BY <1>3, <1>4, <1>5

(* The invariant is about numbers. *)
LEMMA RoadNumbers ==
  ASSUME TwoNodes, MeshInv, NEW n \in Nodes
  PROVE  /\ MaxMove[n] \in Nat /\ place[n] \in Nat /\ place[n] <= MaxMove[n] /\ bound[n] \in Nat
         /\ Paths!None = -1 /\ \A k \in Had(n) : k \in Nat /\ k # Paths!None
  BY DEF TwoNodes, MeshInv, RoadInv, Had, Paths!None

(* A list of some addresses is one of more. *)
LEMMA ListedMore ==
  ASSUME NEW S, NEW S2, S \subseteq S2, NEW l, Listed(l, S)
  PROVE  Listed(l, S2)
<1>1. l \in Seq(S2)
  <2>1. l \in Seq(S)
    BY DEF Listed
  <2>2. Len(l) \in Nat /\ l \in [1..Len(l) -> S]
    BY <2>1, LenProperties
  <2>3. l \in [1..Len(l) -> S2]
    BY <2>2
  <2> QED BY <2>2, <2>3, SeqDef
<1> QED BY <1>1 DEF Listed

(* A node moves. *)
LEMMA MoveKeeps ==
  ASSUME TwoNodes, MeshInv, NEW n \in Nodes, Paths!Move(n)
  PROVE  MeshInv'
<1>1. /\ place' = [place EXCEPT ![n] = place[n] + 1] /\ place[n] < MaxMove[n]
      /\ hole' = [hole EXCEPT ![n] = {}]
      /\ UNCHANGED <<cut, endpoints, active, heard, bound>>
      /\ frames' \subseteq frames
  BY DEF Paths!Move, Paths!pathVars
<1>2. \A m \in Nodes : place'[m] \in 0..MaxMove[m] /\ Had(m) \subseteq Had(m)'
  BY <1>1, RoadNumbers DEF MeshInv, Functions, Had
<1>3. Functions'
  BY <1>1 DEF MeshInv, Functions
<1>4. ASSUME NEW m \in Nodes PROVE RoadInv(m)'
  BY <1>1, <1>2, PeerOfPeer DEF MeshInv, Functions, RoadInv
<1>5. ASSUME NEW m \in Nodes PROVE PathInv(m)'
  <2>1. Had(Paths!Peer(m)) \subseteq Had(Paths!Peer(m))'
    BY <1>2, PeerOfPeer
  <2>2. PathInv(m) /\ endpoints'[m] = endpoints[m] /\ active'[m] = active[m] /\ heard'[m] = heard[m]
    BY <1>1 DEF MeshInv
  <2>3. Listed(endpoints[m], Had(Paths!Peer(m))')
    BY <2>1, <2>2, ListedMore DEF PathInv
  <2>4. Listed(endpoints[m], Had(Paths!Peer(m)))'
    BY <2>2, <2>3 DEF Listed, Paths!IsInjective
  <2> QED BY <2>1, <2>2, <2>4 DEF PathInv
<1>6. FramesInv'
  <2>1. ASSUME NEW m \in Nodes, NEW f \in FramesTo(m) PROVE f \in FramesTo(m)'
    <3>1. Had(Paths!Peer(m)) \subseteq Had(Paths!Peer(m))'
      BY <1>2, PeerOfPeer
    <3> QED BY <2>1, <3>1 DEF FramesTo, DirectFrames, RelayFrames
  <2>2. IsFiniteSet(frames') /\ Cardinality(frames') <= MaxFrame
    <3>1. /\ IsFiniteSet(frames') /\ Cardinality(frames') <= Cardinality(frames)
          /\ Cardinality(frames) \in Nat /\ Cardinality(frames') \in Nat /\ MaxFrame \in Nat
      BY <1>1, FS_Subset, FS_CardinalityType DEF MeshInv, FramesInv, TwoNodes
    <3> QED BY <3>1 DEF MeshInv, FramesInv
  <2> QED BY <1>1, <2>1, <2>2 DEF MeshInv, FramesInv
<1> QED BY <1>1, <1>3, <1>4, <1>5, <1>6 DEF MeshInv

(* Steps that move nobody leave what each has had.                           *)
LEMMA Unmoved ==
  ASSUME place' = place, NEW n \in Nodes
  PROVE  /\ Had(n)' = Had(n) /\ Had(Paths!Peer(n))' = Had(Paths!Peer(n))
         /\ FramesTo(n)' = FramesTo(n)
  BY DEF Had, FramesTo, DirectFrames, RelayFrames

(* The instance has its own name for the size of a set.                      *)
LEMMA SameSize == \A S : Paths!Cardinality(S) = Cardinality(S)
  BY DEF Paths!Cardinality, Cardinality

(* Any part of what is to be sent may get on the way.                        *)
LEMMA SentKeeps ==
  ASSUME TwoNodes, MeshInv, place' = place, NEW old \in SUBSET frames, NEW new,
         IsFiniteSet(new), \A f \in new : \E m \in Nodes : f \in FramesTo(m),
         Paths!Sent(old, new)
  PROVE  FramesInv'
<1>1. PICK some \in SUBSET new : frames' = old \cup some
  BY DEF Paths!Sent
<1>2. IsFiniteSet(frames')
  BY <1>1, FS_Subset, FS_Union DEF MeshInv, FramesInv
<1>3. Cardinality(frames') <= MaxFrame
  BY SameSize DEF Paths!Sent
<1>4. ASSUME NEW f \in frames' PROVE \E m \in Nodes : f \in FramesTo(m)'
  BY <1>1, Unmoved DEF MeshInv, FramesInv
<1> QED BY <1>2, <1>3, <1>4 DEF FramesInv

(* A frame is lost, or read. *)
LEMMA ReadKeeps ==
  ASSUME TwoNodes, MeshInv, place' = place, frames' \subseteq frames
  PROVE  FramesInv'
<1>1. IsFiniteSet(frames') /\ Cardinality(frames') <= MaxFrame
  <2>1. /\ IsFiniteSet(frames') /\ Cardinality(frames') <= Cardinality(frames)
        /\ Cardinality(frames) \in Nat /\ Cardinality(frames') \in Nat /\ MaxFrame \in Nat
    BY FS_Subset, FS_CardinalityType DEF MeshInv, FramesInv, TwoNodes
  <2> QED BY <2>1 DEF MeshInv, FramesInv
<1>2. ASSUME NEW f \in frames' PROVE \E m \in Nodes : f \in FramesTo(m)'
  BY Unmoved DEF MeshInv, FramesInv
<1> QED BY <1>1, <1>2 DEF FramesInv

(* The path of one node changes and keeps in order. *)
LEMMA PathChanges ==
  ASSUME TwoNodes, MeshInv, UNCHANGED <<place, cut, hole, bound>>, FramesInv',
         NEW n \in Nodes, NEW list, NEW way, NEW age,
         endpoints' = [endpoints EXCEPT ![n] = list],
         active' = [active EXCEPT ![n] = way],
         heard' = [heard EXCEPT ![n] = age],
         Listed(list, Had(Paths!Peer(n))),
         way \in {Paths!None} \cup Had(Paths!Peer(n)),
         age \in {"fresh", "suspect", "old"}, age # "old" => way # Paths!None
  PROVE  MeshInv'
<1>1. Functions'
  BY DEF MeshInv, Functions
<1>2. ASSUME NEW m \in Nodes PROVE RoadInv(m)'
  BY Unmoved DEF MeshInv, RoadInv
<1>3. ASSUME NEW m \in Nodes PROVE PathInv(m)'
  <2>1. CASE m = n
    <3>1. endpoints'[m] = list /\ active'[m] = way /\ heard'[m] = age
      BY <2>1 DEF MeshInv, Functions
    <3>2. Listed(list, Had(Paths!Peer(m))')
      BY <2>1, Unmoved
    <3>3. Listed(endpoints[m], Had(Paths!Peer(m)))'
      BY <3>1, <3>2 DEF Listed, Paths!IsInjective
    <3> QED BY <2>1, <3>1, <3>3, Unmoved DEF PathInv
  <2>2. CASE m # n
    <3>1. endpoints'[m] = endpoints[m] /\ active'[m] = active[m] /\ heard'[m] = heard[m]
      BY <2>2 DEF MeshInv, Functions
    <3>2. Listed(endpoints[m], Had(Paths!Peer(m))')
      BY Unmoved DEF MeshInv, PathInv
    <3>3. Listed(endpoints[m], Had(Paths!Peer(m)))'
      BY <3>1, <3>2 DEF Listed, Paths!IsInjective
    <3> QED BY <3>1, <3>3, Unmoved DEF MeshInv, PathInv
  <2> QED BY <2>1, <2>2
<1> QED BY <1>1, <1>2, <1>3 DEF MeshInv

(* What is left of the path is put back as it is. *)
LEMMA SameFunctions ==
  ASSUME MeshInv, NEW n \in Nodes
  PROVE  /\ endpoints = [endpoints EXCEPT ![n] = endpoints[n]]
         /\ active = [active EXCEPT ![n] = active[n]]
         /\ heard = [heard EXCEPT ![n] = heard[n]]
  BY DEF MeshInv, Functions

(* Relay and server are told where a node is. *)
LEMMA BindKeeps ==
  ASSUME TwoNodes, MeshInv, NEW n \in Nodes, Paths!Bind(n)
  PROVE  MeshInv'
<1>1. /\ bound' = [bound EXCEPT ![n] = place[n]]
      /\ UNCHANGED <<place, cut, hole, endpoints, active, heard, frames>>
  BY DEF Paths!Bind, Paths!pathVars
<1>2. Functions'
  BY <1>1 DEF MeshInv, Functions
<1>3. ASSUME NEW m \in Nodes PROVE RoadInv(m)'
  <2>1. place[n] \in Had(n)
    BY RoadNumbers DEF Had
  <2>2. bound'[m] \in Had(m)
    BY <1>1, <2>1 DEF MeshInv, Functions, RoadInv
  <2> QED BY <1>1, <2>2, Unmoved DEF MeshInv, RoadInv
<1>4. ASSUME NEW m \in Nodes PROVE PathInv(m)'
  <2>1. Listed(endpoints[m], Had(Paths!Peer(m)))'
    BY <1>1, Unmoved DEF MeshInv, PathInv, Listed, Paths!IsInjective
  <2> QED BY <1>1, <2>1, Unmoved DEF MeshInv, PathInv
<1>5. FramesInv'
  BY <1>1, ReadKeeps
<1> QED BY <1>1, <1>2, <1>3, <1>4, <1>5 DEF MeshInv

(* A server's answer puts its address first. *)
LEMMA SyncKeeps ==
  ASSUME TwoNodes, MeshInv, NEW n \in Nodes, Paths!Sync(n)
  PROVE  MeshInv'
<1> DEFINE S == Had(Paths!Peer(n))
           b == bound[Paths!Peer(n)]
           list == Paths!MergeEndpoints(<<b>>, endpoints[n])
<1>1. /\ endpoints' = [endpoints EXCEPT ![n] = list]
      /\ UNCHANGED <<place, cut, hole, active, heard, bound, frames>>
  BY DEF Paths!Sync, MeshInv, Functions
<1>2. b \in S /\ endpoints[n] \in Seq(S)
  BY PeerOfPeer DEF MeshInv, RoadInv, PathInv, Listed
<1> HIDE DEF S, b
<1>3. <<b>> \o endpoints[n] \in Seq(S)
  <2>1. <<b>> \in Seq(S)
    BY <1>2
  <2> QED BY <1>2, <2>1, ConcatProperties
<1>4. Listed(list, S)
  BY <1>3, MergedListed DEF Paths!MergeEndpoints
<1> HIDE DEF list
<1>5. FramesInv'
  BY <1>1, ReadKeeps
<1> QED BY <1>1, <1>4, <1>5, PathChanges, SameFunctions DEF MeshInv, PathInv, S

(* A path falls silent. *)
LEMMA SilenceKeeps ==
  ASSUME TwoNodes, MeshInv, NEW n \in Nodes, Paths!Silence(n)
  PROVE  MeshInv'
<1> DEFINE age == IF heard[n] = "fresh" THEN "suspect" ELSE "old"
<1>1. /\ heard' = [heard EXCEPT ![n] = age] /\ heard[n] # "old"
      /\ UNCHANGED <<place, cut, hole, endpoints, active, bound, frames>>
  BY DEF Paths!Silence, MeshInv, Functions
<1>2. FramesInv'
  BY <1>1, ReadKeeps
<1> QED BY <1>1, <1>2, PathChanges, SameFunctions DEF MeshInv, PathInv

(* The candidates of a path are addresses the peer has had. *)
LEMMA Candidates ==
  ASSUME TwoNodes, MeshInv, NEW n \in Nodes
  PROVE  /\ Paths!ToSet(endpoints[n]) \subseteq Had(Paths!Peer(n))
         /\ IsFiniteSet(Paths!ToSet(endpoints[n]))
<1> DEFINE l == endpoints[n]
<1>1. l \in Seq(Had(Paths!Peer(n)))
  BY DEF MeshInv, PathInv, Listed
<1> HIDE DEF l
<1>2. Len(l) \in Nat /\ l \in [1..Len(l) -> Had(Paths!Peer(n))]
  BY <1>1, LenProperties
<1>3. Paths!ToSet(l) \subseteq Had(Paths!Peer(n))
  BY <1>2 DEF Paths!ToSet
<1>4. IsFiniteSet(Had(Paths!Peer(n)))
  BY PeerOfPeer, RoadNumbers, FS_Interval DEF Had
<1> QED BY <1>3, <1>4, FS_Subset DEF l

(* A frame sent directly names the sender's addresses, and where it has the  *)
(* peer.                                                                     *)
LEMMA DirectFrame ==
  ASSUME TwoNodes, MeshInv, NEW n \in Nodes, NEW a \in Had(Paths!Peer(n)),
         NEW kind \in {"ping", "punch", "addr"}
  PROVE  Paths!Direct(n, a, kind) \in FramesTo(Paths!Peer(n))
<1> DEFINE m == Paths!Peer(n)
<1>1. m \in Nodes /\ Paths!Peer(m) = n
  BY PeerOfPeer
<1>2. a \in 0..MaxMove[m]
  BY <1>1, RoadNumbers DEF Had
<1>3. place[n] \in Had(n) /\ bound[n] \in Had(n) /\ 0 \in Had(n)
  BY RoadNumbers DEF Had, MeshInv, RoadInv
<1>4. Paths!Direct(n, a, kind) \in DirectFrames(m)
  <2>1. (IF kind = "addr" THEN bound[n] ELSE 0) \in Had(n)
    BY <1>3
  <2> QED BY <1>1, <1>2, <1>3, <2>1 DEF Paths!Direct, DirectFrames
<1> QED BY <1>4 DEF FramesTo

(* The same through the relay. *)
LEMMA RelayFrame ==
  ASSUME TwoNodes, MeshInv, NEW n \in Nodes
  PROVE  Paths!ThroughRelay(n) \in FramesTo(Paths!Peer(n))
<1>1. bound[n] \in Had(n) /\ Paths!Peer(Paths!Peer(n)) = n
  BY PeerOfPeer DEF MeshInv, RoadInv
<1> QED BY <1>1 DEF Paths!ThroughRelay, FramesTo, RelayFrames

(* As many frames of a kind as addresses, at most. *)
LEMMA DirectFinite ==
  ASSUME NEW n, NEW T, IsFiniteSet(T), NEW kind
  PROVE  IsFiniteSet({Paths!Direct(n, a, kind) : a \in T})
<1> DEFINE d == [a \in T |-> Paths!Direct(n, a, kind)]
           R == {Paths!Direct(n, a, kind) : a \in T}
<1>1. d \in Surjection(T, R)
  BY DEF Surjection
<1> QED BY <1>1, FS_Surjection

(* A tick sends what it has to say. *)
LEMMA MaintenanceKeeps ==
  ASSUME TwoNodes, MeshInv, NEW n \in Nodes, Paths!Tick(n)
  PROVE  MeshInv'
<1> DEFINE pinged == IF Paths!Confirmed(n) THEN {active[n]} ELSE {}
           tried == Paths!Tried(n)
           relayed == IF Paths!Confirmed(n) THEN {} ELSE {Paths!ThroughRelay(n)}
           new == {Paths!Direct(n, a, "ping") : a \in pinged}
                  \cup {Paths!Direct(n, a, "addr") : a \in pinged}
                  \cup {Paths!Direct(n, a, "punch") : a \in tried}
                  \cup relayed
<1>1. /\ Paths!Sent(frames, new)
      /\ hole' = [hole EXCEPT ![n] = @ \cup pinged \cup tried]
      /\ UNCHANGED <<place, cut, endpoints, active, heard, bound>>
  BY DEF Paths!Tick, Paths!pathVars
<1>2. pinged \subseteq Had(Paths!Peer(n)) /\ IsFiniteSet(pinged)
  <2>1. Paths!Confirmed(n) => active[n] \in Had(Paths!Peer(n))
    BY DEF MeshInv, PathInv, Paths!Confirmed
  <2> QED BY <2>1, FS_EmptySet, FS_Singleton
<1>3. tried \subseteq Had(Paths!Peer(n)) /\ IsFiniteSet(tried)
  BY Candidates, FS_EmptySet DEF Paths!Tried
<1>4. IsFiniteSet(relayed) /\ \A f \in relayed : f \in FramesTo(Paths!Peer(n))
  BY FS_EmptySet, FS_Singleton, RelayFrame
<1> HIDE DEF pinged, tried, relayed
<1>5. IsFiniteSet(new)
  <2>1. /\ IsFiniteSet({Paths!Direct(n, a, "ping") : a \in pinged})
        /\ IsFiniteSet({Paths!Direct(n, a, "addr") : a \in pinged})
        /\ IsFiniteSet({Paths!Direct(n, a, "punch") : a \in tried})
    BY <1>2, <1>3, DirectFinite
  <2> QED BY <1>4, <2>1, FS_Union
<1>6. \A f \in new : \E m \in Nodes : f \in FramesTo(m)
  <2>1. \A a \in pinged : /\ Paths!Direct(n, a, "ping") \in FramesTo(Paths!Peer(n))
                          /\ Paths!Direct(n, a, "addr") \in FramesTo(Paths!Peer(n))
    BY <1>2, DirectFrame
  <2>2. \A a \in tried : Paths!Direct(n, a, "punch") \in FramesTo(Paths!Peer(n))
    BY <1>3, DirectFrame
  <2> QED BY <1>4, <2>1, <2>2, PeerOfPeer
<1> HIDE DEF new
<1>7. FramesInv'
  BY <1>1, <1>5, <1>6, SentKeeps
<1>8. Functions'
  BY <1>1 DEF MeshInv, Functions
<1>9. ASSUME NEW m \in Nodes PROVE RoadInv(m)' /\ PathInv(m)'
  <2>1. hole'[m] \subseteq Had(Paths!Peer(m))
    BY <1>1, <1>2, <1>3 DEF MeshInv, Functions, RoadInv
  <2>2. Listed(endpoints[m], Had(Paths!Peer(m)))'
    BY <1>1, Unmoved DEF MeshInv, PathInv, Listed, Paths!IsInjective
  <2> QED BY <1>1, <2>1, <2>2, Unmoved DEF MeshInv, RoadInv, PathInv
<1> QED BY <1>1, <1>7, <1>8, <1>9 DEF MeshInv

(* A direct frame teaches where it comes from. *)
LEMMA ArriveKeeps ==
  ASSUME TwoNodes, MeshInv, NEW f \in frames, Paths!Arrive(f)
  PROVE  MeshInv'
<1> DEFINE n == f.to
           S == Had(Paths!Peer(n))
<1>1. n \in Nodes /\ f.from \in S /\ f.cand \in S
  <2>1. PICK m \in Nodes : f \in FramesTo(m)
    BY DEF MeshInv, FramesInv
  <2>2. f \in DirectFrames(m)
    BY <2>1 DEF Paths!Arrive, FramesTo, RelayFrames
  <2> QED BY <2>2 DEF DirectFrames
<1>2. UNCHANGED <<place, cut, hole, bound>>
  BY DEF Paths!Arrive
<1>3. CASE ~Paths!LetIn(f)
  <2>1. frames' \subseteq frames /\ UNCHANGED <<endpoints, active, heard>>
    BY <1>3 DEF Paths!Arrive, Paths!pathVars
  <2>2. FramesInv'
    BY <1>2, <2>1, ReadKeeps
  <2> QED BY <1>1, <1>2, <2>1, <2>2, PathChanges, SameFunctions DEF MeshInv, PathInv
<1>4. CASE Paths!LetIn(f)
  <2> DEFINE pong == IF f.kind = "ping" THEN {Paths!Direct(n, f.from, "punch")} ELSE {}
             known == Paths!MergeCandidate(endpoints[n], f.from)
             list == IF f.kind = "addr" THEN Paths!MergeCandidate(known, f.cand) ELSE known
  <2>1. /\ active' = [active EXCEPT ![n] = f.from]
        /\ heard' = [heard EXCEPT ![n] = "fresh"]
        /\ endpoints' = [endpoints EXCEPT ![n] = list]
        /\ Paths!Sent(frames \ {f}, pong)
    BY <1>4 DEF Paths!Arrive
  <2>2. Listed(list, S)
    <3>1. Listed(endpoints[n], S)
      BY <1>1 DEF MeshInv, PathInv
    <3>2. Listed(known, S)
      BY <1>1, <3>1, OneCandidate
    <3> HIDE DEF known, S, n
    <3>3. Listed(Paths!MergeCandidate(known, f.cand), S)
      BY <1>1, <3>2, OneCandidate
    <3> QED BY <3>2, <3>3
  <2>3. IsFiniteSet(pong) /\ \A g \in pong : \E m \in Nodes : g \in FramesTo(m)
    <3>1. Paths!Direct(n, f.from, "punch") \in FramesTo(Paths!Peer(n)) /\ Paths!Peer(n) \in Nodes
      BY <1>1, DirectFrame, PeerOfPeer
    <3> HIDE DEF n
    <3> QED BY <3>1, FS_EmptySet, FS_Singleton
  <2> HIDE DEF pong, list
  <2>4. FramesInv'
    BY <1>2, <2>1, <2>3, SentKeeps
  <2>5. f.from # Paths!None
    BY <1>1, PeerOfPeer, RoadNumbers
  <2> HIDE DEF n
  <2> QED BY <1>1, <1>2, <2>1, <2>2, <2>4, <2>5, PathChanges
<1> QED BY <1>3, <1>4

(* One through the relay teaches a candidate. *)
LEMMA ArriveByRelayKeeps ==
  ASSUME TwoNodes, MeshInv, NEW f \in frames, Paths!ArriveByRelay(f)
  PROVE  MeshInv'
<1> DEFINE n == f.to
           list == IF Paths!LookedUp(n) THEN Paths!MergeCandidate(endpoints[n], f.cand)
                   ELSE endpoints[n]
<1>1. n \in Nodes /\ f.cand \in Had(Paths!Peer(n))
  BY DEF MeshInv, FramesInv, FramesTo, DirectFrames, RelayFrames
<1>2. endpoints' = [endpoints EXCEPT ![n] = list]
  BY <1>1 DEF Paths!ArriveByRelay, MeshInv, Functions
<1>3. UNCHANGED <<place, cut, hole, active, heard, bound>> /\ frames' \subseteq frames
  BY DEF Paths!ArriveByRelay
<1>4. Listed(list, Had(Paths!Peer(n)))
  BY <1>1, OneCandidate DEF MeshInv, PathInv
<1> HIDE DEF list, n
<1>5. FramesInv'
  BY <1>3, ReadKeeps
<1> QED BY <1>1, <1>2, <1>3, <1>4, <1>5, PathChanges, SameFunctions DEF MeshInv, PathInv

(* The invariant holds at all times.                                         *)
LEMMA MeshInductive ==
  ASSUME TwoNodes
  PROVE  Paths!Spec => []MeshInv
<1>1. Paths!Init => MeshInv
  <2> SUFFICES ASSUME Paths!Init PROVE MeshInv
    OBVIOUS
  <2>1. \A n \in Nodes : place[n] = 0 /\ bound[n] = 0 /\ hole[n] = {} /\ endpoints[n] = <<0>>
                         /\ active[n] = Paths!None /\ heard[n] = "old" /\ MaxMove[n] \in Nat
    BY DEF Paths!Init, TwoNodes
  <2>2. ASSUME NEW n \in Nodes PROVE RoadInv(n) /\ PathInv(n)
    <3>1. Had(n) = {0} /\ Had(Paths!Peer(n)) = {0}
      BY <2>1, PeerOfPeer DEF Had
    <3>2. Listed(<<0>>, {0})
      BY DEF Listed, Paths!IsInjective, TwoNodes
    <3> QED BY <2>1, <2>2, <3>1, <3>2 DEF RoadInv, PathInv
  <2>3. FramesInv
    BY FS_EmptySet DEF Paths!Init, FramesInv, TwoNodes
  <2>4. Functions /\ cut \subseteq Narrow
    BY DEF Paths!Init, Functions
  <2> QED BY <2>2, <2>3, <2>4 DEF MeshInv
<1>2. MeshInv /\ [Paths!Next]_(Paths!vars) => MeshInv'
  <2> SUFFICES ASSUME MeshInv, [Paths!Next]_(Paths!vars) PROVE MeshInv'
    OBVIOUS
  <2>1. CASE UNCHANGED Paths!vars
    <3>1. UNCHANGED <<place, cut, hole, endpoints, active, heard, bound, frames>>
      BY <2>1 DEF Paths!vars, Paths!pathVars
    <3>2. FramesInv'
      BY <3>1, ReadKeeps
    <3>3. PICK n \in Nodes : TRUE
      BY FS_EmptySet DEF TwoNodes
    <3> QED BY <3>1, <3>2, <3>3, PathChanges, SameFunctions DEF MeshInv, PathInv
  <2> QED BY <2>1, MoveKeeps, BindKeeps, SyncKeeps, SilenceKeeps, MaintenanceKeeps, ArriveKeeps,
             ArriveByRelayKeeps DEF Paths!Next
<1> QED BY <1>1, <1>2, PTL DEF Paths!Spec

(* No list of candidates is longer than maxCandidates or has one twice, for  *)
(* any moves, and a path that counts as confirmed leads to an address that   *)
(* the peer has had.                                                         *)
THEOREM CandidatesInOrder ==
  ASSUME TwoNodes
  PROVE  Paths!Spec => []Paths!TypeOK
<1>1. MeshInv => Paths!TypeOK
  <2> SUFFICES ASSUME MeshInv PROVE Paths!TypeOK
    OBVIOUS
  <2>1. ASSUME NEW n \in Nodes
        PROVE  /\ place[n] \in Paths!Places(n) /\ bound[n] \in 0..place[n]
               /\ hole[n] \subseteq 0..place[Paths!Peer(n)]
               /\ Len(endpoints[n]) <= MaxCands
               /\ \A i \in 1..Len(endpoints[n]) : endpoints[n][i] \in 0..place[Paths!Peer(n)]
               /\ Paths!IsInjective(endpoints[n])
               /\ active[n] \in {Paths!None} \cup 0..place[Paths!Peer(n)]
               /\ heard[n] \in {"fresh", "suspect", "old"}
               /\ heard[n] # "old" => active[n] # Paths!None
    <3>1. \A i \in 1..Len(endpoints[n]) : endpoints[n][i] \in Had(Paths!Peer(n))
      <4>1. endpoints[n] \in Seq(Had(Paths!Peer(n)))
        BY DEF MeshInv, PathInv, Listed
      <4> QED BY <4>1, LenProperties
    <3> QED BY <3>1 DEF MeshInv, RoadInv, PathInv, Had, Listed, Paths!Places
  <2>2. frames \subseteq Paths!Frames
    <3>1. ASSUME NEW n \in Nodes, NEW f \in FramesTo(n) PROVE f \in Paths!Frames
      <4>1. Had(Paths!Peer(n)) \subseteq Paths!Places(Paths!Peer(n))
        BY PeerOfPeer, RoadNumbers DEF Had, Paths!Places
      <4> QED BY <3>1, <4>1 DEF FramesTo, DirectFrames, RelayFrames, Paths!Frames, Paths!Places
    <3> QED BY <3>1 DEF MeshInv, FramesInv
  <2> QED BY <2>1, <2>2, SameSize DEF MeshInv, FramesInv, Paths!TypeOK
<1> QED BY <1>1, MeshInductive, PTL

(* A candidate that gives way: the last of a full list, to the address a     *)
(* server names that is not in it.                                           *)
GivesWay(n, a) ==
    /\ Paths!Sync(n) /\ bound[Paths!Peer(n)] \notin Paths!ToSet(endpoints[n])
    /\ Len(endpoints[n]) = MaxCands /\ a = endpoints[n][MaxCands]

KeepsCandidates(n) ==
    /\ \A a \in Paths!ToSet(endpoints[n]) \ Paths!ToSet(endpoints'[n]) : GivesWay(n, a)
    /\ Paths!Sync(n) => endpoints'[n][1] = bound[Paths!Peer(n)]

(* What a server says comes first, and what was known follows it.            *)
LEMMA SyncLeads ==
  ASSUME TwoNodes, MeshInv, NEW n \in Nodes, Paths!Sync(n)
  PROVE  KeepsCandidates(n)
<1> DEFINE S == Had(Paths!Peer(n))
           b == bound[Paths!Peer(n)]
           l == endpoints[n]
           all == <<b>> \o l
           list == Paths!Merged(all)
<1>1. endpoints'[n] = list
  BY DEF Paths!Sync, Paths!MergeEndpoints, MeshInv, Functions
<1>2. /\ b \in S /\ l \in Seq(S) /\ Len(l) \in Nat /\ Len(l) <= MaxCands
      /\ DOMAIN l = 1..Len(l) /\ MaxCands \in Nat
  BY PeerOfPeer, LenProperties DEF MeshInv, RoadInv, PathInv, Listed, TwoNodes
<1> HIDE DEF S, b, l
<1>3. /\ all \in Seq(S) /\ Len(all) = Len(l) + 1 /\ all[1] = b
      /\ \A i \in 1..Len(l) : all[i + 1] = l[i]
  <2> DEFINE one == <<b>>
  <2>1. one \in Seq(S) /\ Len(one) = 1 /\ one[1] = b
    BY <1>2
  <2> HIDE DEF one
  <2>2. /\ one \o l \in Seq(S) /\ Len(one \o l) = Len(one) + Len(l)
        /\ \A i \in 1..Len(one) + Len(l) :
                (one \o l)[i] = IF i <= Len(one) THEN one[i] ELSE l[i - Len(one)]
    BY <1>2, <2>1, ConcatProperties
  <2>3. \A i \in 1..Len(l) : (one \o l)[i + 1] = l[i]
    <3> SUFFICES ASSUME NEW i \in 1..Len(l) PROVE (one \o l)[i + 1] = l[i]
      OBVIOUS
    <3>1. i + 1 \in 1..Len(one) + Len(l) /\ ~(i + 1 <= Len(one)) /\ (i + 1) - Len(one) = i
      BY <1>2, <2>1
    <3> QED BY <2>2, <3>1
  <2>4. (one \o l)[1] = b
    <3>1. 1 \in 1..Len(one) + Len(l) /\ 1 <= Len(one)
      BY <1>2, <2>1
    <3> QED BY <2>1, <2>2, <3>1
  <2>5. Len(one \o l) = Len(l) + 1
    BY <1>2, <2>1, <2>2
  <2>6. all = one \o l
    BY DEF one
  <2> HIDE DEF all
  <2> QED BY <2>2, <2>3, <2>4, <2>5, <2>6
<1> HIDE DEF all
<1>4. /\ list[1] = b
      /\ \A j \in 1..Len(all) :
             all[j] \in Paths!ToSet(list) \/ (j = MaxCands + 1 /\ \A i \in 2..j : all[i] # all[1])
  <2>1. Len(all) >= 1 /\ Len(all) <= MaxCands + 1
    BY <1>2, <1>3
  <2>2. all \in Seq(S) /\ all[1] = b
    BY <1>3
  <2> QED BY <2>1, <2>2, MergedLeads
<1> HIDE DEF list
<1>5. ASSUME NEW a \in Paths!ToSet(l), a \notin Paths!ToSet(list)
      PROVE  /\ b \notin Paths!ToSet(l)
             /\ Len(l) = MaxCands /\ a = l[MaxCands]
  <2>1. PICK i \in 1..Len(l) : a = l[i]
    BY <1>2 DEF Paths!ToSet
  <2>2. i + 1 \in 1..Len(all) /\ all[i + 1] = a
    BY <1>2, <1>3, <2>1
  <2>3. i + 1 = MaxCands + 1 /\ \A k \in 2..(i + 1) : all[k] # b
    BY <1>3, <1>4, <1>5, <2>2
  <2>4. i = MaxCands /\ Len(l) = MaxCands
    <3>1. i + 1 = MaxCands + 1
      BY <2>3
    <3>2. Len(l) \in Nat /\ Len(l) <= MaxCands /\ MaxCands \in Nat
      BY <1>2
    <3>3. i \in Nat /\ i <= Len(l)
      BY <3>2
    <3> QED BY <3>1, <3>2, <3>3
  <2>5. \A k \in 1..Len(l) : k + 1 \in 2..(i + 1) /\ all[k + 1] = l[k]
    BY <1>2, <1>3, <2>4
  <2> QED BY <1>2, <2>1, <2>3, <2>4, <2>5 DEF Paths!ToSet
<1> QED BY <1>1, <1>4, <1>5 DEF KeepsCandidates, GivesWay, b, l

(* What a frame teaches is added where there is room, and takes nothing.     *)
LEMMA TaughtAdds ==
  ASSUME TwoNodes, MeshInv, NEW n \in Nodes, NEW a \in Had(Paths!Peer(n)),
         NEW b \in Had(Paths!Peer(n)), NEW l, l = Paths!MergeCandidate(endpoints[n], a)
  PROVE  /\ Paths!ToSet(endpoints[n]) \subseteq Paths!ToSet(l)
         /\ Paths!ToSet(endpoints[n]) \subseteq Paths!ToSet(Paths!MergeCandidate(l, b))
<1> DEFINE S == Had(Paths!Peer(n))
           old == endpoints[n]
<1>1. Listed(old, S) /\ a \in S /\ b \in S /\ l = Paths!MergeCandidate(old, a)
  BY DEF MeshInv, PathInv
<1> HIDE DEF S, old
<1>2. Listed(l, S)
  BY <1>1, OneCandidate
<1>3. Paths!ToSet(old) \subseteq Paths!ToSet(l)
  BY <1>1, TurnAdds
<1> DEFINE more == Paths!MergeCandidate(l, b)
<1>4. more = Paths!MergeCandidate(l, b)
  OBVIOUS
<1> HIDE DEF more
<1>5. Paths!ToSet(l) \subseteq Paths!ToSet(more)
  BY <1>1, <1>2, <1>4, TurnAdds
<1> QED BY <1>3, <1>4, <1>5 DEF old

(* The address a server names comes first in the list after each of its      *)
(* answers, and what a node knows of its peer is never crowded out: however  *)
(* full of dead addresses the list is, only an address that a server names   *)
(* takes a place, and that is the last one.  PathHeals needs both: an        *)
(* address that is not in the list is never tried.                           *)
THEOREM NothingIsCrowdedOut ==
  ASSUME TwoNodes
  PROVE  Paths!Spec => [][\A n \in Nodes : KeepsCandidates(n)]_(Paths!vars)
<1>1. ASSUME MeshInv, Paths!Next, NEW n \in Nodes PROVE KeepsCandidates(n)
  <2>1. CASE Paths!Sync(n)
    BY <1>1, <2>1, SyncLeads
  <2>2. CASE ~Paths!Sync(n)
    <3> SUFFICES Paths!ToSet(endpoints[n]) \subseteq Paths!ToSet(endpoints'[n])
      BY <2>2 DEF KeepsCandidates
    <3>1. ASSUME endpoints'[n] = endpoints[n]
          PROVE  Paths!ToSet(endpoints[n]) \subseteq Paths!ToSet(endpoints'[n])
      BY <3>1 DEF Paths!ToSet
    <3>2. ASSUME NEW m \in Nodes, Paths!Sync(m)
          PROVE  endpoints'[n] = endpoints[n]
      BY <1>1, <2>2, <3>2 DEF Paths!Sync, MeshInv, Functions
    <3>3. ASSUME NEW m \in Nodes,
                 Paths!Move(m) \/ Paths!Bind(m) \/ Paths!Silence(m) \/ Paths!Tick(m)
          PROVE  endpoints'[n] = endpoints[n]
      BY <3>3 DEF Paths!Move, Paths!Bind, Paths!Silence, Paths!Tick, Paths!pathVars
    <3>4. ASSUME NEW f \in frames, Paths!Arrive(f)
          PROVE  Paths!ToSet(endpoints[n]) \subseteq Paths!ToSet(endpoints'[n])
      <4>1. f.to \in Nodes /\ f.from \in Had(Paths!Peer(f.to)) /\ f.cand \in Had(Paths!Peer(f.to))
        <5>1. PICK m \in Nodes : f \in FramesTo(m)
          BY <1>1 DEF MeshInv, FramesInv
        <5>2. f \in DirectFrames(m)
          BY <3>4, <5>1 DEF Paths!Arrive, FramesTo, RelayFrames
        <5> QED BY <5>2 DEF DirectFrames
      <4> DEFINE known == Paths!MergeCandidate(endpoints[f.to], f.from)
                 more == Paths!MergeCandidate(known, f.cand)
      <4>2. \/ UNCHANGED endpoints
            \/ endpoints' = [endpoints EXCEPT ![f.to] = known]
            \/ endpoints' = [endpoints EXCEPT ![f.to] = more]
        BY <3>4 DEF Paths!Arrive, Paths!pathVars
      <4>3. CASE f.to # n \/ UNCHANGED endpoints
        BY <1>1, <3>1, <4>2, <4>3 DEF MeshInv, Functions
      <4>4. CASE f.to = n
        <5>1. /\ Paths!ToSet(endpoints[n]) \subseteq Paths!ToSet(known)
              /\ Paths!ToSet(endpoints[n]) \subseteq Paths!ToSet(more)
          BY <1>1, <4>1, <4>4, TaughtAdds
        <5> HIDE DEF known, more
        <5>2. endpoints'[n] \in {endpoints[n], known, more}
          BY <1>1, <4>2, <4>4 DEF MeshInv, Functions
        <5> QED BY <3>1, <5>1, <5>2
      <4> QED BY <4>3, <4>4
    <3>5. ASSUME NEW f \in frames, Paths!ArriveByRelay(f)
          PROVE  Paths!ToSet(endpoints[n]) \subseteq Paths!ToSet(endpoints'[n])
      <4>1. f.to \in Nodes /\ f.cand \in Had(Paths!Peer(f.to))
        BY <1>1 DEF MeshInv, FramesInv, FramesTo, DirectFrames, RelayFrames
      <4> DEFINE more == Paths!MergeCandidate(endpoints[f.to], f.cand)
      <4>2. UNCHANGED endpoints \/ endpoints' = [endpoints EXCEPT ![f.to] = more]
        BY <3>5 DEF Paths!ArriveByRelay
      <4>3. CASE f.to # n \/ UNCHANGED endpoints
        BY <1>1, <3>1, <4>2, <4>3 DEF MeshInv, Functions
      <4>4. CASE f.to = n
        <5>1. Paths!ToSet(endpoints[n]) \subseteq Paths!ToSet(more)
          BY <1>1, <4>1, <4>4, TaughtAdds
        <5> HIDE DEF more
        <5>2. endpoints'[n] \in {endpoints[n], more}
          BY <1>1, <4>2, <4>4 DEF MeshInv, Functions
        <5> QED BY <3>1, <5>1, <5>2
      <4> QED BY <4>3, <4>4
    <3> QED BY <1>1, <3>1, <3>2, <3>3, <3>4, <3>5 DEF Paths!Next
  <2> QED BY <2>1, <2>2
<1>2. MeshInv /\ [Paths!Next]_(Paths!vars)
          => [\A n \in Nodes : KeepsCandidates(n)]_(Paths!vars)
  BY <1>1
<1> QED BY <1>2, MeshInductive, PTL DEF Paths!Spec

=============================================================================
