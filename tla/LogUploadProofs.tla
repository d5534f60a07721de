-------------------------- MODULE LogUploadProofs --------------------------
(***************************************************************************)
(* Proofs about LogUpload for any ring, any number of lines and lives.     *)
(* However many uploaders take lines out and put them back, a line is in   *)
(* one place at most (OnePlace) and a full ring is full of different       *)
(* lines; so whenever a line is pushed out, as many as the ring has places *)
(* are safe in it, and the rest is all that can have been lost.            *)
(***************************************************************************)
EXTENDS LogUpload, FiniteSetTheorems, SequenceTheorems, TLAPS

LinesOf(u) == uploader[u].lines

(* Lines written, each of them once, no more than the ring has places. *)
Batch(lines) == lines \in Seq(1..written) /\ Len(lines) <= MaxLines /\ IsInjective(lines)

OnePlace ==
    /\ Batch(pending) /\ \A u \in Uploaders : Batch(LinesOf(u))
    /\ \A u \in Uploaders : ToSet(LinesOf(u)) \cap ToSet(pending) = {}
    /\ \A u, v \in Uploaders : u # v => ToSet(LinesOf(u)) \cap ToSet(LinesOf(v)) = {}

(* The loop of a node that is still to come up holds nothing. *)
NewLoops == \A u \in LogLoops : u > life => uploader[u].at = "off"

UploadInv == TypeOK /\ OnePlace /\ NewLoops

(* What a step may do to what is lost. *)
NothingLost == written <= written' /\ Lost' \subseteq Lost
RingFull == Len(pending') = MaxLines

-----------------------------------------------------------------------------
(* Sequences *)

(* The bounds are numbers, and lines written are lines. *)
LEMMA Numbers ==
  /\ MaxLines \in Nat \ {0} /\ LogMaxLines \in Nat \ {0} /\ MaxWritten \in Nat /\ MaxLife \in Nat
  /\ TypeOK => written \in Nat /\ 1..written \subseteq Lines
  BY LinesAssumption, BoundsAssumption DEF TypeOK, Lines

(* A sequence, its places and what is in it. *)
LEMMA SeqSet ==
  ASSUME NEW S, NEW s \in Seq(S)
  PROVE  /\ Len(s) \in Nat /\ DOMAIN s = 1..Len(s) /\ ToSet(s) \subseteq S
         /\ ToSet(s) = {s[i] : i \in 1..Len(s)}
         /\ \A i \in 1..Len(s) : s[i] \in S
  BY DEF ToSet

(* Nothing is a batch. *)
LEMMA EmptyLines ==
  ToSet(<<>>) = {} /\ Batch(<<>>) /\ Batch(<<>>)'
<1>1. ToSet(<<>>) = {} /\ Len(<<>>) = 0 /\ IsInjective(<<>>) /\ 0 <= MaxLines
  BY EmptySeq, Numbers DEF ToSet, IsInjective
<1> QED BY <1>1, EmptySeq DEF Batch

(* A line by itself is once there. *)
LEMMA OneLine ==
  ASSUME NEW x
  PROVE  ToSet(<<x>>) = {x} /\ IsInjective(<<x>>)
<1>1. DOMAIN <<x>> = {1} /\ <<x>>[1] = x
  OBVIOUS
<1>2. ToSet(<<x>>) = {<<x>>[i] : i \in {1}}
  BY <1>1 DEF ToSet
<1> QED BY <1>1, <1>2 DEF IsInjective

(* The ring keeps the last lines of what it is given, all that fit. *)
LEMMA KeptLines ==
  ASSUME NEW S, NEW s \in Seq(S)
  PROVE  /\ Kept(s) \in Seq(S) /\ Len(Kept(s)) <= MaxLines
         /\ Kept(s) = s \/ Len(Kept(s)) = MaxLines
         /\ ToSet(Kept(s)) \subseteq ToSet(s)
         /\ IsInjective(s) => IsInjective(Kept(s))
<1>1. CASE Len(s) <= MaxLines
  <2>1. Kept(s) = s
    BY <1>1, SeqSet, Numbers DEF Kept
  <2> QED BY <1>1, <2>1
<1>2. CASE Len(s) > MaxLines
  <2> DEFINE from == Len(s) - MaxLines + 1
             k == SubSeq(s, from, Len(s))
  <2>1. Kept(s) = k
    BY <1>2 DEF Kept, Trimmed
  <2>2. from \in Int /\ Len(s) \in Int /\ from >= 1 /\ Len(s) - from + 1 = MaxLines
    BY <1>2, SeqSet, Numbers
  <2>3. k \in Seq(S) /\ Len(k) = MaxLines /\ \A i \in 1..MaxLines : k[i] = s[from + i - 1]
    <3>1. \A i \in from..Len(s) : s[i] \in S
      BY <2>2, SeqSet
    <3>2. /\ k \in Seq(S)
          /\ Len(k) = IF from <= Len(s) THEN Len(s) - from + 1 ELSE 0
          /\ \A i \in 1..Len(s) - from + 1 : k[i] = s[from + i - 1]
      BY <2>2, <3>1, SubSeqProperties
    <3>3. from <= Len(s)
      BY <2>2, Numbers
    <3> QED BY <2>2, <3>2, <3>3
  <2>4. \A i \in 1..MaxLines : from + i - 1 \in 1..Len(s)
    BY <2>2, SeqSet, Numbers
  <2>5. DOMAIN k = 1..MaxLines /\ DOMAIN s = 1..Len(s)
    BY <2>3, SeqSet
  <2> HIDE DEF k
  <2>6. ToSet(k) \subseteq ToSet(s)
    BY <2>3, <2>4, <2>5 DEF ToSet
  <2>7. IsInjective(s) => IsInjective(k)
    <3>1. SUFFICES ASSUME IsInjective(s), NEW i \in 1..MaxLines, NEW j \in 1..MaxLines, k[i] = k[j]
                   PROVE  i = j
      BY <2>5 DEF IsInjective
    <3>2. from + i - 1 = from + j - 1
      BY <2>3, <2>4, <2>5, <3>1 DEF IsInjective
    <3> QED BY <2>2, <3>2
  <2> QED BY <2>1, <2>3, <2>6, <2>7, Numbers
<1> QED BY <1>1, <1>2, SeqSet, Numbers

(* Two sequences with nothing in common, one after the other. *)
LEMMA Together ==
  ASSUME NEW S, NEW s \in Seq(S), NEW t \in Seq(S)
  PROVE  /\ s \o t \in Seq(S) /\ ToSet(s \o t) = ToSet(s) \cup ToSet(t)
         /\ IsInjective(s) /\ IsInjective(t) /\ ToSet(s) \cap ToSet(t) = {} => IsInjective(s \o t)
<1> DEFINE both == s \o t
           n == Len(s)
           m == Len(t)
<1>1. /\ both \in Seq(S) /\ Len(both) = n + m
      /\ \A i \in 1..n + m : both[i] = IF i <= n THEN s[i] ELSE t[i - n]
  BY ConcatProperties
<1>2. /\ n \in Nat /\ m \in Nat /\ DOMAIN s = 1..n /\ DOMAIN t = 1..m /\ DOMAIN both = 1..n + m
  BY <1>1, SeqSet
<1>3. ToSet(s) = {s[i] : i \in 1..n} /\ ToSet(t) = {t[i] : i \in 1..m}
      /\ ToSet(both) = {both[i] : i \in 1..n + m}
  BY <1>2 DEF ToSet
<1> HIDE DEF both, n, m
<1>4. ASSUME NEW i \in 1..n + m
      PROVE  \/ i \in 1..n /\ both[i] = s[i]
             \/ i - n \in 1..m /\ i > n /\ both[i] = t[i - n]
  <2>1. i <= n \/ (i > n /\ i - n \in 1..m)
    BY <1>2
  <2> QED BY <1>1, <1>2, <2>1
<1>5. \A i \in 1..n : i \in 1..n + m /\ both[i] = s[i]
  BY <1>1, <1>2
<1>6. ASSUME NEW i \in 1..m
      PROVE  n + i \in 1..n + m /\ both[n + i] = t[i]
  <2>1. n + i \in 1..n + m /\ ~(n + i <= n) /\ (n + i) - n = i
    BY <1>2
  <2> QED BY <1>1, <2>1
<1>7. ToSet(both) = ToSet(s) \cup ToSet(t)
  <2>1. ToSet(both) \subseteq ToSet(s) \cup ToSet(t)
    BY <1>3, <1>4
  <2>2. ToSet(s) \subseteq ToSet(both)
    BY <1>3, <1>5
  <2>3. ToSet(t) \subseteq ToSet(both)
    BY <1>3, <1>6
  <2> QED BY <2>1, <2>2, <2>3
<1>8. ASSUME IsInjective(s), IsInjective(t), ToSet(s) \cap ToSet(t) = {}
      PROVE  IsInjective(both)
  <2> SUFFICES ASSUME NEW i \in 1..n + m, NEW j \in 1..n + m, both[i] = both[j]
               PROVE  i = j
    BY <1>2 DEF IsInjective
  <2>1. \A a \in 1..n, b \in 1..m : s[a] # t[b]
    BY <1>3, <1>8
  <2>2. /\ \A a, b \in 1..n : s[a] = s[b] => a = b
        /\ \A a, b \in 1..m : t[a] = t[b] => a = b
    BY <1>2, <1>8 DEF IsInjective
  <2>3. CASE i \in 1..n /\ both[i] = s[i]
    BY <1>4, <2>1, <2>2, <2>3
  <2>4. CASE i - n \in 1..m /\ i > n /\ both[i] = t[i - n]
    <3>1. j - n \in 1..m /\ both[j] = t[j - n]
      BY <1>4, <2>1, <2>4
    <3>2. i - n = j - n
      BY <2>2, <2>4, <3>1
    <3> QED BY <1>2, <3>2
  <2> QED BY <1>4, <2>3, <2>4
<1> QED BY <1>1, <1>7, <1>8 DEF both

(* Different lines are as many as there are places for them. *)
LEMMA Places ==
  ASSUME NEW S, NEW s \in Seq(S), IsInjective(s)
  PROVE  IsFiniteSet(ToSet(s)) /\ Cardinality(ToSet(s)) = Len(s)
<1>1. /\ Len(s) \in Nat /\ s \in [1..Len(s) -> ToSet(s)]
      /\ \A x \in ToSet(s) : \E i \in 1..Len(s) : s[i] = x
  BY SeqSet DEF ToSet
<1>2. s \in Bijection(1..Len(s), ToSet(s))
  BY <1>1 DEF Bijection, Injection, Surjection
<1>3. IsFiniteSet(1..Len(s)) /\ Cardinality(1..Len(s)) = Len(s)
  <2>1. 1 \in Int /\ Len(s) \in Int
    BY <1>1
  <2>2. /\ IsFiniteSet(1..Len(s))
        /\ Cardinality(1..Len(s)) = IF 1 > Len(s) THEN 0 ELSE Len(s) - 1 + 1
    BY <2>1, FS_Interval
  <2> QED BY <1>1, <2>2
<1> QED BY <1>2, <1>3, FS_Bijection DEF ExistsBijection

-----------------------------------------------------------------------------
(* Where the lines go *)

(* What was written stays written. *)
LEMMA StillBatch ==
  ASSUME UploadInv, written' \in Nat, written <= written', NEW lines, Batch(lines)
  PROVE  lines \in Seq(1..written') /\ Batch(lines)'
<1>1. 1..written \subseteq 1..written'
  BY Numbers DEF UploadInv
<1>2. lines \in Seq(1..written')
  BY <1>1, SeqMonotonic DEF Batch
<1> QED BY <1>2 DEF Batch

(* A step of an uploader that moves no lines. *)
LEMMA LinesStay ==
  ASSUME UploadInv, UNCHANGED <<written, pending, stored, dropped>>,
         \A u \in Uploaders : LinesOf(u)' = LinesOf(u)
  PROVE  OnePlace' /\ NothingLost
<1>1. Held' = Held
  BY DEF Held, LinesOf
<1>2. NothingLost
  BY <1>1, Numbers DEF NothingLost, Lost, UploadInv
<1> QED BY <1>2 DEF UploadInv, OnePlace, Batch

(* A new line pushes another out only when the ring is full afterwards. *)
LEMMA LineWritten ==
  ASSUME UploadInv, Written, stored' = stored, dropped' = dropped,
         \A u \in Uploaders : LinesOf(u)' = LinesOf(u)
  PROVE  /\ written' \in 0..MaxWritten /\ pending' \in Seq(Lines) /\ Len(pending') <= MaxLines
         /\ OnePlace' /\ (NothingLost \/ RingFull)
<1> DEFINE new == written + 1
           longer == Append(pending, new)
<1>1. /\ written' = new /\ pending' = Kept(longer)
      /\ written \in Nat /\ new \in Nat /\ new \in 0..MaxWritten /\ 1..new \subseteq Lines
      /\ new \in 1..new /\ new \notin 1..written /\ 1..new = 1..written \cup {new}
  BY Numbers DEF Written, UploadInv, TypeOK, Lines
<1>2. Batch(pending) /\ \A u \in Uploaders : Batch(LinesOf(u))
  BY DEF UploadInv, OnePlace
<1>3. pending \in Seq(1..new) /\ <<new>> \in Seq(1..new) /\ longer = pending \o <<new>>
  BY <1>1, <1>2, StillBatch, AppendIsConcat
<1>4. ToSet(<<new>>) = {new} /\ IsInjective(<<new>>) /\ ToSet(pending) \subseteq 1..written
  BY <1>2, OneLine, SeqSet DEF Batch
<1>5. /\ longer \in Seq(1..new) /\ ToSet(longer) = ToSet(pending) \cup {new} /\ IsInjective(longer)
  <2>1. ToSet(pending) \cap ToSet(<<new>>) = {} /\ IsInjective(pending)
    BY <1>1, <1>2, <1>4 DEF Batch
  <2> DEFINE one == <<new>>
  <2>2. one \in Seq(1..new) /\ IsInjective(one) /\ ToSet(pending) \cap ToSet(one) = {}
    BY <1>3, <1>4, <2>1
  <2>3. /\ pending \o one \in Seq(1..new)
        /\ ToSet(pending \o one) = ToSet(pending) \cup ToSet(one)
        /\ IsInjective(pending \o one)
    <3> HIDE DEF new, one
    <3> QED BY <1>3, <2>1, <2>2, Together
  <2> QED BY <1>3, <1>4, <2>3
<1>6. /\ pending' \in Seq(1..new) /\ Len(pending') <= MaxLines /\ IsInjective(pending')
      /\ ToSet(pending') \subseteq ToSet(pending) \cup {new}
      /\ pending' = longer \/ RingFull
  BY <1>1, <1>5, KeptLines DEF RingFull
<1>7. ASSUME NEW u \in Uploaders
      PROVE  Batch(LinesOf(u))' /\ ToSet(LinesOf(u)) \subseteq 1..written
  <2>1. Batch(LinesOf(u)) /\ LinesOf(u)' = LinesOf(u)
    BY <1>2
  <2>2. LinesOf(u) \in Seq(1..new) /\ ToSet(LinesOf(u)) \subseteq 1..written
    BY <1>1, <2>1, StillBatch, SeqSet DEF Batch
  <2> QED BY <1>1, <2>1, <2>2 DEF Batch
<1>8. OnePlace'
  <2>1. \A u \in Uploaders : ToSet(LinesOf(u))' = ToSet(LinesOf(u))
    OBVIOUS
  <2>2. \A u \in Uploaders : ToSet(LinesOf(u)) \cap ToSet(pending') = {}
    BY <1>1, <1>6, <1>7 DEF UploadInv, OnePlace
  <2>3. Batch(pending)'
    BY <1>1, <1>6 DEF Batch
  <2> QED BY <1>7, <2>1, <2>2, <2>3 DEF UploadInv, OnePlace
<1>9. CASE pending' = longer
  <2>1. Held' = Held
    BY DEF Held, LinesOf
  <2>2. Lost' \subseteq Lost
    BY <1>1, <1>5, <1>9, <2>1 DEF Lost
  <2> QED BY <1>1, <1>6, <1>8, <2>2, SeqMonotonic DEF NothingLost
<1> QED BY <1>1, <1>6, <1>8, <1>9, SeqMonotonic

(* An uploader takes all lines out of the ring, or finds none. *)
LEMMA LinesTaken ==
  ASSUME UploadInv, NEW u \in Uploaders, LinesOf(u) = <<>>,
         pending' = <<>>, LinesOf(u)' = pending,
         \A v \in Uploaders : v # u => LinesOf(v)' = LinesOf(v),
         UNCHANGED <<written, stored, dropped>>
  PROVE  OnePlace' /\ NothingLost
<1>1. /\ ToSet(pending)' = {} /\ ToSet(LinesOf(u)) = {} /\ Batch(pending)'
      /\ ToSet(LinesOf(u))' = ToSet(pending)
  BY EmptyLines, Numbers DEF Batch
<1>2. OnePlace'
  BY <1>1 DEF UploadInv, OnePlace, Batch
<1>3. ToSet(pending)' \cup Held' = ToSet(pending) \cup Held
  BY <1>1 DEF Held, LinesOf
<1>4. Lost' = Lost
  BY <1>3 DEF Lost
<1> QED BY <1>2, <1>4, Numbers DEF NothingLost, UploadInv

(* The other uploaders keep what they hold when one lets go. *)
LEMMA OthersStay ==
  ASSUME UploadInv, NEW u \in Uploaders, LinesOf(u)' = <<>>,
         \A v \in Uploaders : v # u => LinesOf(v)' = LinesOf(v), written' = written
  PROVE  \A v \in Uploaders : Batch(LinesOf(v))'
<1> SUFFICES ASSUME NEW v \in Uploaders PROVE Batch(LinesOf(v))'
  OBVIOUS
<1>1. CASE v = u
  BY <1>1, EmptyLines DEF Batch
<1>2. CASE v # u
  BY <1>2 DEF UploadInv, OnePlace, Batch
<1> QED BY <1>1, <1>2

(* An uploader puts its lines before the others, which may push some out. *)
LEMMA LinesPutBack ==
  ASSUME UploadInv, NEW u \in Uploaders, PutBack(LinesOf(u)), LinesOf(u)' = <<>>,
         \A v \in Uploaders : v # u => LinesOf(v)' = LinesOf(v),
         written' = written, stored \subseteq stored', dropped \subseteq dropped'
  PROVE  /\ pending' \in Seq(Lines) /\ Len(pending') <= MaxLines
         /\ OnePlace' /\ (NothingLost \/ RingFull)
<1> DEFINE all == LinesOf(u) \o pending
<1>1. /\ pending' = Kept(all) /\ Batch(pending) /\ Batch(LinesOf(u))
      /\ ToSet(LinesOf(u)) \cap ToSet(pending) = {}
  BY DEF PutBack, UploadInv, OnePlace
<1>2. /\ all \in Seq(1..written) /\ IsInjective(all)
      /\ ToSet(all) = ToSet(LinesOf(u)) \cup ToSet(pending)
  BY <1>1, Together DEF Batch
<1>3. /\ pending' \in Seq(1..written) /\ Len(pending') <= MaxLines /\ IsInjective(pending')
      /\ ToSet(pending') \subseteq ToSet(LinesOf(u)) \cup ToSet(pending)
      /\ pending' = all \/ RingFull
  BY <1>1, <1>2, KeptLines DEF RingFull
<1>4. pending' \in Seq(Lines) /\ written <= written'
  <2>1. 1..written \subseteq Lines /\ written \in Nat
    BY Numbers DEF UploadInv
  <2> QED BY <1>3, <2>1, SeqMonotonic
<1>5. OnePlace'
  <2>1. Batch(pending)' /\ \A v \in Uploaders : Batch(LinesOf(v))'
    BY <1>3, OthersStay DEF Batch
  <2>2. ToSet(LinesOf(u))' = {} /\ \A v \in Uploaders : v # u => ToSet(LinesOf(v))' = ToSet(LinesOf(v))
    BY EmptyLines
  <2>3. \A v \in Uploaders : v # u => /\ ToSet(LinesOf(v)) \cap ToSet(LinesOf(u)) = {}
                                      /\ ToSet(LinesOf(v)) \cap ToSet(pending) = {}
    BY DEF UploadInv, OnePlace
  <2> QED BY <1>3, <2>1, <2>2, <2>3 DEF UploadInv, OnePlace
<1>6. ASSUME pending' = all PROVE NothingLost
  <2>1. Held \subseteq Held' \cup ToSet(LinesOf(u))
    BY DEF Held, LinesOf
  <2>2. Lost' \subseteq Lost
    BY <1>2, <1>6, <2>1 DEF Lost
  <2> QED BY <1>4, <2>2 DEF NothingLost
<1> QED BY <1>3, <1>4, <1>5, <1>6

(* An uploader lets go of lines that a server has stored. *)
LEMMA LinesDone ==
  ASSUME UploadInv, NEW u \in Uploaders, LinesOf(u)' = <<>>,
         \A v \in Uploaders : v # u => LinesOf(v)' = LinesOf(v),
         UNCHANGED <<written, pending>>, stored \subseteq stored', dropped \subseteq dropped'
  PROVE  OnePlace' /\ (ToSet(LinesOf(u)) \subseteq stored' \cup dropped' => NothingLost)
<1>1. OnePlace'
  <2>1. Batch(pending)' /\ \A v \in Uploaders : Batch(LinesOf(v))'
    BY OthersStay DEF Batch, UploadInv, OnePlace
  <2>2. ToSet(LinesOf(u))' = {} /\ \A v \in Uploaders : v # u => ToSet(LinesOf(v))' = ToSet(LinesOf(v))
    BY EmptyLines
  <2> QED BY <2>1, <2>2 DEF UploadInv, OnePlace
<1>2. ASSUME ToSet(LinesOf(u)) \subseteq stored' \cup dropped' PROVE NothingLost
  <2>1. Held \subseteq Held' \cup ToSet(LinesOf(u))
    BY DEF Held, LinesOf
  <2>2. Lost' \subseteq Lost
    BY <1>2, <2>1 DEF Lost
  <2> QED BY <2>2, Numbers DEF NothingLost, UploadInv
<1> QED BY <1>1, <1>2

-----------------------------------------------------------------------------
(* What an uploader does *)

Stages == {"off", "waiting", "printing", "draining", "choosing", "sending"}
Carrying == {"choosing", "sending"}

(* An uploader goes to another stage, with lines or without. *)
LEMMA UploaderMoves ==
  ASSUME UploadInv, NEW u \in Uploaders, NEW to \in Stages, NEW lines \in Seq(Lines),
         uploader' = [uploader EXCEPT ![u] = [at |-> to, lines |-> lines]],
         (lines # <<>>) = (to \in Carrying), life' = life,
         u \in LogLoops /\ uploader[u].at = "off" => to = "off"
  PROVE  /\ uploader' \in [Uploaders -> [at : Stages, lines : Seq(Lines)]]
         /\ \A v \in Uploaders : (LinesOf(v)' # <<>>) = (uploader'[v].at \in Carrying)
         /\ LinesOf(u)' = lines
         /\ \A v \in Uploaders : v # u => LinesOf(v)' = LinesOf(v)
         /\ NewLoops'
<1>1. /\ uploader \in [Uploaders -> [at : Stages, lines : Seq(Lines)]]
      /\ \A v \in Uploaders : (LinesOf(v) # <<>>) = (uploader[v].at \in Carrying)
  BY DEF UploadInv, TypeOK, Stages, Carrying, LinesOf
<1>2. /\ uploader'[u] = [at |-> to, lines |-> lines]
      /\ \A v \in Uploaders : v # u => uploader'[v] = uploader[v]
  BY <1>1
<1>3. [at |-> to, lines |-> lines] \in [at : Stages, lines : Seq(Lines)]
  OBVIOUS
<1>4. uploader' \in [Uploaders -> [at : Stages, lines : Seq(Lines)]]
  BY <1>1, <1>3
<1>5. LinesOf(u)' = lines /\ \A v \in Uploaders : v # u => LinesOf(v)' = LinesOf(v)
  BY <1>2 DEF LinesOf
<1>6. \A v \in Uploaders : (LinesOf(v)' # <<>>) = (uploader'[v].at \in Carrying)
  BY <1>1, <1>2, <1>5
<1>7. NewLoops'
  <2>1. \A v \in LogLoops : v \in Uploaders
    BY DEF Uploaders
  <2> QED BY <1>2, <2>1 DEF UploadInv, NewLoops
<1> QED BY <1>4, <1>5, <1>6, <1>7

(* A stage with nothing in hand. *)
LEMMA EmptyHanded ==
  ASSUME UploadInv, NEW u \in Uploaders, NEW to \in Stages \ Carrying, Goes(u, to), life' = life,
         u \in LogLoops /\ uploader[u].at = "off" => to = "off"
  PROVE  /\ uploader' \in [Uploaders -> [at : Stages, lines : Seq(Lines)]]
         /\ \A v \in Uploaders : (LinesOf(v)' # <<>>) = (uploader'[v].at \in Carrying)
         /\ LinesOf(u)' = <<>>
         /\ \A v \in Uploaders : v # u => LinesOf(v)' = LinesOf(v)
         /\ NewLoops'
<1> DEFINE none == <<>>
<1>1. /\ none \in Seq(Lines) /\ uploader' = [uploader EXCEPT ![u] = [at |-> to, lines |-> none]]
      /\ (none # <<>>) = (to \in Carrying)
  BY EmptySeq DEF Goes
<1>2. none = <<>>
  OBVIOUS
<1> HIDE DEF none
<1> QED BY <1>1, <1>2, UploaderMoves

(* What the type invariant says of uploaders and ring. *)
LEMMA Types ==
  ASSUME UploadInv
  PROVE  /\ uploader \in [Uploaders -> [at : Stages, lines : Seq(Lines)]]
         /\ \A v \in Uploaders : (LinesOf(v) # <<>>) = (uploader[v].at \in Carrying)
         /\ written \in 0..MaxWritten /\ pending \in Seq(Lines) /\ Len(pending) <= MaxLines
         /\ stored \subseteq Lines /\ dropped \subseteq Lines
         /\ LogLoops \subseteq Uploaders /\ Diag \in Uploaders /\ Diag \notin LogLoops
         /\ \A u \in Uploaders : LinesOf(u) \in Seq(Lines)
<1>1. /\ uploader \in [Uploaders -> [at : Stages, lines : Seq(Lines)]]
      /\ \A v \in Uploaders : (LinesOf(v) # <<>>) = (uploader[v].at \in Carrying)
      /\ \A u \in Uploaders : LinesOf(u) \in Seq(Lines)
  BY DEF UploadInv, TypeOK, Stages, Carrying, LinesOf
<1>2. LogLoops \subseteq Uploaders /\ Diag \in Uploaders /\ Diag \notin LogLoops
  BY Numbers DEF Uploaders, Diag, LogLoops
<1> QED BY <1>1, <1>2 DEF UploadInv, TypeOK

(* What the next state has to say for its types. *)
LEMMA TypesHold ==
  ASSUME uploader' \in [Uploaders -> [at : Stages, lines : Seq(Lines)]],
         \A v \in Uploaders : (LinesOf(v)' # <<>>) = (uploader'[v].at \in Carrying),
         written' \in 0..MaxWritten, pending' \in Seq(Lines), Len(pending') <= MaxLines,
         stored' \subseteq Lines, dropped' \subseteq Lines,
         logUpload' \in BOOLEAN, visible' \in BOOLEAN, up' \in BOOLEAN, life' \in 0..MaxLife
  PROVE  TypeOK'
  BY DEF TypeOK, Stages, Carrying, LinesOf

-----------------------------------------------------------------------------
(* The steps *)

(* The program writes a line, the user and the node do theirs: no uploader acts. *)
LEMMA NodeSteps ==
  ASSUME UploadInv, Write \/ SetLogUpload \/ BringUp \/ EnterOrLeave \/ TearDown
  PROVE  UploadInv' /\ (NothingLost \/ RingFull)
<1>1. CASE Write
  <2>1. Written /\ UNCHANGED <<logUpload, visible, up, life, uploader, stored, dropped>>
    BY <1>1 DEF Write, nodeVars, serverVars
  <2>2. \A u \in Uploaders : LinesOf(u)' = LinesOf(u)
    BY <2>1 DEF LinesOf
  <2>3. /\ written' \in 0..MaxWritten /\ pending' \in Seq(Lines) /\ Len(pending') <= MaxLines
        /\ OnePlace' /\ (NothingLost \/ RingFull)
    BY <2>1, <2>2, LineWritten
  <2>4. TypeOK'
    BY <2>1, <2>3 DEF UploadInv, TypeOK
  <2> QED BY <2>1, <2>3, <2>4 DEF UploadInv, NewLoops
<1>2. CASE SetLogUpload \/ EnterOrLeave \/ TearDown
  <2>1. /\ UNCHANGED <<written, pending, life, uploader, stored, dropped>>
        /\ logUpload' \in BOOLEAN /\ visible' \in BOOLEAN /\ up' \in BOOLEAN
    BY <1>2 DEF SetLogUpload, EnterOrLeave, TearDown, nodeVars, serverVars, UploadInv, TypeOK
  <2>2. OnePlace' /\ NothingLost
    BY <2>1, LinesStay DEF LinesOf
  <2>3. TypeOK'
    BY <2>1 DEF UploadInv, TypeOK
  <2> QED BY <2>1, <2>2, <2>3 DEF UploadInv, NewLoops
<1>3. CASE BringUp
  <2>1. /\ life < MaxLife /\ life' = life + 1 /\ up' = TRUE /\ Goes(life', "waiting")
        /\ UNCHANGED <<written, pending, logUpload, visible, stored, dropped>>
    BY <1>3 DEF BringUp, serverVars
  <2>2. /\ life \in Nat /\ life' \in LogLoops /\ life' > life /\ life' \in 0..MaxLife
        /\ \A u \in LogLoops : u > life' => u > life /\ u # life'
    BY <2>1, Numbers DEF UploadInv, TypeOK, LogLoops
  <2>3. life' \in Uploaders /\ uploader[life'].at = "off" /\ LinesOf(life') = <<>>
    BY <2>2, Types DEF UploadInv, NewLoops, Carrying
  <2>4. PICK l \in LogLoops : l = life'
    BY <2>2
  <2>5. /\ uploader' = [uploader EXCEPT ![l] = [at |-> "waiting", lines |-> <<>>]]
        /\ l \in Uploaders /\ uploader[l].at = "off" /\ LinesOf(l) = <<>>
    BY <2>1, <2>3, <2>4 DEF Goes
  <2>6. /\ uploader' \in [Uploaders -> [at : Stages, lines : Seq(Lines)]]
        /\ uploader'[l] = [at |-> "waiting", lines |-> <<>>]
        /\ \A u \in Uploaders : u # l => uploader'[u] = uploader[u]
    <3>1. [at |-> "waiting", lines |-> <<>>] \in [at : Stages, lines : Seq(Lines)]
      BY EmptySeq DEF Stages
    <3> QED BY <2>5, <3>1, Types
  <2>7. \A u \in Uploaders : LinesOf(u)' = LinesOf(u)
    BY <2>5, <2>6 DEF LinesOf
  <2>8. \A u \in Uploaders : (LinesOf(u)' # <<>>) = (uploader'[u].at \in Carrying)
    BY <2>5, <2>6, <2>7, Types DEF Carrying
  <2>9. OnePlace' /\ NothingLost
    BY <2>1, <2>7, LinesStay
  <2>10. TypeOK'
    <3>1. logUpload' \in BOOLEAN /\ visible' \in BOOLEAN /\ up' \in BOOLEAN
      BY <2>1 DEF UploadInv, TypeOK
    <3>2. written' \in 0..MaxWritten /\ pending' \in Seq(Lines) /\ Len(pending') <= MaxLines
          /\ stored' \subseteq Lines /\ dropped' \subseteq Lines
      BY <2>1, Types
    <3> QED BY <2>2, <2>6, <2>8, <3>1, <3>2, TypesHold
  <2>11. NewLoops'
    <3>1. ASSUME NEW u \in LogLoops, u > life' PROVE uploader'[u].at = "off"
      BY <2>2, <2>4, <2>6, <3>1, Types DEF UploadInv, NewLoops
    <3> QED BY <3>1 DEF NewLoops
  <2> QED BY <2>9, <2>10, <2>11 DEF UploadInv
<1> QED BY <1>1, <1>2, <1>3

(* The loop that goes on, the user who asks: no line moves. *)
LEMMA WaitingSteps ==
  ASSUME UploadInv, (\E u \in LogLoops : Tick(u) \/ NodeStop(u)) \/ Ask
  PROVE  UploadInv' /\ NothingLost
<1>1. UNCHANGED <<written, pending, logUpload, visible, up, life, stored, dropped>>
  BY DEF Tick, NodeStop, Ask, nodeVars, serverVars
<1>2. PICK u \in Uploaders, to \in Stages \ Carrying :
          /\ uploader[u].at \notin Carrying /\ Goes(u, to)
          /\ u \in LogLoops => uploader[u].at = "waiting"
  BY Types DEF Tick, NodeStop, Ask, At, Stages, Carrying
<1>3. /\ uploader' \in [Uploaders -> [at : Stages, lines : Seq(Lines)]]
      /\ \A v \in Uploaders : (LinesOf(v)' # <<>>) = (uploader'[v].at \in Carrying)
      /\ LinesOf(u)' = <<>> /\ \A v \in Uploaders : v # u => LinesOf(v)' = LinesOf(v)
      /\ NewLoops'
  BY <1>1, <1>2, EmptyHanded
<1>4. LinesOf(u) = <<>>
  BY <1>2, Types
<1>5. OnePlace' /\ NothingLost
  <2>1. \A v \in Uploaders : LinesOf(v)' = LinesOf(v)
    BY <1>3, <1>4
  <2> QED BY <1>1, <2>1, LinesStay
<1>6. TypeOK'
  <2>1. logUpload' \in BOOLEAN /\ visible' \in BOOLEAN /\ up' \in BOOLEAN /\ life' \in 0..MaxLife
    BY <1>1 DEF UploadInv, TypeOK
  <2>2. written' \in 0..MaxWritten /\ pending' \in Seq(Lines) /\ Len(pending') <= MaxLines
        /\ stored' \subseteq Lines /\ dropped' \subseteq Lines
    BY <1>1, Types
  <2> QED BY <1>3, <2>1, <2>2, TypesHold
<1> QED BY <1>3, <1>5, <1>6 DEF UploadInv

(* All lines go from the ring to the uploader. *)
LEMMA DrainSteps ==
  ASSUME UploadInv, (\E u \in LogLoops : LoopDrains(u)) \/ DiagDrains
  PROVE  UploadInv' /\ NothingLost
<1>1. PICK u \in Uploaders, next \in Carrying :
          /\ At(u, "draining") /\ Drain(u, next)
          /\ UNCHANGED <<written, logUpload, nodeVars, stored, dropped>>
  BY Types DEF LoopDrains, DiagDrains, Carrying, serverVars
<1>2. /\ LinesOf(u) = <<>> /\ pending' = <<>>
      /\ UNCHANGED <<written, logUpload, visible, up, life, stored, dropped>>
  BY <1>1, Types DEF At, Carrying, Drain, nodeVars, serverVars
<1>3. /\ uploader' \in [Uploaders -> [at : Stages, lines : Seq(Lines)]]
      /\ \A v \in Uploaders : (LinesOf(v)' # <<>>) = (uploader'[v].at \in Carrying)
      /\ LinesOf(u)' = pending /\ \A v \in Uploaders : v # u => LinesOf(v)' = LinesOf(v)
      /\ NewLoops'
  <2>1. CASE pending = <<>>
    <3>1. PICK to \in Stages \ Carrying : Goes(u, to)
      BY <1>1, <2>1 DEF Drain, Over, Stages, Carrying
    <3> QED BY <1>1, <1>2, <2>1, <3>1, EmptyHanded DEF At
  <2>2. CASE pending # <<>>
    <3>1. uploader' = [uploader EXCEPT ![u] = [at |-> next, lines |-> pending]]
          /\ next \in Stages /\ uploader[u].at # "off"
      BY <1>1, <2>2 DEF Drain, At, Stages, Carrying
    <3>2. pending \in Seq(Lines) /\ (pending # <<>>) = (next \in Carrying) /\ life' = life
      BY <1>2, <2>2, Types
    <3> QED BY <3>1, <3>2, UploaderMoves
  <2> QED BY <2>1, <2>2
<1>4. OnePlace' /\ NothingLost
  BY <1>2, <1>3, LinesTaken
<1>5. TypeOK'
  <2>1. logUpload' \in BOOLEAN /\ visible' \in BOOLEAN /\ up' \in BOOLEAN /\ life' \in 0..MaxLife
    BY <1>2 DEF UploadInv, TypeOK
  <2>2. written' \in 0..MaxWritten /\ pending' \in Seq(Lines) /\ Len(pending') <= MaxLines
        /\ stored' \subseteq Lines /\ dropped' \subseteq Lines
    BY <1>2, EmptySeq, Numbers, Types
  <2> QED BY <1>3, <2>1, <2>2, TypesHold
<1> QED BY <1>3, <1>4, <1>5 DEF UploadInv

(* No network to upload for any more: the lines go back. *)
LEMMA ChooseSteps ==
  ASSUME UploadInv, NEW u \in LogLoops, ChooseTags(u)
  PROVE  UploadInv' /\ (NothingLost \/ RingFull)
<1>1. /\ u \in Uploaders /\ uploader[u].at = "choosing"
      /\ UNCHANGED <<written, logUpload, visible, up, life, stored, dropped>>
  BY Types DEF ChooseTags, At, nodeVars, serverVars
<1>2. /\ logUpload' \in BOOLEAN /\ visible' \in BOOLEAN /\ up' \in BOOLEAN /\ life' \in 0..MaxLife
      /\ written' \in 0..MaxWritten /\ stored' \subseteq Lines /\ dropped' \subseteq Lines
  BY <1>1, Types DEF UploadInv, TypeOK
<1>3. CASE visible
  <2>1. uploader' = [uploader EXCEPT ![u].at = "sending"] /\ pending' = pending
    BY <1>3 DEF ChooseTags
  <2>2. uploader' = [uploader EXCEPT ![u] = [at |-> "sending", lines |-> LinesOf(u)]]
    <3>1. uploader[u] \in [at : Stages, lines : Seq(Lines)]
      BY <1>1, Types
    <3>2. [uploader[u] EXCEPT !.at = "sending"] = [at |-> "sending", lines |-> uploader[u].lines]
      BY <3>1
    <3>3. uploader' = [uploader EXCEPT ![u] = [uploader[u] EXCEPT !.at = "sending"]]
      BY <2>1
    <3> QED BY <3>2, <3>3 DEF LinesOf
  <2>3. /\ LinesOf(u) \in Seq(Lines) /\ (LinesOf(u) # <<>>) = ("sending" \in Carrying)
        /\ "sending" \in Stages
    BY <1>1, Types DEF Carrying, Stages
  <2>4. /\ uploader' \in [Uploaders -> [at : Stages, lines : Seq(Lines)]]
        /\ \A v \in Uploaders : (LinesOf(v)' # <<>>) = (uploader'[v].at \in Carrying)
        /\ LinesOf(u)' = LinesOf(u)
        /\ \A v \in Uploaders : v # u => LinesOf(v)' = LinesOf(v)
        /\ NewLoops'
    BY <1>1, <2>2, <2>3, UploaderMoves
  <2>5. OnePlace' /\ NothingLost
    BY <1>1, <2>1, <2>4, LinesStay
  <2>6. pending' \in Seq(Lines) /\ Len(pending') <= MaxLines
    BY <2>1, Types
  <2> QED BY <1>2, <2>4, <2>5, <2>6, TypesHold DEF UploadInv
<1>4. CASE ~visible
  <2>1. PutBack(LinesOf(u)) /\ Over(u)
    BY <1>4 DEF ChooseTags, LinesOf
  <2>2. PICK to \in Stages \ Carrying : Goes(u, to)
    BY <2>1 DEF Over, Stages, Carrying
  <2>3. /\ uploader' \in [Uploaders -> [at : Stages, lines : Seq(Lines)]]
        /\ \A v \in Uploaders : (LinesOf(v)' # <<>>) = (uploader'[v].at \in Carrying)
        /\ LinesOf(u)' = <<>>
        /\ \A v \in Uploaders : v # u => LinesOf(v)' = LinesOf(v)
        /\ NewLoops'
    BY <1>1, <2>2, EmptyHanded
  <2>4. /\ pending' \in Seq(Lines) /\ Len(pending') <= MaxLines
        /\ OnePlace' /\ (NothingLost \/ RingFull)
    BY <1>1, <2>1, <2>3, LinesPutBack
  <2> QED BY <1>2, <2>3, <2>4, TypesHold DEF UploadInv
<1> QED BY <1>3, <1>4

(* SendDiagnostics writes its snapshot to the ring like any line. *)
LEMMA PrintStep ==
  ASSUME UploadInv, PrintSnapshot
  PROVE  UploadInv' /\ (NothingLost \/ RingFull)
<1>1. /\ uploader[Diag].at = "printing" /\ Written /\ Goes(Diag, "draining")
      /\ UNCHANGED <<logUpload, visible, up, life, stored, dropped>>
  BY DEF PrintSnapshot, At, nodeVars, serverVars
<1>2. /\ uploader' \in [Uploaders -> [at : Stages, lines : Seq(Lines)]]
      /\ \A v \in Uploaders : (LinesOf(v)' # <<>>) = (uploader'[v].at \in Carrying)
      /\ LinesOf(Diag)' = <<>> /\ \A v \in Uploaders : v # Diag => LinesOf(v)' = LinesOf(v)
      /\ NewLoops'
  <2>1. "draining" \in Stages \ Carrying /\ Diag \in Uploaders /\ life' = life
    BY <1>1, Types DEF Stages, Carrying
  <2> QED BY <1>1, <2>1, EmptyHanded
<1>3. LinesOf(Diag) = <<>>
  BY <1>1, Types DEF Carrying
<1>4. /\ written' \in 0..MaxWritten /\ pending' \in Seq(Lines) /\ Len(pending') <= MaxLines
      /\ OnePlace' /\ (NothingLost \/ RingFull)
  <2>1. \A v \in Uploaders : LinesOf(v)' = LinesOf(v)
    BY <1>2, <1>3
  <2> QED BY <1>1, <2>1, LineWritten
<1>5. /\ logUpload' \in BOOLEAN /\ visible' \in BOOLEAN /\ up' \in BOOLEAN /\ life' \in 0..MaxLife
      /\ stored' \subseteq Lines /\ dropped' \subseteq Lines
  BY <1>1, Types DEF UploadInv, TypeOK
<1> QED BY <1>2, <1>4, <1>5, TypesHold DEF UploadInv

(* A server keeps the first lines of a batch, all if it keeps whole rings. *)
LEMMA StoredLines ==
  ASSUME UploadInv, NEW u \in Uploaders, AddLog(LinesOf(u))
  PROVE  /\ stored \subseteq stored' /\ stored' \subseteq Lines
         /\ MaxLines <= LogMaxLines => ToSet(LinesOf(u)) \subseteq stored'
<1> DEFINE lines == LinesOf(u)
           n == IF Len(lines) > LogMaxLines THEN LogMaxLines ELSE Len(lines)
<1>1. /\ lines \in Seq(Lines) /\ Len(lines) \in Nat /\ Len(lines) <= MaxLines
      /\ stored' = stored \cup ToSet(SubSeq(lines, 1, n))
  BY Types, SeqSet DEF AddLog, UploadInv, OnePlace, Batch
<1>2. n \in Int /\ n <= Len(lines)
  BY <1>1, Numbers
<1> HIDE DEF lines
<1>3. ToSet(SubSeq(lines, 1, n)) \subseteq Lines
  <2>1. \A i \in 1..n : lines[i] \in Lines
    BY <1>1, <1>2, SeqSet
  <2>2. SubSeq(lines, 1, n) \in Seq(Lines)
    BY <1>2, <2>1, SubSeqProperties
  <2> QED BY <2>2, SeqSet
<1>4. ASSUME MaxLines <= LogMaxLines PROVE SubSeq(lines, 1, n) = lines
  <2>1. n = Len(lines)
    BY <1>1, <1>4, Numbers
  <2> QED BY <1>1, <2>1, SubSeqFull
<1> QED BY <1>1, <1>3, <1>4, Types DEF lines

(* An upload is over: confirmed, its lines are with a server or dropped by   *)
(* one; not confirmed, they go back, whatever a server has stored of them.   *)
LEMMA UploadSteps ==
  ASSUME UploadInv, NEW u \in Uploaders, Upload(u)
  PROVE  UploadInv' /\ (MaxLines <= LogMaxLines => NothingLost \/ RingFull)
<1>1. /\ uploader[u].at = "sending" /\ Over(u)
      /\ UNCHANGED <<written, logUpload, visible, up, life>>
  BY DEF Upload, Confirmed, Unconfirmed, At, nodeVars, serverVars
<1>2. PICK to \in Stages \ Carrying : Goes(u, to)
  BY <1>1 DEF Over, Stages, Carrying
<1>3. /\ uploader' \in [Uploaders -> [at : Stages, lines : Seq(Lines)]]
      /\ \A v \in Uploaders : (LinesOf(v)' # <<>>) = (uploader'[v].at \in Carrying)
      /\ LinesOf(u)' = <<>>
      /\ \A v \in Uploaders : v # u => LinesOf(v)' = LinesOf(v)
      /\ NewLoops'
  BY <1>1, <1>2, EmptyHanded
<1>4. /\ logUpload' \in BOOLEAN /\ visible' \in BOOLEAN /\ up' \in BOOLEAN /\ life' \in 0..MaxLife
      /\ written' \in 0..MaxWritten
  BY <1>1, Types DEF UploadInv, TypeOK
<1>5. CASE Confirmed(u)
  <2>1. HandleLog(LinesOf(u)) /\ pending' = pending
    BY <1>5 DEF Confirmed, LinesOf
  <2>2. /\ stored \subseteq stored' /\ stored' \subseteq Lines
        /\ dropped \subseteq dropped' /\ dropped' \subseteq Lines
        /\ MaxLines <= LogMaxLines => ToSet(LinesOf(u)) \subseteq stored' \cup dropped'
    <3>1. CASE AddLog(LinesOf(u)) /\ dropped' = dropped
      BY <3>1, StoredLines, Types
    <3>2. CASE dropped' = dropped \cup ToSet(LinesOf(u)) /\ stored' = stored
      <4>1. LinesOf(u) \in Seq(Lines) /\ stored \subseteq Lines /\ dropped \subseteq Lines
        BY Types
      <4>2. ToSet(LinesOf(u)) \subseteq Lines
        BY <4>1, SeqSet
      <4> QED BY <3>2, <4>1, <4>2
    <3> QED BY <2>1, <3>1, <3>2 DEF HandleLog
  <2>3. OnePlace' /\ (ToSet(LinesOf(u)) \subseteq stored' \cup dropped' => NothingLost)
    BY <1>1, <1>3, <2>1, <2>2, LinesDone
  <2>4. pending' \in Seq(Lines) /\ Len(pending') <= MaxLines
    BY <2>1, Types
  <2>5. TypeOK'
    BY <1>3, <1>4, <2>2, <2>4, TypesHold
  <2> QED BY <1>3, <2>2, <2>3, <2>5 DEF UploadInv
<1>6. CASE Unconfirmed(u)
  <2>1. PutBack(LinesOf(u)) /\ (AddLog(LinesOf(u)) \/ stored' = stored) /\ dropped' = dropped
    BY <1>6 DEF Unconfirmed, LinesOf
  <2>2. /\ stored \subseteq stored' /\ stored' \subseteq Lines
        /\ dropped \subseteq dropped' /\ dropped' \subseteq Lines
    BY <2>1, StoredLines, Types
  <2>3. /\ pending' \in Seq(Lines) /\ Len(pending') <= MaxLines
        /\ OnePlace' /\ (NothingLost \/ RingFull)
    BY <1>1, <1>3, <2>1, <2>2, LinesPutBack
  <2>4. TypeOK'
    BY <1>3, <1>4, <2>2, <2>3, TypesHold
  <2> QED BY <1>3, <2>3, <2>4 DEF UploadInv
<1> QED BY <1>5, <1>6 DEF Upload

(* A step loses no line, or leaves the ring full. *)
LEMMA EveryStep ==
  ASSUME UploadInv, Next
  PROVE  UploadInv' /\ (MaxLines <= LogMaxLines => NothingLost \/ RingFull)
<1>1. CASE Write \/ SetLogUpload \/ BringUp \/ EnterOrLeave \/ TearDown
  BY <1>1, NodeSteps
<1>2. CASE \E u \in LogLoops : LogLoop(u)
  BY <1>2, WaitingSteps, DrainSteps, ChooseSteps DEF LogLoop
<1>3. CASE Ask \/ SendDiagnostics
  BY <1>3, WaitingSteps, DrainSteps, PrintStep DEF SendDiagnostics
<1>4. CASE \E u \in Uploaders : Upload(u)
  BY <1>4, UploadSteps
<1> QED BY <1>1, <1>2, <1>3, <1>4 DEF Next

(* Nothing is lost while nothing happens. *)
LEMMA Unchanged ==
  ASSUME UploadInv, UNCHANGED vars
  PROVE  UploadInv' /\ NothingLost
<1>1. UNCHANGED <<written, pending, logUpload, visible, up, life, uploader, stored, dropped>>
  BY DEF vars, nodeVars, serverVars
<1>2. OnePlace' /\ NothingLost
  BY <1>1, LinesStay DEF LinesOf
<1> QED BY <1>1, <1>2 DEF UploadInv, TypeOK, NewLoops

-----------------------------------------------------------------------------
(* The invariant holds in every reachable state. *)
LEMMA UploadInductive == Spec => []UploadInv
<1>1. Init => UploadInv
  <2> SUFFICES ASSUME Init PROVE UploadInv
    OBVIOUS
  <2>1. /\ written = 0 /\ pending = <<>> /\ stored = {} /\ dropped = {} /\ life = 0
        /\ visible = FALSE /\ up = FALSE /\ logUpload \in BOOLEAN
        /\ \A u \in Uploaders : uploader[u] = Off /\ LinesOf(u) = <<>>
    BY DEF Init, Off, LinesOf
  <2>2. uploader \in [Uploaders -> [at : Stages, lines : Seq(Lines)]]
    <3>1. Off \in [at : Stages, lines : Seq(Lines)]
      BY EmptySeq DEF Off, Stages
    <3> QED BY <3>1 DEF Init
  <2>3. TypeOK
    <3>1. \A u \in Uploaders : uploader[u].lines = <<>> /\ uploader[u].at = "off"
      BY <2>1 DEF Off
    <3>2. \A u \in Uploaders : (uploader[u].lines # <<>>) = (uploader[u].at \in {"choosing", "sending"})
      BY <3>1
    <3>3. written \in 0..MaxWritten /\ life \in 0..MaxLife
      BY <2>1, Numbers
    <3>5. {logUpload, visible, up} \subseteq BOOLEAN
      BY <2>1, Zenon
    <3>4. pending \in Seq(Lines) /\ Len(pending) <= MaxLines /\ stored \subseteq Lines /\ dropped \subseteq Lines
      BY <2>1, EmptySeq, Numbers
    <3> QED BY <2>2, <3>2, <3>3, <3>4, <3>5 DEF TypeOK, Stages
  <2>4. OnePlace
    BY <2>1, EmptyLines DEF OnePlace
  <2>5. NewLoops
    BY <2>1 DEF NewLoops, Uploaders, Off
  <2> QED BY <2>3, <2>4, <2>5 DEF UploadInv
<1>2. UploadInv /\ [Next]_vars => UploadInv'
  BY EveryStep, Unchanged
<1> QED BY <1>1, <1>2, PTL DEF Spec

(* Types, and the ring keeps its limit. *)
THEOREM TypeCorrect == Spec => []TypeOK
<1>1. UploadInv => TypeOK
  BY DEF UploadInv
<1> QED BY <1>1, UploadInductive, PTL

(* No line is in the ring and with an uploader, or with two uploaders: none  *)
(* is uploaded twice because two took it, or put back twice.                 *)
THEOREM LinesAreInOnePlace == Spec => []OnePlace
<1>1. UploadInv => OnePlace
  BY DEF UploadInv
<1> QED BY <1>1, UploadInductive, PTL

-----------------------------------------------------------------------------
(* What has been lost *)

(* How many of the first n lines have no place in the ring. *)
Beyond(n) == IF n > MaxLines THEN n - MaxLines ELSE 0

Displaced == Beyond(written)

LossInv == UploadInv /\ Cardinality(Lost) <= Displaced

(* The more are written, the more lie beyond the places of the ring. *)
LEMMA MoreBeyond ==
  ASSUME NEW m \in Nat, NEW n \in Nat, m <= n
  PROVE  Beyond(m) \in Nat /\ Beyond(n) \in Nat /\ Beyond(m) <= Beyond(n)
<1>1. MaxLines \in Nat
  BY Numbers
<1> QED BY <1>1 DEF Beyond

(* Lines written are as many as were written. *)
LEMMA LostFinite ==
  ASSUME TypeOK, NEW some, some \subseteq 1..written
  PROVE  /\ IsFiniteSet(some) /\ Cardinality(some) \in Nat
         /\ IsFiniteSet(1..written) /\ Cardinality(1..written) = written
<1>1. written \in Nat
  BY Numbers
<1>2. /\ IsFiniteSet(1..written)
      /\ Cardinality(1..written) = IF 1 > written THEN 0 ELSE written - 1 + 1
  BY <1>1, FS_Interval
<1>3. Cardinality(1..written) = written
  BY <1>1, <1>2
<1>4. IsFiniteSet(some)
  BY <1>2, FS_Subset
<1> QED BY <1>2, <1>3, <1>4, FS_CardinalityType

(* With a full ring at most the other lines are lost. *)
FullRingSaves == Len(pending) = MaxLines => Cardinality(Lost) <= Displaced

(* A full ring holds as many different lines as it has places. *)
LEMMA RestIsLost ==
  ASSUME UploadInv
  PROVE  FullRingSaves
<1> SUFFICES ASSUME Len(pending) = MaxLines PROVE Cardinality(Lost) <= Displaced
  BY DEF FullRingSaves
<1> DEFINE safe == ToSet(pending)
           rest == (1..written) \ safe
<1>1. /\ IsFiniteSet(safe) /\ Cardinality(safe) = MaxLines /\ safe \subseteq 1..written
  BY Places, SeqSet DEF UploadInv, OnePlace, Batch
<1>2. /\ IsFiniteSet(1..written) /\ Cardinality(1..written) = written
      /\ written \in Nat /\ MaxLines \in Nat
  BY LostFinite, Numbers DEF UploadInv
<1>3. (1..written) \cap safe = safe
  BY <1>1
<1>4. IsFiniteSet(rest) /\ Cardinality(rest) = written - MaxLines
  <2> DEFINE all == 1..written
  <2>1. /\ IsFiniteSet(all) /\ IsFiniteSet(safe) /\ Cardinality(all) = written
        /\ all \cap safe = safe /\ rest = all \ safe
    BY <1>1, <1>2, <1>3
  <2> HIDE DEF all, safe, rest
  <2>2. IsFiniteSet(all \ safe) /\ Cardinality(all \ safe) = Cardinality(all) - Cardinality(all \cap safe)
    BY <2>1, FS_Difference
  <2> QED BY <1>1, <2>1, <2>2
<1>5. Lost \subseteq rest
  BY DEF Lost
<1>6. Cardinality(Lost) <= Cardinality(rest) /\ Cardinality(rest) \in Nat
  BY <1>4, <1>5, FS_Subset, FS_CardinalityType
<1> QED BY <1>2, <1>4, <1>6 DEF Displaced, Beyond

(* However many uploads overlap, fail or are confirmed while their answer is *)
(* lost, a line that is nowhere has made way for later ones: never more than *)
(* were written beyond the places of the ring, if a server keeps a whole     *)
(* ring (the programs give both the same number).  What a server with a full *)
(* registry confirmed and dropped is not among them.                         *)
THEOREM OnlyOverflowIsLost ==
  ASSUME MaxLines <= LogMaxLines
  PROVE  Spec => []OnlyOverflowLoses
<1>1. Init /\ UploadInv => LossInv
  <2> SUFFICES ASSUME Init, UploadInv PROVE LossInv
    OBVIOUS
  <2>1. Lost = {}
    BY Numbers DEF Init, Lost
  <2> QED BY <2>1, FS_EmptySet, Numbers DEF Init, LossInv, Displaced, Beyond
<1>2. LossInv /\ UploadInv' /\ FullRingSaves' /\ [Next]_vars => LossInv'
  <2> SUFFICES ASSUME LossInv, UploadInv', FullRingSaves', [Next]_vars PROVE Cardinality(Lost') <= Displaced'
    BY DEF LossInv
  <2>1. NothingLost \/ RingFull
    BY EveryStep, Unchanged DEF LossInv
  <2>2. CASE RingFull
    BY <2>2 DEF RingFull, FullRingSaves
  <2>3. CASE NothingLost
    <3>1. Lost' \subseteq Lost /\ Lost \subseteq 1..written /\ written <= written'
      BY <2>3 DEF NothingLost, Lost
    <3>2. /\ IsFiniteSet(Lost) /\ Cardinality(Lost) \in Nat
          /\ Cardinality(Lost') \in Nat /\ Cardinality(Lost') <= Cardinality(Lost)
      BY <3>1, LostFinite, FS_Subset, FS_CardinalityType DEF LossInv, UploadInv
    <3>3. Displaced <= Displaced' /\ Displaced \in Nat /\ Displaced' \in Nat
      <4>1. written \in Nat /\ written' \in Nat /\ MaxLines \in Nat
        BY Numbers DEF LossInv, UploadInv, TypeOK
      <4>2. written <= written'
        BY <3>1
      <4>3. Displaced = Beyond(written) /\ Displaced' = Beyond(written')
        BY DEF Displaced
      <4> QED BY <4>1, <4>2, <4>3, MoreBeyond
    <3> QED BY <3>2, <3>3 DEF LossInv
  <2> QED BY <2>1, <2>2, <2>3
<1>3. LossInv => OnlyOverflowLoses
  BY DEF LossInv, UploadInv, TypeOK, OnlyOverflowLoses, Displaced, Beyond
<1>4. UploadInv => FullRingSaves
  BY RestIsLost
<1> QED BY <1>1, <1>2, <1>3, <1>4, UploadInductive, PTL DEF Spec

=============================================================================
