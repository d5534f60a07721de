------------------------------ MODULE NetCache ------------------------------
(***************************************************************************)
(* The cache of confirmed endpoints (internal/netcache/netcache.go): the   *)
(* list kept for one peer of one network, and Save, which writes it to a   *)
(* file through a temporary one.                                           *)
(*                                                                         *)
(* Put runs in netToTun (OnDirectConfirmed).  Save runs in cacheSaveLoop   *)
(* and in tearDownNode, which does not wait for the loop, so a node that   *)
(* is restarted may have several Saves under way.  Save takes c.mu twice,  *)
(* to copy and to clear dirty, and saveMu only for the file in between.    *)
(* The process may die at any step; what it had written is what Open reads.*)
(***************************************************************************)
EXTENDS Integers, SequencesExt

CONSTANTS
    Addrs,          \* addresses a peer has answered from
    Savers,         \* goroutines that may be in Save at once
    MaxPerPeer,     \* maxPerPeer: 3 in the code
    TTL,            \* ttl, in units of clock
    MaxClock        \* bound: reading of the clock

ASSUME SizesAssumption == MaxPerPeer \in Nat \ {0} /\ TTL \in Nat \ {0} /\ MaxClock \in Nat

VARIABLES
    clock,
    entries,    \* c.entries[key]
    dirty,      \* c.dirty
    at,         \* per saver: where it is in Save
    snap,       \* per saver: the data it marshalled
    saveMu,     \* its holder, as a set of at most one
    tmp, file,  \* path + ".tmp" and path: whether the content is whole, and what it is
    late        \* history: addresses last confirmed while a Save was under way, since
                \* the last copy that a Save made alone

memVars == <<clock, entries, dirty>>
saveVars == <<at, snap, saveMu>>
vars == <<memVars, saveVars, tmp, file, late>>

Entry == [addr : Addrs, seen : 0..MaxClock]
Lists == UNION {[1..k -> Entry] : k \in 0..MaxPerPeer}
Content == [whole : BOOLEAN, list : Lists]
Whole(l) == [whole |-> TRUE, list |-> l]
Torn == [whole |-> FALSE, list |-> <<>>]

TypeOK ==
    /\ clock \in 0..MaxClock /\ entries \in Lists /\ dirty \in BOOLEAN
    /\ at \in [Savers -> {"idle", "copied", "locked", "writing", "written", "renamed"}]
    /\ snap \in [Savers -> Lists]
    /\ saveMu \subseteq Savers
    /\ tmp \in Content /\ file \in Content /\ late \subseteq Addrs

Init ==
    /\ clock = 0 /\ entries = <<>> /\ dirty = FALSE
    /\ at = [s \in Savers |-> "idle"] /\ snap = [s \in Savers |-> <<>>] /\ saveMu = {}
    /\ tmp = Whole(<<>>) /\ file = Whole(<<>>) /\ late = {}

(* A loop that keeps some entries, in their order. *)
Kept(l, keep) ==
    LET kept[i \in 0..Len(l)] ==
            IF i = 0 THEN <<>>
            ELSE IF l[i] \in keep THEN Append(kept[i - 1], l[i]) ELSE kept[i - 1]
    IN  kept[Len(l)]

Underway == {s \in Savers : at[s] # "idle"}

Unexpired(l) == Kept(l, {e \in Entry : clock - e.seen < TTL})
Newest(l) == SubSeq(l, 1, IF Len(l) < MaxPerPeer THEN Len(l) ELSE MaxPerPeer)

-----------------------------------------------------------------------------
(* Time passes, alone or with a Put. *)
Tick ==
    /\ clock < MaxClock
    /\ clock' = clock + 1
    /\ UNCHANGED <<entries, dirty, saveVars, tmp, file, late>>

(* Put: an address confirmed again moves to the front, a new one is put      *)
(* there, and the last one goes if the list is full.                         *)

New(a) == <<[addr |-> a, seen |-> clock']>>

FirstWith(a, i) == entries[i].addr = a /\ \A j \in 1..i - 1 : entries[j].addr # a

(* Slip: it is refreshed where it stands. *)
RefreshInPlace(a) ==
    \E i \in DOMAIN entries :
        FirstWith(a, i) /\ entries' = [entries EXCEPT ![i].seen = clock']

Refresh(a) ==
    \E i \in DOMAIN entries :
        FirstWith(a, i) /\ entries' = New(a) \o RemoveAt(entries, i)

Unknown(a) == \A i \in DOMAIN entries : entries[i].addr # a

(* Slip: the list is not cut. *)
AddUncut(a) == Unknown(a) /\ entries' = New(a) \o entries

Add(a) == Unknown(a) /\ entries' = Newest(New(a) \o entries)

Put(a) ==
    /\ clock < MaxClock /\ clock' = clock + 1
    /\ Refresh(a) \/ Add(a)
    /\ dirty' = TRUE
    /\ late' = IF Underway = {} THEN late \ {a} ELSE late \cup {a}
    /\ UNCHANGED <<saveVars, tmp, file>>

-----------------------------------------------------------------------------
(* Save; a call that finds nothing dirty returns at once. *)

Copy(s) ==
    /\ at[s] = "idle" /\ dirty
    /\ snap' = [snap EXCEPT ![s] = Unexpired(entries)]
    /\ at' = [at EXCEPT ![s] = "copied"]
    /\ late' = IF Underway = {} THEN {} ELSE late
    /\ UNCHANGED <<memVars, saveMu, tmp, file>>

(* Slip: the file part is not serialised. *)
LockNone(s) ==
    /\ at[s] = "copied"
    /\ at' = [at EXCEPT ![s] = "locked"]
    /\ UNCHANGED <<memVars, snap, saveMu, tmp, file, late>>

Lock(s) ==
    /\ at[s] = "copied" /\ saveMu = {}
    /\ saveMu' = {s} /\ at' = [at EXCEPT ![s] = "locked"]
    /\ UNCHANGED <<memVars, snap, tmp, file, late>>

(* os.WriteFile truncates the temporary file, then fills it. *)
Truncate(s) ==
    /\ at[s] = "locked"
    /\ tmp' = Torn /\ at' = [at EXCEPT ![s] = "writing"]
    /\ UNCHANGED <<memVars, snap, saveMu, file, late>>

Fill(s) ==
    /\ at[s] = "writing"
    /\ tmp' = Whole(snap[s]) /\ at' = [at EXCEPT ![s] = "written"]
    /\ UNCHANGED <<memVars, snap, saveMu, file, late>>

(* Slip: an error of os.Rename is ignored. *)
RenameUnchecked(s) ==
    /\ at[s] = "written"
    /\ file' \in {tmp, file} /\ at' = [at EXCEPT ![s] = "renamed"]
    /\ UNCHANGED <<memVars, snap, saveMu, tmp, late>>

Rename(s) ==
    /\ at[s] = "written"
    /\ file' = tmp /\ at' = [at EXCEPT ![s] = "renamed"]
    /\ UNCHANGED <<memVars, snap, saveMu, tmp, late>>

(* MkdirAll, WriteFile or Rename fails: dirty stays. *)
Fail(s) ==
    /\ at[s] \in {"locked", "writing", "written"}
    /\ at' = [at EXCEPT ![s] = "idle"] /\ saveMu' = saveMu \ {s}
    /\ UNCHANGED <<memVars, snap, tmp, file, late>>

Clean(s) ==
    /\ at[s] = "renamed"
    /\ dirty' = FALSE
    /\ at' = [at EXCEPT ![s] = "idle"] /\ saveMu' = saveMu \ {s}
    /\ UNCHANGED <<clock, entries, snap, tmp, file, late>>

(* The process ends and a new one opens the file; a broken one reads as empty. *)
Open ==
    /\ entries' = IF file.whole THEN file.list ELSE <<>>
    /\ dirty' = FALSE
    /\ at' = [s \in Savers |-> "idle"] /\ snap' = [s \in Savers |-> <<>>] /\ saveMu' = {}
    /\ late' = {}
    /\ UNCHANGED <<clock, tmp, file>>

Next ==
    \/ Tick \/ \E a \in Addrs : Put(a)
    \/ \E s \in Savers :
        \/ Copy(s) \/ Lock(s) \/ Truncate(s) \/ Fill(s)
        \/ Rename(s) \/ Fail(s) \/ Clean(s)
    \/ Open

Spec == Init /\ [][Next]_vars

-----------------------------------------------------------------------------
(* However Saves overlap, fail, or are cut short by the end of the process,  *)
(* the file a next start reads is never partly written (comment of saveMu).  *)
FileNeverTorn == file.whole

(* Get offers the address confirmed last first, each address once, also      *)
(* after a restart that read a file written by overlapping Saves.            *)
FreshFirst ==
    \A i, j \in DOMAIN entries : i < j =>
        entries[i].seen >= entries[j].seen /\ entries[i].addr # entries[j].addr

(* A confirmation that has not expired stays dirty until the file has it,    *)
(* however Saves overlap, overtake each other and fail ("changes must stay   *)
(* dirty"), but for those made while a Save was under way: the end of that   *)
(* Save clears dirty for them too, unwritten, until one copies them alone.   *)
OnlyLateIsLost ==
    ~dirty => \A i \in DOMAIN entries :
        entries[i].addr \in late \/ clock - entries[i].seen >= TTL \/ entries[i] \in Range(file.list)
=============================================================================
