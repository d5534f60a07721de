------------------------------ MODULE LogUpload ------------------------------
(***************************************************************************)
(* Diagnostics: the ring of log lines (internal/logbuf), the two ways it   *)
(* is emptied (logLoop and SendDiagnostics of internal/app/session.go) and *)
(* the server's end of an upload (handleLog of cmd/lanmesh-signal).        *)
(*                                                                         *)
(* An uploader takes every pending line out of the ring and puts them back *)
(* if no server confirms them.  Nothing excludes two uploaders: the loop,  *)
(* a request of the user, and the loop of a node that was taken down with  *)
(* an upload under way.  Lines are numbered in the order they are written. *)
(***************************************************************************)
EXTENDS Integers, Sequences, SequencesExt, FiniteSets

CONSTANTS
    MaxLines,       \* lines the ring keeps
    LogMaxLines,    \* lines a server keeps of one upload
    MaxWritten,     \* bound: lines ever written
    MaxLife         \* bound: times the node comes up

ASSUME LinesAssumption == {MaxLines, LogMaxLines} \subseteq Nat \ {0}
ASSUME BoundsAssumption == {MaxWritten, MaxLife} \subseteq Nat \ {0}

VARIABLES
    written,        \* lines written so far
    pending,        \* Buffer.pending
    logUpload,      \* s.logUpload
    visible,        \* s.nets has a network whose tag the servers may see
    up, life,       \* the node is up; nodes so far, each with its logLoop
    uploader,       \* what each uploader does, with the lines it has taken
    stored,         \* lines some server has stored
    dropped         \* history: lines confirmed by servers that had no room for the network

nodeVars == <<visible, up, life>>
serverVars == <<stored, dropped>>
vars == <<written, pending, logUpload, nodeVars, uploader, serverVars>>

Diag == 0                       \* SendDiagnostics; logLoop of the n-th node is n
LogLoops == 1..MaxLife
Uploaders == {Diag} \cup LogLoops
Lines == 1..MaxWritten

Off == [at |-> "off", lines |-> <<>>]

TypeOK ==
    /\ written \in 0..MaxWritten
    /\ pending \in Seq(Lines) /\ Len(pending) <= MaxLines
    /\ {logUpload, visible, up} \subseteq BOOLEAN
    /\ life \in 0..MaxLife
    /\ uploader \in [Uploaders -> [at : {"off", "waiting", "printing", "draining",
                                         "choosing", "sending"},
                                   lines : Seq(Lines)]]
    /\ \A u \in Uploaders : (uploader[u].lines # <<>>) = (uploader[u].at \in {"choosing", "sending"})
    /\ stored \subseteq Lines /\ dropped \subseteq Lines

Init ==
    /\ written = 0 /\ pending = <<>>
    /\ logUpload \in BOOLEAN
    /\ visible = FALSE /\ up = FALSE /\ life = 0
    /\ uploader = [u \in Uploaders |-> Off]
    /\ stored = {} /\ dropped = {}

At(u, stage) == uploader[u].at = stage
Goes(u, stage) == uploader' = [uploader EXCEPT ![u] = [at |-> stage, lines |-> <<>>]]
Over(u) == Goes(u, IF u = Diag THEN "off" ELSE "waiting")

-----------------------------------------------------------------------------
(* The ring.  Too many lines: the ones at the head go. *)
Trimmed(lines) == SubSeq(lines, Len(lines) - MaxLines + 1, Len(lines))
Kept(lines) == IF Len(lines) > MaxLines THEN Trimmed(lines) ELSE lines

Written ==
    /\ written < MaxWritten
    /\ written' = written + 1
    /\ pending' = Kept(Append(pending, written + 1))

PutBack(lines) == pending' = Kept(lines \o pending)

Drain(u, next) ==
    /\ pending' = <<>>
    /\ IF pending = <<>> THEN Over(u)
       ELSE uploader' = [uploader EXCEPT ![u] = [at |-> next, lines |-> pending]]

-----------------------------------------------------------------------------
(* The node's life, its networks and the switch. *)

Write == Written /\ UNCHANGED <<logUpload, nodeVars, uploader, serverVars>>

SetLogUpload ==
    /\ logUpload' = ~logUpload
    /\ UNCHANGED <<written, pending, nodeVars, uploader, serverVars>>

BringUp ==
    /\ ~up /\ life < MaxLife
    /\ up' = TRUE /\ life' = life + 1
    /\ Goes(life', "waiting")
    /\ UNCHANGED <<written, pending, logUpload, visible, serverVars>>

EnterOrLeave ==
    /\ up /\ visible' = ~visible
    /\ UNCHANGED <<written, pending, logUpload, up, life, uploader, serverVars>>

TearDown ==
    /\ up /\ ~visible
    /\ up' = FALSE
    /\ UNCHANGED <<written, pending, logUpload, visible, life, uploader, serverVars>>

-----------------------------------------------------------------------------
(* logLoop *)

Lives(u) == up /\ u = life

(* Slip: a loop that finds uploads switched off ends. *)
TickOnce(u) ==
    /\ At(u, "waiting")
    /\ Goes(u, IF logUpload THEN "draining" ELSE "off")
    /\ UNCHANGED <<written, pending, logUpload, nodeVars, serverVars>>

Tick(u) ==
    /\ At(u, "waiting") /\ logUpload
    /\ Goes(u, "draining")
    /\ UNCHANGED <<written, pending, logUpload, nodeVars, serverVars>>

NodeStop(u) ==
    /\ At(u, "waiting") /\ ~Lives(u)
    /\ Goes(u, "off")
    /\ UNCHANGED <<written, pending, logUpload, nodeVars, serverVars>>

LoopDrains(u) ==
    /\ At(u, "draining")
    /\ Drain(u, "choosing")
    /\ UNCHANGED <<written, logUpload, nodeVars, serverVars>>

(* Slip: with no network to upload for, the lines are gone. *)
ChooseTagsForgetting(u) ==
    /\ At(u, "choosing")
    /\ IF visible THEN uploader' = [uploader EXCEPT ![u].at = "sending"] ELSE Over(u)
    /\ UNCHANGED <<written, pending, logUpload, nodeVars, serverVars>>

(* The tags are those of the networks the session is in by now. *)
ChooseTags(u) ==
    /\ At(u, "choosing")
    /\ IF visible
       THEN uploader' = [uploader EXCEPT ![u].at = "sending"] /\ UNCHANGED pending
       ELSE Over(u) /\ PutBack(uploader[u].lines)
    /\ UNCHANGED <<written, logUpload, nodeVars, serverVars>>

-----------------------------------------------------------------------------
(* SendDiagnostics: whatever the switch says.  Its snapshot is one line. *)

Ask ==
    /\ At(Diag, "off") /\ visible
    /\ Goes(Diag, "printing")
    /\ UNCHANGED <<written, pending, logUpload, nodeVars, serverVars>>

PrintSnapshot ==
    /\ At(Diag, "printing") /\ Written
    /\ Goes(Diag, "draining")
    /\ UNCHANGED <<logUpload, nodeVars, serverVars>>

DiagDrains ==
    /\ At(Diag, "draining")
    /\ Drain(Diag, "sending")
    /\ UNCHANGED <<written, logUpload, nodeVars, serverVars>>

-----------------------------------------------------------------------------
(* The requests of one upload, for every tag to every server. *)

(* A server keeps the first lines of a batch. *)
AddLog(lines) ==
    stored' = stored \cup ToSet(SubSeq(lines, 1, IF Len(lines) > LogMaxLines
                                                 THEN LogMaxLines ELSE Len(lines)))

(* addLog returns silently when its registry is full of other networks: the  *)
(* answer is the same 200, and if only such servers answer the lines are gone.*)
HandleLog(lines) ==
    \/ AddLog(lines) /\ UNCHANGED dropped
    \/ dropped' = dropped \cup ToSet(lines) /\ UNCHANGED stored

Confirmed(u) ==
    /\ At(u, "sending")
    /\ HandleLog(uploader[u].lines)
    /\ Over(u)
    /\ UNCHANGED <<written, pending, logUpload, nodeVars>>

(* No server has confirmed: none was reached, or the batch was longer than   *)
(* maxBody and refused, or one has stored it and its answer is lost.         *)
Unconfirmed(u) ==
    /\ At(u, "sending")
    /\ AddLog(uploader[u].lines) \/ UNCHANGED stored
    /\ PutBack(uploader[u].lines)
    /\ Over(u)
    /\ UNCHANGED <<written, logUpload, nodeVars, dropped>>

-----------------------------------------------------------------------------
LogLoop(u) == Tick(u) \/ NodeStop(u) \/ LoopDrains(u) \/ ChooseTags(u)
SendDiagnostics == PrintSnapshot \/ DiagDrains
Upload(u) == Confirmed(u) \/ Unconfirmed(u)

Next ==
    \/ Write \/ SetLogUpload
    \/ BringUp \/ EnterOrLeave \/ TearDown
    \/ \E u \in LogLoops : LogLoop(u)
    \/ Ask \/ SendDiagnostics
    \/ \E u \in Uploaders : Upload(u)

(* Goroutines run and requests time out.  A server that is asked again and *)
(* again confirms some time: it is reached, and the batch is not longer    *)
(* than maxBody, which lines of usual length never are.                    *)
Fairness ==
    /\ \A u \in LogLoops : WF_vars(LogLoop(u))
    /\ WF_vars(SendDiagnostics)
    /\ \A u \in Uploaders : WF_vars(Upload(u)) /\ SF_vars(Confirmed(u))

Spec == Init /\ [][Next]_vars /\ Fairness

-----------------------------------------------------------------------------
Held == UNION {ToSet(uploader[u].lines) : u \in Uploaders}
Lost == (1..written) \ (ToSet(pending) \cup Held \cup stored \cup dropped)

(* However many uploaders take lines out and put them back, the ring keeps   *)
(* its limit, and a line that is nowhere has made way for others: as many    *)
(* lines as fit are always saved, and none is lost before more were written  *)
(* than fit.  Apart from it stand only the lines that servers with a full    *)
(* registry confirmed without storing them, which the client cannot tell.    *)
(* It also rests on a server keeping whole uploads.                          *)
OnlyOverflowLoses ==
    /\ Len(pending) <= MaxLines
    /\ Cardinality(Lost) <= IF written > MaxLines THEN written - MaxLines ELSE 0

(* While uploads are on and the node is in a network the servers may see,    *)
(* every line is confirmed in the end or has been displaced; it does not stay*)
(* in the ring, or with an uploader, for ever.                               *)
LinesArrive ==
    <>[](logUpload /\ visible) =>
        \A l \in Lines : (l \in ToSet(pending) \cup Held) ~> (l \in stored \cup dropped \cup Lost)
=============================================================================
